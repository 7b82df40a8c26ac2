# A TLA+ development of sqail

sqail is a SQL editor (`crates/sqail-ui`) that reaches databases through an
HTTPS gateway (`crates/sqail-service`). This directory models the parts of
both where steps of several actors interleave or where one long sequence of
steps has to add up, checks them with TLC and proves the main invariants of
both with TLAPS. Paths below are relative to the repository; `S/` stands for
`crates/sqail-service/src/`, `U/` for `crates/sqail-ui/src/`.

To check it: `tlc -config pool.cfg MCPool`, and so on for each row of "Runs"
below; `tlapm PoolProofs.tla`, and likewise
`QueryProofs`, `SessionsProofs`, `ProfilesProofs`, `RestartProofs`,
`TabProofs`, `BackgroundProofs` and `DesktopProofs`, for the proofs.

## Inventory

| Component | Where | State | Operations | Interacts with |
|---|---|---|---|---|
| Connection pool | `S/engine/mod.rs` 374-521 | idle stack with times, permits, leases | `get`, `put_back`, `Pooled::{conn, release, reset_and_release, discard, drop}` | drivers; every handler that runs SQL |
| Query execution | `S/api/query.rs` 43-343 | registered query ids, cancellation tokens, one task and one event channel per query | `run`, `start`, `drive`, `run_controlled`, `cancel` | pool or session, driver, HTTP response |
| Engine drivers | `S/engine/{pg,mssql,sqlite}.rs` | the database session, a cancel handle, a worker thread (SQLite) or a driver task (PostgreSQL) | `connect`, `execute`, `ping`, `in_transaction`, `reset`, `cancel` | database |
| Explain, catalog | `S/api/{explain,schema}.rs` | none of their own | `on_connection`, `on_session`, catalog calls under `with_deadline` | pool, sessions |
| Sessions | `S/sessions.rs`, `S/api/query.rs` 345-462 | id to session (owner, profile, locked connection, last use, transaction flag) | create, run, list, get, close, reap, close for profile | profiles, queries, reaper task |
| Profiles and registry | `S/api/connections.rs`, `S/engine/registry.rs` | stored profiles, one pool per profile version | create, update, delete, `Registry::{pool, invalidate}` | store, pool, sessions |
| Service control | `S/lib.rs`, `S/api/admin.rs` | pending restart, last error, current settings, settings file | `request`, `run`, `start_with`, `save_settings` | all of the above, which one server owns |
| Auth and tokens | `S/auth.rs`, `S/state.rs`, `S/api/tokens.rs` | tokens, rate limiter, throttle of the last-use write | `require_token`, `touch_token`, create, revoke | store |
| Store and audit | `S/store.rs` | a SQLite file under a mutex | look-ups, writes, audit paging | all handlers |
| Client library | `crates/sqail-client` | NDJSON buffer, event queue | `push`, `finish`, `ndjson` | service, UI |
| UI runs and sessions | `U/{app,results,worker,dialogs}.rs` | tabs, each with a run, a session, the transaction flag; one message channel | `run_sql`, `explain`, `cancel_run`, `request_close_tab`, `close_tab`, `handle`, `Run::apply` | client |
| UI table designer | `U/designer/{model,mod}.rs` | a table as loaded and as edited, with stable ids; one window each | the edits of its pages, `plan`, `fetch`, `apply` | client, schema cache |
| UI data editing | `U/{editing,grid}.rs`, `apply_edits` in `U/dialogs.rs` | pending changes of one result, its sort order, the statements under review | `start_edit`, `set`, `toggle_sort`, `statements`, `apply` | UI runs, client |
| UI import | `import_csv` in `U/transfer.rs`, `ImportForm` in `U/dialogs.rs` | a dialog, the table's columns, a batch of rows | open, import, close | a session of its own, UI messages |
| UI export | `export_query`, `Exporter`, `statement_for_result` in `U/transfer.rs`, `export` in `U/app.rs` | the run shown, the file being written | export | UI runs, the tab's session |
| UI assistant | `U/assistant/{mod,cli,stream,panel}.rs` | the conversation, a turn in progress, a folder per chat | ask, stop, new chat | a CLI process per turn |
| Tool server | `U/assistant/{mcp,guard}.rs` | one cached session | `call_tool`, `query` | the CLI, the service |
| UI services | `U/app.rs` (`connect`, `forget_service`, `refresh_connections`, `handle`) | the service in use, its client, the list of profiles | connect, forget, refresh, save | client, every tab |
| Schema tree | `U/schema.rs` | what is cached of each connection, open nodes | `get`, `apply`, `invalidate`, `invalidate_table` | service, completion, designer |
| UI workspace | `U/editor.rs`, `Workspace` in `U/local.rs`, the file actions of `U/app.rs` | the tabs' texts and paths, `workspace.json` | edit, open, save, close, pin, autosave, restore, exit | files, closing dialogs |
| UI history | `History` in `U/local.rs` | entries, `history.jsonl` | `load`, `push`, `trim`, `clear` | a file |
| Others | splitter, guards, TLS, Azure, config, editor, completion | text, caches and presentation | | |

### What makes each part correct, and what makes it hard

* **Pool.** Never more connections than permits; a connection has one keeper;
  none that executes something or carries a script's state is lent on; a cancel
  by session id hits its own session. Hard because a request future can be
  dropped at any `await`, because an abandoned lease is wound down by a task
  nobody waits for, and because the database finishes in its own time.
* **Query.** The stream has one grammar whatever happens; the connection is
  reused only when it is idle and outside a transaction; a query with a
  deadline ends. Hard because cancel, deadline, disconnect, loss of the
  connection and normal completion race, and each takes another path.
* **Sessions.** At most `max_per_token` per token; one query at a time; a
  session in use is not reaped; a closed one's connection goes when its query
  ends. Hard because cap, lock and map are three separate pieces of state.
* **Profiles.** A request never uses settings older than those it loaded, and
  a deleted profile keeps no pool and no session. Hard because loading,
  building the pool and invalidating are not one step.
* **Service control.** The file holds the settings of the last server that
  started with them; no accepted request is lost; a stopped server leaves
  nothing running. Hard because of the order of stop, start and save and
  because query tasks are not part of the server that is stopped.
* **UI runs.** A script runs once, on the connection and after the `BEGIN` the
  user saw; a tab at rest shows what it left open; a run ends. Hard because of the
  retry in a new session, of messages that arrive late, and because the tab
  drops its session in many places.
* **Designer.** The DDL turns the loaded table into the designed one and keeps
  its rows. Hard because a dozen kinds of statement meet each other's names and
  dependencies, differently on three engines, and because SQLite needs a rebuild.
* **Data editing.** What commits is what the grid showed, row by row. Hard
  because rows are named by position, by arrival and by key in different places,
  and sort, late answers and other clients move each of them.

* **Import and export.** All rows of a file or none are committed, and the
  dialog says which; an export repeats no write and runs the statement that made
  what is shown. Hard because an answer may be lost after its effect, because
  messages do not say which dialog they are for, and because statements and
  results are matched by counting.
* **Assistant.** A question is followed by its own answer, each text once, in
  the chat it was asked in; what the assistant runs is undone. Hard because a
  stopped turn still delivers, because the CLI says a text up to three times,
  and because each of a query's three requests can fail by itself.
* **Services and schema tree.** The client is that of the service the user
  chose last; a tree that says "Loading" is loading. Hard because answers come
  in any order and the caches are emptied while requests are on their way.
* **Workspace and history.** No text goes unless it is in its file or was
  discarded; the next start shows what the last exit left. Hard because files
  are written by tasks while the user types on, and because crashes and full
  disks fall between two writes.

`PROJECT.json` lists the individual hazards with their lines.

## Modules

| Module | Kind | Stands for |
|---|---|---|
| `Lending` | abstract | what a pool promises to its borrowers |
| `Pool` | component | `Pool` and `Pooled` of `S/engine/mod.rs`, their callers' ways to end a lease, the database's side of it |
| `PoolProofs` | proofs | invariants of `Pool` for all constants |
| `EventStream` | abstract | the order of events `docs/api.md` promises |
| `Query` | component | `drive` and `run_controlled` of `S/api/query.rs`, the driver's future, the response channel, client and database |
| `QueryProofs` | proofs | invariants of `Query` for all constants |
| `Sessions` | component | `S/sessions.rs`, the session handlers of `S/api/query.rs`, `on_session` of `S/api/explain.rs`, the reaper of `S/lib.rs`, `delete` of `S/api/connections.rs` |
| `SessionsProofs` | proofs | invariants of `Sessions` for all constants |
| `RestartProofs` | proofs | invariants of `Restart` for all settings |
| `Profiles` | component | `S/api/connections.rs`, `S/engine/registry.rs`, `pool_for` of `S/api/mod.rs`, the writes of `S/store.rs` |
| `Restart` | component | `run`, `start_with`, `save_settings`, `Control` of `S/lib.rs`, the settings handlers of `S/api/admin.rs`, `serve` of `S/main.rs`, `S/config.rs` |
| `Tab` | component | a tab of `U/app.rs`, the tasks of its runs, the closing dialogs, the sessions they use |
| `Design` | component | `U/designer/model.rs` and the window's life in `U/designer/mod.rs`, with what servers make of the DDL |
| `Edits` | component | `U/editing.rs`, the editing side of `U/grid.rs`, `start_edit` and `review_edits` of `U/app.rs`, `apply_edits` of `U/dialogs.rs` |
| `Import` | component | `import_csv` and its helpers in `U/transfer.rs`, `ImportForm` and `import` of `U/dialogs.rs`, the session it uses |
| `Export` | component | `statement_for_result`, `export_query` and `Exporter` of `U/transfer.rs`, `export` of `U/app.rs` |
| `Chat` | component | `Assistant` of `U/assistant/mod.rs`, `run` of `U/assistant/cli.rs`, `Parser` of `U/assistant/stream.rs` |
| `Tools` | component | `ServiceBackend` of `U/assistant/mcp.rs`, the session it uses |
| `Connect` | component | connecting, the list of profiles and their messages in `U/app.rs` |
| `Tree` | component | `SchemaTree` of `U/schema.rs` |
| `Workspace` | component | `U/editor.rs`, the files and closing dialogs of `U/app.rs` and `U/dialogs.rs`, `Workspace` of `U/local.rs` |
| `History` | component | `History` of `U/local.rs` |
| `Results` | composition | `Tab` and `Edits` side by side |
| `Background` | composition | `Tools`, `Import`, `Export` and `Chat` side by side |
| `Desktop` | composition | `Connect`, `Tree`, `Workspace` and `History` side by side |
| `ProfilesProofs` | proofs | invariants of `Profiles` for all constants |
| `TabProofs` | proofs | invariants of `Tab` and `Edits`, as parts of `Results`, for all constants |
| `BackgroundProofs` | proofs | invariants of each part of `Background` for all constants |
| `DesktopProofs` | proofs | invariants of `Connect`, `Tree`, `History` and `Workspace`, as parts of `Desktop`, and what a closed tab and a restart keep, for all constants |
| `MCPool`, `MCQuery`, `MCSessions`, `MCProfiles`, `MCRestart`, `MCTab`, `MCDesign` | TLC | instances of one component |
| `MCEdits`, `MCTasks`, `MCDesktop` | TLC | instances of `Results`, where only `Edits` acts, of `Background` and of `Desktop` |

`Results`, `Background` and `Desktop` put components next to each other that share no state.
Whatever such components do together, each goes through exactly the states it
has alone. A theorem is therefore about the specification of one part, as in
`Import!Spec => AllOrNothing`, and in `MCTasks` and `MCDesktop`, instead of every
interleaving of all of them, `part` says which one acts, and the others stay as they
began. A conversation is there with two bounds: `"turns"` for what a stopped turn does
to the next, `"one turn"` for what the panel shows of an answer with tools and errors.

A definition whose comment begins with `Mutant:` is no part of a specification: it
stands before the definition it mutates, as a bug that a property must notice.

### Pool

A task is one call of `Pool::get` and the use of what it returned; its `pc` says
where it is. `waiting` is the wait for the semaphore; `popping` the head of the
loop; `pinging` and `connecting` the two awaits at which the request can be
dropped (`DropGet`); `unused` and `used` are the flag of `Pooled`; the rest are
the ends of the lease, in which the connection goes first (`Return`, `Lose`)
and the permit last (`leaving` to `out`, by the order of the fields of
`Pooled`). The semaphore is not a variable: a permit is held exactly by the
tasks that are neither out nor waiting.

Ages are counts: `old` and `expired` entries at the bottom of the stack are past
`REVALIDATE_AFTER` and `MAX_IDLE`. Entries are pushed with the current time, so
ages are ordered along the stack and two numbers say it all; `Elapse` lets any
amount of time pass.

The database is in the model where the pool relies on it. A connection is the
id of its server session, which the server may reuse. `running` and `dirty` are
what a statement does and leaves. `lingering` are the sessions a dropped
connection leaves behind: the PostgreSQL driver's task, spawned by `connect`
and never aborted, ends only when the server answered what is outstanding, and
SQLite's worker thread holds the file while its statement runs; SQL Server
connections close at once. `Scripts` are the tasks that run user SQL (query and
explain, which reset), the others are catalog calls (which release).

### Query

`pc` follows `drive` from the `started` event to the hand-back. The driver's
future is polled only in `executing` and, after a cancel, in `winding`; its
events are drawn freely from what `ResultWriter` and the SQLite worker can
send, with `open` for the open result set. `Answered` is the end of the future
with the database's answer and `HungUp` its end because a send failed. A send
waits for room in the channel, and fails at once when the client is gone.

After the script: `Check` (the ping after an interrupt), `AskTransaction`,
`Report`, `SettlePooled` or `LoseSession`/`SettleSession`, `Finish` (`done`),
`Unregister`, `CloseStream`, `HandBack`. The database may end the script or lose
the connection (`Die`) at any moment. `seen` is what the client has read, as a
state of `EventStream`, so that the refinement is checked and not assumed.

Constants choose the engine, whether the query runs in a session, and whether
it has a deadline.

### Sessions

A handler is a request, and the query task it spawns, that works on one
session of one token. Handlers run in parallel threads, so that each access to
the map, to the profile and to a session's lock is a step: `Admit`, `LoadNew`,
`Connect`, `Insert` create a session; `Find`, `Load`, `Lock`, `Begin` take one
for a query or an explain; a settling and `Release` give it back. `arc` is the
reference that keeps a session alive after it left the map (`Close`, `Judge`,
`CloseForConnection`, `FindLost`); a session is gone when neither the map nor a
handler refers to it. A query's touch and its start are one step, since
nothing but the reaper reads what lies between.

`lock` is the async mutex around the connection. A query's guard lives in its
task; an explain's lives in the request's future, which hyper drops when the
client leaves (`DropExplain`): `running` then goes on without a handler until
`StrayEnds`. `Refuse` may happen at any time, because the listings' and the
reaper's `busy` takes the lock for an instant.

The reaper holds the map's mutex from its cut-off to its last decision, and
reads `busy` (`Look`) and the last use (`Judge`) of a session separately. Time
of last use is one bit, `recent`; `Age` lets the idle timeout pass. `profile`
is between the two halves of the deletion while it is `deleting`.

What happens between `Begin` and the settling of a query is `Query`'s, in a
session: it leaves the flag true or the connection lost. `Sessions` takes over
just that, in `SettleKept` and `SettleLost`.

### Profiles

Handlers run in parallel; the store and the registry each have a mutex that no
handler keeps between two calls. So a request that uses a profile is `Load`,
then `TakePool` or `BuildPool`, then `Leave`; an update is `Edit` (load), `Save`,
`Invalidate`; a deletion `Remove`, `Erase`, `Invalidate`; a creation `Compose` or
`ComposeFrom`, `Insert`. A profile is the number of the write that made it, its
`updated_at` and the write its password came from. Pools are counted references
(`Refer`): one lives while the registry or a handler holds it. What a deletion
does to sessions is in `Sessions`.

`Coarse` lets two writes fall into one timestamp, which the registry takes for
the same version; the run has it off (see "Stated, and not so").

### Restart

`phase` is where the loop of `run` is, with the blocking points between: the wait
for a wake-up, the wait for the old server, the start of the next, and the two
halves of `fs::write`. `pending` and `permit` are the slot and the one stored
wake-up of `Control`; `asking` is a handler between its check and its
`request`. A crash may happen at every step, the file may be edited by hand at
any time, and a start and a save may fail. `known` is history: what a server
came up with or a hand wrote. A write that a crash cuts leaves the file empty, which
is the default, or torn; that a cut between two keys parses as a mixture is not told
apart, since the properties leave such a file out. One query task and one session
stand for those that a stopped server may leave `behind`.

### Tab

The UI thread never waits, so each action of the user and each message it takes
is one step. Every run has a task: `opening`, `begin`, `query`, `executing`,
`tail`, the two attempts of its loop being told apart by `retried`. A task speaks
to the tab through `inbox`, in the order of the one channel of `worker.rs`; a
message names its run or, for a new session, none. The service's side is what
`Sessions` and `Query` promise: a session is open or gone, locked or free, with
or without a transaction; it expires only when it is free, and the lock may
outlast the `done` the client has read. An explain with analyze rolls back the
transaction it finds, or leaves its own open, when a statement of it fails or the
request is dropped (`Explained`). `asked` keeps what the user saw when a run was
started; `agreed` the session a user agreed to roll back; `strays` the sessions in
which a transaction of an explain is open.

### Design

A design is a record with ids for columns and indexes, as in `model.rs`. The
plan is a sequence of statements, each a record that carries the names the code
writes into the text: `CreatePlan`, `AlterPlan` (in the order of `alter_plan`)
or `RebuildPlan`. `Transaction` runs the plan of the reviewed design on the
server's tables.

The servers are external: `Refused` and `Exec` say by name what a statement
meets and does on each engine, with what the code relies on: Postgres drops with
a column what stands on it, the others refuse; SQL Server has named constraints
for defaults and refuses to alter what is indexed or in a foreign key; SQLite
names the indexes of constraints itself and alters no column; Postgres casts a
column's old default with its type. Tables, keys and indexes share names as far
as each engine has them do (`Objects`, `OnTable`); which types suit a default is
given (`Fits`). What the window does not load, such as another table's foreign key
to this one or a trigger, is part of `RollBack`. Each column carries `data`, the
loaded column whose rows it holds. What rows may refuse is the free choice
`RollBack`; an answer of COMMIT that is lost is `lost`, after which the window shows a failure (`stale`).

### Edits

A table is a function from keys to values, one per connection, and the select
list is a list of columns, `*` and expressions, so that `map_columns`
(`LinesUp`, `Target`, `CanEdit`) is modelled by what it matches. `raw` holds the
rows as they arrived; the grid shows them in `Order`; pending changes are kept by
arrival index, new rows after the others. `OpenCell` to `FinishCell` is the
in-cell editor, which the code keys by position. `Statements` are deletes,
updates, inserts with the key each row came with; `Transaction` runs them on the
table of the tab's connection by then, and stops at one that is refused or matches
no row (`Ran`). `InOrder` lists a set in an order given as a relation: the rows
under a sort key, and the row numbers of deletes and updates, which the code
keeps in ordered maps.
`OthersWrite` is any other client. `moved` says that rows moved under an open
editor, `opened` (`pointed` in `Results`) which cells were pointed at, `reviewed` what was reviewed.

### Import

A dialog is a record: its table, the columns that have arrived, whether it is
busy, what it says. A file picker's answer opens one at any time, also over a
busy one (`OpenDialog`); `ColumnsArrive` and `ImportDone` are messages that name
neither table nor import. A task per import sends BEGIN, an INSERT per batch and
COMMIT, one request at a time; `Send`, `Answer`, `LoseAnswer` and `Refused` are
what can become of one. On the service's side a query runs alone on its
session (`Executes`, `Errs`), the session may end, is reaped, and the connection
it leaves is undone (`Undo`).

### Export

A statement is what `check_read_only` says of it, the number of results it
yields and their columns; the engine decides what it yields. `RunStops` ends a
run inside any statement. `Asked` picks the statement as `statement_for_result`
does; `Task` writes the rows, sheet by sheet for Excel. What the query returns
the second time is free.

### Chat

`entries` is what the panel shows, by turn. A turn's task prepares, starts the
CLI, feeds the prompt, reads lines through the `parser`, and waits for the exit;
the CLI is external and says what `stream.rs` expects of one: its session, each
text in parts and whole or only whole, tools, a result. `stopped` is the flag of
a turn, which its task looks at; events of every turn come by one `inbox`.

### Tools

Calls come one after the other. A query is BEGIN, the statement and ROLLBACK;
`ask` is the request that is due and `reply` its answer, which may be lost while
the request takes effect. `tx` is the call whose transaction is open, `running`
the statement at work. The session may end at any time; its transaction is
undone once nothing runs.

### Connect

Each call of the UI is a record with the client that makes it; `Answer` is the
moment the service makes its answer, `Handle` the moment the UI takes it, in any
order. One tab stands for all that are bound to a profile.

### Tree

A connection has two keys, the list of its tables and one table; each is absent,
loading, failed or of a version of the database. Completion and quick-open read the
same cache. `Forgotten` empties it while requests are on their way.

### Workspace

A tab is an id, a path, its text and the text it takes for saved. Opening and
saving are tasks (`OpenTask`, `SaveTask`) that read and write the file in steps
and answer through `inbox`; the closing dialogs name a tab by its index (`at`),
beside which `asked` keeps the tab that was meant. `workspace.json` is written to
its `.tmp` and renamed; a crash may fall between any two steps, a write may
fail. `onDisk` and `sure` of a tab are history: what its file was last read or
written as, and whether no edit or second save came between a save and its answer.

### History

Entries are numbers. `Push` appends a line, its end separately; past 120% of the
limit the file is emptied and written anew (`Truncate`, `WriteBody`). A crash
may fall between, and each write may fail and leave a part. A part that ends
inside a character makes the file no text (`torn`), and `Load` then gets nothing
of it, as after any failure to read; `since` is the last entry such a start does
not know of.

## Runs

| Run | Question | Result |
|---|---|---|
| `pool` | do the pool's invariants hold, does it implement `Lending`, does every permit come back? | holds |
| `query_pooled` | is what a pooled query returns idle and outside a transaction, is its stream well formed, does it end? | holds |
| `query_session` | in a session on SQLite, is the transaction flag right, whatever interrupts the script? | holds |
| `sessions` | has a session one user at a time, is the cap exceeded by races only, does the reaper spare a running query? | holds |
| `sessions_deleted` | do the sessions of a deleted profile go, late ones too? | holds |
| `profiles` | does a request work with the version it loaded, does a deleted profile stay deleted? | holds |
| `restart` | does the file only say what a server came up with, are failures reported, is every accepted request taken, does no restart make a token? | holds |
| `tab` | does a script run once, where and as asked; does a tab at rest show the transaction a script left open; does a run end? | holds |
| `design` | does the DDL reach the design, keep the rows, miss no edit, and fail for known reasons only? | holds |
| `edits` | do changes stay on their rows, and is what commits what the grid showed? | holds |
| `tasks` | is an import all or nothing, does an export of a finished run write what was shown, is a question of the assistant followed by its own answer, each text once, and is what its tools run undone before they answer? | holds |
| `desktop` | is the client that of the service in use, does a node that loads have its request, does no text of a tab go unasked, do the tabs of the last exit come back, does the history's file keep all that an append cut short does not touch, as long as it is text? | holds |

`Ends` and `StreamSpec` are checked on a pooled query, where `Ends` assumes a client
that reads on until it hangs up; `query_session` is about the flag only.

### In no run, and true

A run lists the properties that a change of the code is most likely to break.
These are stated in the modules and hold as well, when they are put into the
configuration (of a component in `MCTasks` or `MCDesktop`: as a definition there,
`P == Import!P`; of `Chat` for the `part` it belongs to): `TypeOK` of every
component, which is proved for those with proofs but `Chat`; `Pool!ConnectionCap`,
`Restart!NoTokenOnRestart` and `Profiles!DeletedStaysDeleted`, which are proved;
and, of a component run alone, `Query!Ends` of a SQLite session,
`Import!{CountsWhatItImported, TransactionsEnd, BusyEnds}`,
`Export!{RepeatsNoWrite, FileIsWhole}`, `Chat!{OwnSession, StopKills, TurnEnds}`,
`Tools!EventuallyUndone`, `Connect!ConnectingEnds`, `Tree!LoadingEnds`,
`Workspace!{PinnedAreFirst, WorkspaceIsWhole}` and `History!ShowsTheLast`; of these
`RepeatsNoWrite`, `FileIsWhole`, `PinnedAreFirst` and `ShowsTheLast` are proved. Those
of them that say "ends" or "eventually" need the component's `FairSpec`.

### Stated, and not so

These properties are stated in the modules and no run lists them, because the
code does not have them. To see the counterexample, put the property into the
configuration named (an action or temporal property under `PROPERTIES`). A
property of a component that `MCTasks` or `MCDesktop` instantiates is first
defined there, as in `P == Import!P`; `with` means an edit of that instance.

| Property | Configuration | What the code does |
|---|---|---|
| `Pool!DatabaseCap` | `pool` | The cap is one on the service's connections. A lease whose cancel fails is dropped and its permit freed (`S/engine/mod.rs` 515) while the PostgreSQL driver's task, which nobody aborts (`S/engine/pg.rs` 89), keeps the server session until its statement ends. |
| `Pool!NoLeftover` | `pool` with `Engine = "sqlite"` | `SqliteConn::reset` does nothing (`S/engine/sqlite.rs` 286), so temporary tables and settings reach the next borrower. `CleanHolds` has the assumption it needs. |
| `Query!GoneIsStopped` | `query_pooled` | "Closing the HTTP connection stops the query too" (docs/api.md 161). `run_controlled` returns at `S/api/query.rs` 319 without a cancel request; on PostgreSQL and SQL Server the script runs on. |
| `Query!Ends` | `query_pooled` with `ServiceSpec` | A client that keeps the response open and does not read holds the query past its deadline: `drive` waits for room in the channel (`S/api/query.rs` 224, 260). |
| `Query!ResultsAreEnded` | `query_pooled` with `Engine = "sqlite"` | A statement that fails while it returns rows ends without `result_end` (`S/engine/sqlite.rs` 362), against docs/api.md 129-130. |
| `Sessions!CapHolds` | `sessions` | "sessions capped per token" (docs/security.md 54): `session_create` counts, awaits a connect, then inserts (`S/api/query.rs` 378-384). `CapWithinRaces` is what holds. |
| `Sessions!OneAtATime` | `sessions` | "a second one gets 409" (docs/api.md 179): a dropped explain gives the lock back while its statement executes (`S/api/explain.rs` 92). |
| `Profiles!OmittedKeeps` | `profiles` | "On PUT, leaving it out keeps the stored password" (docs/api.md): an update writes the one it loaded, over one that another update has stored since (`S/api/connections.rs` 151-159). |
| `Profiles!DeletedIsDisconnected` | `profiles` | "Drop the pool (idle connections close ...)" (`S/engine/registry.rs` 67): a request that loaded the profile before the deletion puts a pool back, which stays. |
| `Profiles!UsesWhatItLoaded` | `profiles` with `Coarse = TRUE` | Two writes in one millisecond have the same version. |
| `Restart!RestartClosesAll` | `restart` | "A restart closes open sessions (open transactions roll back) and cancels running queries" (docs/operations.md 91-92): a query task that the end of its request did not stop keeps the state of its server, and all its sessions. |
| `Sessions!FlaggedIsOpen` | `sessions` | "the status bar shows *in transaction* while one is open" (docs/user-guide.md 225-226): explain with analyze rolls back on the session's connection (`S/engine/explain.rs` 24, 71), the user's own open transaction too, and `on_session` does not store the flag. |
| `Tab!NoHiddenTransaction` | `tab` | The same the other way round: on SQL Server explain with analyze returns after BEGIN TRANSACTION when SET STATISTICS XML fails (`S/engine/explain.rs` 62-64), or is dropped before its ROLLBACK, and `Msg::Plan` touches neither session nor flag (`U/app.rs` 966-977): the next run is part of a transaction the tab does not show. `ScriptTransactionShows` is what holds. |
| `Tab!ManualRunsInTransaction` | `tab` | "sqail sends `BEGIN` before the next run whenever no transaction is open" (docs/user-guide.md 227-228): `run_sql` asks `tab.in_transaction` (`U/app.rs` 578), which stays set when a failed run drops the session or the service expires it; the next run, or the retry, commits by itself in a new session. |
| `Tab!OpenTransactionAsks` | `tab` | "A tab with an open transaction always asks" (docs/user-guide.md 225-226): not while a run that began one has not ended. |
| `Import!RolledBackIsTrue` | `tasks` | "Nothing imported (rolled back)" (`U/dialogs.rs` 1872) is said after any error, one of COMMIT too (`U/transfer.rs` 601): when the connection breaks after the database committed and before the answer is read, the rows are there, and a second click inserts them again. |
| `Import!ColumnsFit` | `tasks` with `Tables <- {"t", "u"}` | `ImportColumns` does not name its table: late ones fill the dialog of another (`U/app.rs` 999). |
| `Import!ShowsItsOwn` | `tasks` with `MaxImports <- 2`, `MaxOpenings <- 3`, `MaxRows <- 1` | `ImportDone` does not name its import: a late one ends the dialog of another (`U/app.rs` 1009). |
| `Export!ExportsTheShown` | `tasks` | "It runs only the statement that produced the result you're looking at" (docs/user-guide.md 275-276): for a run that stopped early at least as many reads as results are enough (`U/transfer.rs` 294). Of `DELETE ... RETURNING; SELECT ...` with the SELECT cancelled, the SELECT is exported as the DELETE's result. With `Engine <- "mssql"` a run that finished does it too, where a script may return early or a SELECT yield nothing, and the counts still agree. |
| `Export!ExportsFromWhereShown` | `tasks` | "in the tab's session" (docs/user-guide.md 276): choosing another connection keeps the run, and `export` takes the connection the tab has by then (`U/app.rs` 1189). |
| `Chat!FollowUpsContinue` | `tasks`, of `Chat` | "Follow-up questions continue the same conversation" (docs/user-guide.md 382-383): a stop that overtakes the CLI's first event drops the session id in it (`U/assistant/mod.rs` 136), and the next question starts a CLI session that knows nothing. |
| `Chat!ForgottenIsGone` | `tasks`, of `Chat` | "Forget the conversation (and its CLI session folder)" (`U/assistant/mod.rs` 119): the stopped task looks at its signal only between lines and may create the folder again (`U/assistant/cli.rs` 94). |
| `Tools!OwnTransaction` | `tasks` | "Every assistant query also runs in its own transaction that is always rolled back" (docs/user-guide.md 403-404): a BEGIN whose answer is lost returns without ROLLBACK (`U/assistant/mcp.rs` 431), and a ROLLBACK sent while the statement still runs is refused; the next query runs in the transaction that stayed open. |
| `Tools!SessionIsThere` | `tasks` | The session is cached for good (`U/assistant/mcp.rs` 374): once the service has closed it, every later query of the process fails. |
| `Connect!SupersededIgnored` | `desktop` | "a newer connect superseded this one" (`U/app.rs` 702): only urls are compared, so after Reconnect the late failure of the first call sets Failed over a client that works. |
| `Connect!OnlyDeletedUnbound` | `desktop` | "Tabs bound to a deleted profile lose their binding" (`U/app.rs` 723): a list that was asked for before the profile was saved arrives after the tab was bound to it. |
| `Connect!ListIsTheServices` | `desktop` | "everyone using that service ... sees the same list" (docs/user-guide.md 57-58): `Msg::Connections` does not say whose list it is, and the list of the service before, when it comes last, stays. |
| `Tree!ForgottenStaysForgotten` | `desktop` | "Forget what is cached about one table" (`U/schema.rs` 76): what a request on its way read before the designer's change is stored after it, and served until somebody refreshes. |
| `Workspace!CleanIsOnDisk` | `desktop` | "Dirty relative to the file on disk" (`U/editor.rs` 146): `mark_saved` takes the text of the moment its message is handled for what was saved (`U/editor.rs` 275), also what was typed while the file dialog was open. |
| `Workspace!DiscardsTheAsked` | `desktop` | The closing dialog holds an index (`U/dialogs.rs` 1623); when a message closes a tab before it, Discard closes the next one. |
| `Workspace!IndexIsThere` | `desktop` | The same past the end: its buttons index `tabs` out of bounds (`U/app.rs` 523, 1348). |
| `Workspace!ExitKeepsTabs` | `desktop` | "Open tabs, including unsaved text, are restored" (docs/user-guide.md 318): a save that failed counts as done (`U/app.rs` 417), and nothing is written at the exit unless a tab changed since. |
| `History!StartShowsThem` | `desktop` | "The last 5 000 entries are kept" (docs/user-guide.md 313-314): `load` takes a file that cannot be read, or is not text since an append ended inside a character, for an empty history (`U/local.rs` 52-58). The next starts show only what was made since, though the entries stand in the file until it is rewritten. |
| `History!KeptThroughCrash` | `desktop` | "The last 5 000 entries are kept" (docs/user-guide.md 313-314): the compaction empties the file first (`U/local.rs` 84), where the workspace writes and renames. |
| `History!FileIsCompacted` | `desktop` | "the file is compacted past 120% of this" (`U/local.rs` 13): what is compared is the length in memory (`U/local.rs` 76), which `load` trimmed; runs of up to 1,000 queries append for ever. |
| `History!ClearForgets` | `desktop` | A removal of the file that fails is ignored (`U/local.rs` 100), and the next start loads it all. |

Four more things the models show. The reaper may take a session whose explain
has just begun, because an explain does not touch its session before it
executes. In the designer Postgres drops an expression index with its column while
the window goes on showing it, and after a lost answer of COMMIT the window says that
nothing was changed. In the grid, a cell editor that is open out of view takes
another row's place when the user sorts (`U/grid.rs` 1193), and a second click
on "Edit data" discards what is pending when its answer comes (`U/app.rs` 941).
A row that takes the key of a later changed row, which others removed, gets the
second change as well (`U/editing.rs` 438).

And `RefusedOnlyFor` lists designs without problems that a server refuses. Names:
two cannot be swapped, nor one passed between the table, its key and its indexes;
an expression index keeps the old name of its column. Foreign keys: `fetch` loads
them on every engine (`U/designer/mod.rs` 164-186), `alter_plan` has no statement
for them (`U/designer/model.rs` 808-1083), so that SQL Server refuses to drop or
retype a column of one and Postgres to retype it. Types: `alter_plan` puts TYPE
before DROP DEFAULT and SET DEFAULT (`U/designer/model.rs` 968-987), so that
Postgres refuses a new type with a new default when the old default does not suit
it. Without any of these the run finds the refusal; beyond them nothing that the
window loads is in the way.

### Bounds

* `pool`: three tasks, two permits, three connection ids. Two permits and three
  tasks are the least with a waiting task while two leases overlap; the third
  id lets the server reuse an id while another is still cancelled. Two of the
  tasks run scripts, so that a script and a catalog call, and two scripts,
  follow each other on a connection. No counter is unbounded.
* `query_*`: a channel of two events instead of 32. What matters is full,
  empty and in between; the number of events is not bounded, since `open` and
  `seen` are finite.
* `sessions*`: two handlers and two sessions, a cap of one. Two handlers are
  the least that race; two sessions with a cap of one let creations pass the
  check together. `Ids` bounds the sessions that exist at a time, not those
  ever created. Handlers and sessions are interchangeable, which the safety
  runs use as symmetry. `sessions_deleted`, a liveness run, has one session:
  the race it is about is of one creation with the deletion and the reaper.
* `profiles`: two handlers, two profile ids, three writes: a write before, one
  during and one after a request; four pools, since two may be in the registry
  and two in handlers' hands. Ids are given out once, as UUIDs are.
* `restart`: two settings, one of them the default: what differs is all that
  matters. No counter is bounded.
* `tab`: two connections, two sessions ever opened, two runs: an earlier and a
  later one, a session that goes and its successor. With the bounds used up a
  run's opening fails, as it may at any time.
* `design`: tables of two columns, three edits (`MaxEdits`) from each of ten
  loads, among them one with a foreign key on each engine, a default that only
  suits text, and names that tables, keys and indexes can have in common: three
  edits combine a rename, a change of shape and one more of anything. No edit
  follows a commit, which the next load makes a new start.
* `edits`: two rows and one, three keys, one value besides NULL, two runs, two
  clicks, one write of others, on the first connection's table; the tab beside it
  stays as it began, without runs. A change needs a click; a sort or a second row another; a third row adds no new relation of two.
* `tasks`. Import: one import, two openings of its dialog (one over the busy one),
  up to five rows in batches of two: none, one full batch, two, and a short last
  one. Export: PostgreSQL, scripts of up to three statements, one run, one export, up
  to three rows on sheets of two: two statements are told apart by a third between
  them, and three rows fill a sheet and begin the next. Chat: two turns without
  messages of their own (`ShortAnswers`), a stopped one and its successor; and one turn
  of up to two messages, with hidden or no tools between them, and errors. Tools: three calls,
  one that fails, one in what it left, one after.
* `desktop`. Connect: two services, a profile of each, three calls of the user: a
  connect, another that overtakes it, and a call of the client between. Tree: two
  connections, two requests, one change: a request on its way while the cache is
  emptied, and the next. Workspace: two tabs, one file, two texts, three actions of
  the user, one fault, from no workspace and from one with two tabs. History: a
  limit of five, nine entries, two faults: the file passes its limit of six, is
  compacted, and passes it again.
* `CHECK_DEADLOCK FALSE` for `Pool` and `Query`: a pool nobody asks and a query
  that is over stop. `Sessions` and `Restart` always go on; the others stop when
  their bounds are used up.

### Fairness

* `Pool!Fairness`: the runtime polls tasks and their timers fire (weak fairness
  of each task's steps). A lease is given back in the end, since queries have
  cancel and deadline and calls have `with_deadline`. Strong fairness of
  `DropGet` is the request timeout, which stays due while the loop passes its
  awaits; strong fairness of the pops that leave the loop says that entries do
  not expire as fast as they are popped. Nothing is assumed of who asks, of
  time, or of statements ending.
* `Sessions!FairSpec`: handlers go on from step to step, the reaper comes back
  to every session and time passes; the last two with strong fairness, because
  the lock and the reaper's own reading bar them for moments. That a query or
  an explain ends is not assumed.
* `Restart!FairSpec`: the loop goes on from step to step. Nobody is obliged to
  ask, to serve, or not to crash.
* `Tab!FairSpec`: some of the UI thread and the runs' tasks goes on. That is weaker
  than fairness of each, and enough, since runs are bounded and each ends after a
  few steps: a request is answered or fails, since the client's requests have a
  timeout or the connection breaks, and a query ends, which `Query!Ends` shows under
  its own fairness. Users and the service's reaper are not obliged to anything.
* `FairSpec` of `Import`, `Chat`, `Tools`, `Connect` and `Tree`, for a component run
  alone: tasks go on and their messages are taken; statements end, idle sessions are
  reaped and the transactions of closed ones undone; a CLI that closed its output
  exits; some call that is due is answered. Answers may be lost, refused and late
  without bound, and the tool server itself is obliged to nothing.
* `Query!ServiceSpec`: the task is polled, cancel and timers are seen, the
  canceller returns. Nothing is assumed of the database. `FairSpec` adds that
  the client reads on until it hangs up; without it `Ends` fails (see
  "Stated, and not so").

## Proofs

All proofs hold for every value of the constants within the named assumptions
(`PoolAssumption`: finitely many tasks, `NoConn` is no connection, `Size` a
natural number, one of three engines; `QueryAssumption`: a positive capacity,
one of three engines, two Booleans; `SessionsAssumption`: finitely many handlers
and sessions, a positive cap; `RestartAssumption`: any set of settings with a
default among them; `ProfilesAssumption`, `ToolsAssumption`, `ConnectAssumption`:
natural bounds, and names for nothing that name nothing; `TabAssumption`,
`HistoryAssumption`: natural bounds, and a connection the tab starts with;
`ImportAssumption`, `ExportAssumption`: natural bounds, and room for a row in a batch
and on a sheet; `ChatAssumption`: natural bounds, and turns that may go well;
`WorkspaceAssumption`: natural bounds, a blank text, and stored workspaces with no more
tabs than the bound and an active one unless there is none; `EditsAssumption`: finite
tables of numbers under keys that are not NULL, two columns in either order, and select
lists that name what they read; the proofs about `Tree` need none).

**Pool** (`PoolProofs`). `CapHolds`, `KeeperHolds`, `QuietHolds`, `CancelHolds`
and `CleanHolds` (for engines other than SQLite) are consequences of one
inductive invariant. None of them is inductive alone: that a returned
connection is not on the stack already needs to know which phases own one
(`Custody`); that it is quiet needs what may run in each phase; the cap needs
to count: each permit holder accounts for at most one connection of its own,
and a task that connects found the stack empty with the permit in its hand, so
the stack and the holders together never exceed the permits (`BudgetStep`).
The stack is a sequence, and the lemmas `PopStack`, `PutBackStack` and their
companions say what a pop and a push do to its elements and their distinctness.
`Refines` is `PromiseSpec` for engines other than SQLite: with that invariant, every
step of the pool is a step of `Lending` or changes nothing a borrower sees
(`LendingStep`).

**Query** (`QueryProofs`). `NothingRunning` and `FlagCorrect` follow from
`Inv`: `Verdict` (once `in_transaction` was answered, a connection not given up
is idle and its transaction is the one drive knows of, unless it died),
`Outcome` (settling turns a known transaction of a pooled connection into
`broken`, and a session's flag into what drive knows) and `Tenure` (when a
connection is closed or returned). The crux is that nothing starts on the
connection after `AskTransaction`, while it may still die. `StreamHolds` is
`StreamSpec`: what the client has read, followed by what is in the channel, is a
legal beginning of the stream (`Leads`: a trace of the grammar's states over the
channel), and where it leads is where `drive` is (`Reached`), as long as somebody
reads.

**Sessions** (`SessionsProofs`). `ExclusiveHolds` rests on `Custody`: a handler
past `try_lock` holds its session's lock, the lock's holder is past it, and
only the holder loses the connection. `ReaperSpares` rests on `Spared`: the
reaper saw the lock free, so that a query executing now began after it looked,
and began with a touch; and nothing makes a last use old between the two reads.
`CapHoldsWithinRaces` counts the sessions together with the creations on their
way: only `Admit` adds to the sum, and it sees the map below the cap.

**Restart** (`RestartProofs`). `FileHolds`, `ToldHolds` and `NoTokenHolds` say
what holds between two steps of the loop only because of what holds inside one:
what is to be saved is what the next server starts with (`Agreed`), and then
what it came up with (`Proven`), so that the write puts something proven in the
file; what a reload read is still in the file unless a hand came in between
(`ReadBack`); and no configuration a restart or a fallback starts with asks for
a bootstrap token (`Mintless`), which only the first start's own copy does.

**Profiles** (`ProfilesProofs`). `UsesHolds` needs `Told`: the versions that are
to be seen anywhere, in the store, with handlers and in pools, carry as time
the number of their write and are equal if these are, as long as no two writes
share a millisecond, which the theorem assumes. A version once seen may be gone
from the store and live on in a pool: that is why all places count. A pool in use
keeps what it was built from (`Held`, `ReferTypes`), and no other is built under
its name. `DeletedHolds` needs the types only: an update writes where a row is.

**Tab** (`TabProofs`). `OnceHolds`, `NothingHidden` and `AsAsked` follow from
`Inv`. One task at a time works for a tab (`OneAtWork`), and messages come in the
order they were sent (`InOrder`): of earlier runs only failures are still to come.
With these it can be said what the tab knows of its session's transaction between a
message and its handling (`Known`): at rest it shows the open transaction of its
session, or the user agreed to roll it back, or an explain left it (`Quiet`); while a run is at work, what
becomes its session is the one the run works on, or has nothing open (`Follows`).
`StayHolds`, of `Edits`, needs the open cell editor beside the stored changes
(`PointedInv`): its place in the grid shows a row the user pointed at (`UnderEditor`),
which a sort or a removed row while it is open ends, and nothing else does; and a cell is
put in the row its place shows (`PutDom`). What the order of the grid is plays no part in
it, only that nothing but a sort or a new result changes it (`SameRows`).
`AppliesHolds` is the other theorem of `Edits`: a transaction that succeeds leaves the
rows the grid showed, and everything else as the table had it by then, whatever
others wrote since the rows came. It has four parts. The grid's order is a permutation
(`OrderIs`): the sort key is a total order with ties broken by arrival, so that the
numbers of rows before each (`Ranks`) are all different, and each row is shown once. An
update sets the cells of its row that show something else than what arrived (`SetsAre`),
under the key with which the row arrived. The statements take the table towards the grid
one row at a time (`Progress`): after the first `n` of them the rows they name are as
shown and the others as they were, or the transaction has failed; a delete, an update or
an insert each adds one row to that (`OneMore`), since one whose key is not there, or is
taken, fails; and when all have run nothing is left (`AllDone`). And
what is applied is what was reviewed: while the dialog is open the statements are those
of its edits, and these belong to the result they were made in (`ReviewInv`,
`PendingInv`), since an answer that is still to load columns or rows names its run and
is dropped when it is an earlier one (`LoadInv`). The tables are arbitrary finite ones,
the pending changes arbitrary.

**Background** (`BackgroundProofs`). *Tools:* `NothingCommittedHolds` and
`UndoneHolds` follow from what each phase of a call knows of the transaction
(`Begun`, `Wrapped`, `Undone`). The crux is a request whose answer was lost and that
still runs: it keeps the session locked, so that the next request is refused and
never finds it halfway (`Asked`). *Import:* `AllOrNothingHolds` needs that rows are
inserted inside a transaction or not at all (`Wraps`), that COMMIT is sent once and
after the last row (`CommitsLast`), and that rows sent and in hand are counted once
(`Counts`), whichever answer is lost. *Export:* `ShownHolds` is the counting of
`statement_for_result`: when a finished run's script has as many reads as results,
the two sequences are the same (`LinedUp`), since each statement adds to the one only
if it adds to the other. `WholeHolds` needs that all sheets but the last are full.
*Chat:* `OwnAnswersHolds` needs that entries follow a question of their turn (`Own`)
and that the turn at work is the one asked last; what a stopped turn still sends is
dropped by its number. `TextsOnceHolds` says what they are: of a plan with any number of
messages, streamed or whole, each text is shown once and in order, and all of them when
the turn ended of itself. Its invariant (`OnceInv`) has three parts for each turn. The
parser (`Follows`) knows of each message whether it was streamed, which with the order of
the lines (`LinesFit`: a message that was streamed comes right after its parts) makes the
events of a line bring its text and no other (`EventsBring`). The events on their way
(`Delivered`) end with the last of the turn, and nothing but that follows the result,
which has all texts. And of the turn at work, what is shown and what is on its way are
together what the CLI said so far (`PanelInv`), until the result was handled; from then on
what is shown is whole. That is what makes it right to look at the result's text only if
nothing was answered since the last question (`AnsweredIs`): of the turn at work nothing
but its own stands there (`AskedAt`), so there was no text at all, and the result is the only
place where one is. A turn that neither is at work nor was stopped is over (`TaskInv`):
what it had to deliver was handled.

**Desktop** (`DesktopProofs`). *Connect* and *Tree:* `ClientHolds` and `AskedHolds`
are inductive with the types: the answer of an earlier connect to another service is
dropped, and one to the same service brings the same client; and a request leaves
only by its answer, which ends the loading of its node. `SupersededIgnored` and
`ForgottenStaysForgotten`, which fail (see "Stated, and not so"), are the other side
of the same. *History:* `FileKeepsHolds` and `LastAreShown` are one induction, since
the file is read into memory and written from it: what is to be kept is in the file,
but for the entry being written (`InFile`), and in memory as far as this run read or
made it (`InMemory`). A start that could not read the file is harmless to a rewrite,
which comes after more than `Limit` new entries (`OfThisRun`). Entries are in order in the
file too, hence spaced at least one apart (`Spaced`), and so trimming to the last
`Limit` loses none of the numbers above `pushed - Limit` (`TrimmedKeeps`).
*Workspace:* a tab without the mark of unsaved changes is what `CleanHolds` is about, but
what is on disk changes in a task and the mark in the answer's handler, so that neither
decides the next state of the other. `Accounted` says how they hang together in between:
no save of the tab is under way and what it takes for saved is on disk; or one save of
its very text is; or one answer is, and what it brings is on disk already. It takes ids
that tell tabs apart (`Distinct`), hence an id for the next tab, hence a count of the
user's actions that bounds the tabs and saves there can be (`Budget`).
`CloseLosesHolds` is that invariant at the step in which a tab goes. `RestartHolds`
rests on `RestartInv`: what is renamed into place is what is shown, what is known to be
stored is stored, and the stored tabs have their pinned ones first, so that the sorting
in `restore_workspace` puts them back where they were. That one takes a good part
of the proofs: `set_pinned` is a permutation of the tabs (`RepinnedKeeps`) that keeps
pinned tabs at the start (`RepinnedHead`), where to insert being a count of a set;
and the stable sorting of a restore changes nothing that is in order, and of any other
tabs is a permutation (`PlacesOf` lists places), in which the active tab has its place.

**Sequences.** `FlattenSeq`, with which scripts, CLI output and files are
run through, is defined by recursion, and what a recursive definition computes
needs an induction whose library theorem takes an operator, which the provers cannot
instantiate. `SetInduction` states induction for a set of numbers instead, proved from
the well-foundedness of `<`; `FlattenSteps` shows with it that the partial results
exist, and `Picks`, `LinedUp` and `Leads` are inductions over them; `Unrolled` does the
same for the transaction of `Edits`, and `UpTo` for what the proofs about `Chat` need of
`FlattenSeq` (`FlattenConcat`: of two sequences together it is what it is of each). (Its lemmas stand in `BackgroundProofs`,
`DesktopProofs` and `TabProofs`, which share no module of proofs.)

Model-checked only: liveness (`PermitsComeBack`, `Ends`, `DeletedDrains`,
`RequestsAreHandled`, `RunEnds`), which needs fairness and is out of the prover's
reach; and `Design`, whose properties are about the meaning of a whole sequence of
statements that the run enumerates.

## Not modelled

See "components" in `PROJECT.json`. The definitions stand for about an eighth of the
implementation's lines. The rest has no state that steps of several actors could
spoil, or is outside this program's core:

* presentation: the drawing of panels, grids, plans and dialogs, themes, key maps;
* text: the editor's highlighting, completion and formatting, the statement splitter
  and the lexer behind `check_read_only`, conversions between cells, JSON and SQL
  literals. Statements and rows are abstracted to what the properties tell apart;
* the wire: TLS, certificates, token acquisition, Azure discovery, parsing of
  configuration and command lines;
* the legacy application (`sqail-legacy`), the portal, packaging and vendored crates,
  except that `Pool` takes from `vendor/tokio-postgres` when its connection task ends.

The hand-over of a SQLite connection between worker threads is one step with the
statement's end.

## Plan

1. `Pool`, `Lending`, `PoolProofs`: done, with the refinement.
2. `Query`, `EventStream`, `QueryProofs`: done, with the refinement.
3. `Sessions`, `SessionsProofs`: done; next: several tokens, and a composition
   in which `Query` provides the part between `Begin` and the settling.
4. `Profiles`, `Restart`, `Tab`, `Edits`: done, with proofs. `Design`: modelled and
   checked. To prove: that reloading after a commit shows the edits (`EditsAreSeen`).
5. `Import`, `Export`, `Chat`, `Tools`, `Connect`, `Tree`, `History`, `Workspace`:
   done, with proofs. Left: moving profiles between folders (`U/folders.rs`), two
   windows that share their files.
6. Pure algorithms against reference definitions: `NdjsonDecoder` under any
   chunking, `SortKey::cmp` as an order, audit paging.
