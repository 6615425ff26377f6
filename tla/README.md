# A verification project for zembra-backend-rust

Zembra's backend keeps notes in a local SQLite database, serves them over HTTP
and synchronizes nine tables with a Supabase (Postgres) database that several
backends share.  What is hard about it is the synchronization: no lock, no
transaction and no clock spans the two databases, edits go on while a cycle
runs, and a cycle can stop at any step.  This project models that part: the
comparison that decides what a cycle does, the cycle itself step by step, and
the edits it competes with.  Next to it stands the repository of notes itself:
the requests of one backend that overlap on one database, what they leave in
the tables, and the facts about them that synchronization later relies on.
Around both stand the settings a cycle runs by and the gate it passes, and the
setting up of an installation: the commands, the local migration and the server
as processes that share one configuration file and its databases.

Paths below are relative to `src/src/` unless they start with `docs/`.

## 1. Inventory

| Part | State | Operations | Interacts with | What is hard, what makes it correct |
| --- | --- | --- | --- | --- |
| Snapshot comparison, `sync/diff.rs` | none, a function of two snapshots | `diff_snapshots` with one `compare_*` per table | called by the sync service with both snapshots | rows, latest facts and tombstones disagree in many ways; equal seconds; a plan must be consistent, complete after one round, and empty exactly on agreement |
| Sync service, `services/sync.rs` | settings behind an `RwLock`; the snapshots of a running cycle on its stack | `run_once`, `push`, `pull`, `update_settings`, `status` | reads and writes both databases; started by the worker and by HTTP handlers, without a mutex | stale plans, half-written repairs, overlapping cycles; nothing may be lost, everything must converge, `ok` must mean something |
| Worker, `sync/worker.rs` | none | endless loop: look whether sync is enabled, `run_once`, sleep | sync service, settings | convergence rests on its repetition; a failing cycle must not end it |
| Local snapshots, `repositories/sync/snapshot.rs`, `write_snapshot.rs` | the SQLite tables | nine queries; one transaction for upserts, one for deletions | sync service | reads are not one transaction; deletion of a field that is in use |
| Supabase client, `sync/supabase.rs` | the remote tables (external) | fetch per table and page, upsert per table, delete per row | sync service | every request can fail, or succeed and lose its answer |
| Change facts, `repositories/sync/mod.rs` | `sync_changes`, default `devices` rows | `record_sync_change_in_transaction` | every edit; compared and copied by sync | an append-only log across devices, keyed by uuid, timed in seconds |
| Notes repository, `repositories/notes/*` | `notes`, `note_revisions`, `note_tags`, `note_links` | create, update, archive, delete, tags, links, queries | facts, taxonomy | looks notes up before the transaction that changes them; pages are read while notes change; revisions, rows and facts must agree |
| Taxonomy, `repositories/taxonomy.rs` | `fields`, `tags` | get-or-create, delete an unused field, lists | notes, facts | deleting a field clears hidden notes without a fact of theirs |
| Workspaces, `repositories/workspaces.rs` | `workspaces`, written by `database.rs` and by sync | exists, list | queries | a fresh, empty workspace is not to be pushed |
| Incremental protocol, `repositories/sync/{apply,outbox,state,payload,types,ids}.rs` | `sync_state`, cursors, `sync_conflicts` | apply remote changes, outbox, cursors | tests; `record_error` from a failing push | no cycle runs it |
| Schema gate, `sync/schema_contract.rs`, `sync/schema_migration.rs` | `schema_migrations` on both sides | compare versions, migrate the remote side, compare again | before every cycle | two cycles migrating at once, a lost answer, settings that change in between |
| Sync configuration, `services/sync_config.rs`, `handlers/sync.rs` | the `[sync]` section of the user's file, the settings in memory | read, save, test | worker and cycles read the settings | a save is four steps on two copies; saves overlap; a cycle keeps the settings it started with |
| Database, `repositories/database.rs` | the SQLite file: tables, `schema_migrations`, `workspaces` | open, bootstrap, migrate, renumber and name the first workspace | `init` and the server, as processes on one file | migration in steps that are no transaction, several processes, kills; nothing that is registered may be missing |
| Initialization, `init.rs`, `config_init.rs`, `service_init.rs` | `~/.zembra.env`, the unit of the service manager, the default database | create what is missing, overwrite with `--force` | CLI; the server reads the file, the service manager the unit | what another command, or a killed one, has left; two commands that write one file at once |
| Process start, `main.rs`, `server.rs`, `cli.rs`, `config.rs` | none | load settings, connect, take the port, serve, stop | all of the above | must come up over what the commands leave |
| Notes service and HTTP, `services/notes.rs`, `handlers`, `routes`, `dto`, `error.rs` | none | validation, delegation, encoding | repositories | pagination by cursor |
| CORS rules, logging, version, OpenAPI | log files | parsing, formatting | process start | pure |

`vendor/zembra-schema` is a submodule whose content is not in the repository:
the tables and their foreign keys are known from the SQL in the code, its tests
and the documents only.  Where the two sides' foreign keys matter (a note's
field, a relation's note and tag) the model takes them as enforced, and the
deletion of a field in use as refused, as `docs/design-docs/r036-field-delete-api.md`
and `r037-sync-entity-lifecycle.md` describe it.

## 2. Modules

| Module | Models | Composed of |
| --- | --- | --- |
| `SyncDiff` | `sync/diff.rs`, the rows and facts of `sync/table_snapshot.rs` | |
| `SyncDiffRounds` | the comparison and its undisturbed execution, over all small pairs of snapshots | extends `SyncDiff` |
| `SyncService` | `services/sync.rs` with the repositories, the client and the worker around it, for any number of devices and tasks | extends `SyncDiff`, instantiates `FactLog` |
| `FactLog` | the abstract promise of `sync_changes` | |
| `NotesRepo` | `repositories/notes`, `repositories/taxonomy.rs` and what `services/notes.rs` does with them: overlapping requests on one database | |
| `SyncControl` | `services/sync_config.rs`, `sync/worker.rs`, the settings and the gate of `services/sync.rs`, `sync/schema_contract.rs`, `sync/schema_migration.rs` | the rows of a cycle are `SyncService` |
| `Startup` | `repositories/database.rs`, `init.rs`, `config_init.rs`, `service_init.rs`, `server.rs` | its `ServedIsCurrent` is the local half of the gate in `SyncControl` |
| `MCSyncDiffRounds`, `MCOneDevice`, `MCTwoDevices`, `MCNotesRepo`, `MCSyncControl`, `MCStartup` | instances for TLC | extend the above |
| `SyncDiffProofs`, `SyncDiffRoundsProofs`, `SyncServiceProofs`, `NotesRepoProofs`, `NotesTablesProofs`, `NotesPagesProofs`, `SyncControlProofs`, `StartupProofs` | theorems | extend the above; `NotesTablesProofs` and `NotesPagesProofs` build on `NotesRepoProofs` in this order |

### SyncDiff

All nine tables are compared by one set of definitions.  A row is an *entity*,
its primary key; `TableOf` gives its table and so its `Lifecycle`
(`EntityLifecycle` in the code).  A row keeps `ver`, `at`, `field` and `state`:
the content with the revision it points at, the timestamps, `field_id`, and
whether the note is visible, archived or deleted.  A fact is a `sync_changes`
row: its id, its entity, its second, and whether it is a tombstone (`delete`,
`detach`, `remove`, `unlink`).  `Latest` orders by second, then by id, as
`latest_changes` does; `Newer` compares seconds only, as `newer_target` does.
The plan of `diff_snapshots` is six sets: `UpsertLocal`, `UpsertRemote`,
`DeleteLocal`, `DeleteRemote`, `FactsLocal`, `FactsRemote`; and two sets of
conflicts.  Sets lose the order of the action list and nothing else: the code
executes the list by kind and table, which `SyncService` does explicitly.

### SyncService

State: `db[d]`, the SQLite database of device `d`; `remote`; and for each task
that can run a cycle its program counter, entry point, position in the tables,
and the two snapshots it holds.  `now` is the second of the latest edit: the
devices' clocks are taken to agree.

| Action | Code |
| --- | --- |
| `WriteNote` | `create_note`, `update_note` with field and tags; the revision row is part of `ver` |
| `HideNote` | `archive_note`, `delete_note` |
| `AddTag`, `RemoveTag` | `add_tag_to_note`, `remove_tag_from_note` |
| `DeleteField` | `delete_unused_field` |
| `Start` | the worker's loop, or a request to `/sync/run`, `/push`, `/pull` |
| `ReadLocal`, `ReadRemote` | one query, one request; also for the reads of the verification |
| `Decide` | `diff_snapshots`, `ensure_no_conflicts` |
| `WriteLocal` | `write_local_table_snapshot`: rows and facts, one transaction |
| `WriteRemote` | `upsert_table_snapshot`: one request per table, facts last |
| `DeleteLocalRows` | `delete_local_actions`: one transaction |
| `DeleteRemoteRow`, `DeletedRemote` | `delete_remote_actions`: one request per row |
| `Judge` | `verify_converged`, `verify_direction_converged` |
| `Abort` | a crash, a failed request, a lost answer, a client that goes away |

`NextPhase` gives the order of the write steps of each entry point.  A request
that is carried out but whose answer is lost is `WriteRemote` followed by
`Abort`; one that fails is `Abort` alone.  Restarting needs no action: a task
keeps nothing across cycles, so a crash is an `Abort` of the tasks it hits.

Two constants restrict the environment of a run: `EditDuringCycle` lets edits
fall into running cycles, `OverlapCycles` lets cycles overlap.  They are TRUE
wherever the property is about interleaving, and FALSE where the property is
known not to survive it (see the observations below).

### FactLog

Three actions: a device records new facts under fresh ids, a device pulls facts
that the shared database has, a device pushes facts it has.  Facts are never
changed, never dropped, never invented on the way.  `ImplementsFactLog` maps
`recorded` to the logs of the devices and `shared` to the remote log.

### NotesRepo

State: `db`, the tables of one workspace with their change facts, the number of
transactions committed and the second of the latest one; `req[t]`, what the
request `t` has found and is about to do; `walk[r]`, how far the client `r` has
come through the recent notes.  All rows that `SyncService` folds into a note's
version are rows here: notes, revisions, fields, tags with their parents,
relations and links, and the row that each note's fact carries as its payload.

A request on an existing note is two steps, because it is two uses of the
connection pool: `Lookup` is `get_note_by_ref`, `Transact` the transaction that
follows.  The transaction works on the database as it is by then, and takes
from the look-up what the code takes from it: the note's id and, in an update,
the base of the new revision.  A transaction is built like the code, from one
operator per `..._in_transaction` function, each from tables to tables:

| Operator | Code |
| --- | --- |
| `WithField`, `WithTags` | `get_or_create_field_in_transaction`, `get_or_create_tag_in_transaction` |
| `Attached`, `Detached`, `TagsReplaced` | `attach_tag_to_note_in_transaction`, `detach_...`, `replace_note_tags_in_transaction` |
| `Linked`, `LinksReplaced`, `LinksValid` | `insert_note_links_in_transaction`, `replace_...`, their errors |
| `Revised`, `UpdatedRow`, `BaseOf` | `insert_note_revision_in_transaction`, `update_note_row_in_transaction`, the base in the fact |
| `Created`, `Updated`, `Archived`, `Deleted`, `WithoutField` | the transactions of `create_note`, `update_note`, `archive_note`, `delete_note`, `delete_unused_field` |
| `NewField`, `Keep` | an absent member of an update keeps, a null field means the inbox |

| Action | Code |
| --- | --- |
| `Create`, `CreateBatch`, `DeleteField` | requests that are one transaction |
| `Lookup`, `Transact`, `RollBack` | the look-up, the transaction, and its failure: a link that does not resolve, a database that stays busy, a client that is gone |
| `FirstPage` | `list_recent_notes` without a cursor |
| `FindCursor`, `NextPage` | `get_visible_note_by_id` for the cursor, then the page; two queries |
| `Turn`, `Leave` | the client (external): it sends the last note of a full page as the next cursor |

### SyncControl

State: `file`, the configuration file as the settings in its section `[sync]`
and whether its other sections are there; `mem`, the settings behind the
`RwLock` of the running service; for each save how far it is and the document
it is about to write; for each cycle where it is and its own copy of the
settings; for each remote project its schema, and whether rows of it have been
touched.  A key opens one project and a password belongs to one.  Two history
variables say when file and service have to agree: `mixed` are the saves under
way that have met another one, and `clean` is FALSE from a failed write or a
meeting of saves until the server is started again or a save comes through
without meeting another.  No guard looks at them.

| Action | Code |
| --- | --- |
| `Read` | `SyncConfigService::save` up to the write: `read_document`, the merge with what is in the file, `validate` |
| `Truncate`, `Write`, `FailWrite` | `std::fs::write`, which opens with truncation and then writes |
| `Swap` | `update_settings` and the answer |
| `Wake` | the worker's look at `enabled`; when sync is disabled the loop does nothing but sleep |
| `Begin` | `settings()` and `ensure_enabled` at the head of `run_once`, `push` and `pull` |
| `Gate`, `Migrate`, `Regate` | `ensure_schema_contract_ready`: the versions, the script, the versions again |
| `SyncRows` | the rest of a cycle |
| `FailCall` | a call that fails, before or after it has been carried out |
| `Crash`, `Restart` | a kill, and `Settings::load` |

### Startup

State: `config`, what `~/.zembra.env` names as database, or that it is missing,
blank or does not parse; `unit`, the unit of the service manager; `db`, for each of the three database files which parts of the schema
it has, the registered versions, its workspaces and the workspace of its notes;
and for each process its command, where it is, its database, the version it is
looking at and the workspace name it has read.

| Action | Code |
| --- | --- |
| `Start` | `parse_cli_args`, `main` |
| `Look`, `LookConfig`, `LookAgain` | the three `exists` of `init_global`, one by one |
| `ReadName`, `RefuseName` | `read_valid_workspace_name` |
| `Load` | `Settings::load`: fails without `config/default.toml` in the working directory, and over a file that does not parse |
| `Open` | `Database::connect`, `create_if_missing` |
| `LookForMeta`, `LookForNotes` | the two `table_exists` at the head of `migrate` |
| `CreateMeta`, `BootRecord`, `BootLook` | `bootstrap_schema_migrations` |
| `CheckVersion`, `Record`, `RunScript`, `FailScript` | the rest of `migrate`, version by version |
| `LegacyCheck`, `LookForFixed`, `Renumber` | `migrate_legacy_fixed_workspace` |
| `AssignName` | `assign_initial_workspace_name` |
| `LookForConfig`, `Truncate`, `Fill` | `init_user_config_with_options`, `write_file_if_allowed`: `fs::write` truncates and then writes from the beginning, so that the shorter text of `init service` keeps the tail of a longer one (`Filled`) |
| `LookForUnit`, `TruncateUnit`, `FillUnit` | `write_file_if_allowed` again, for the unit |
| `Bind`, `Stop` | the listener of `server::run`, its shutdown |
| `MakeNote` | a client's first note |
| `Kill` | the process is killed; the next `Start` is its restart |

`Packaged` says which ways of starting the server find `config/default.toml`: a
user who starts it in the unpacked release does; the unit starts it in the data
directory, where nothing puts the file.

The migration scripts are in a submodule.  `Adds`, `Scripted` and `Sound` say
what `database.rs` relies on and no more: script *k* adds the tables and columns
that `table_exists` and `column_exists` ask for, registers version *k*, and
fails where they are there.

## 3. What TLC checks

| Run | Question | Instance | Answer |
| --- | --- | --- | --- |
| `diff_rounds` | is the plan consistent, complete after one round, empty exactly on agreement, and does it follow the matrix of r037? | one row of each table in turn, 2 versions (5 for a note), every subset of 4 facts on either side, 2 seconds, with and without the field's tombstone; 44 thousand states | yes; for rows in the state `Inconsistent` the matrix is not followed, see below |
| `one_device` | what are `ok` and agreement worth on a fresh installation, and do the sides become equal for good? | workspace, field, tag, note, relation; empty remote; all three entry points; 5 facts, 1 interruption; fair | a run that answers ok leaves equal sides, and both sides settle |
| `two_devices` | do two devices converge, and does no note go back? | tag, note and relation, 3 edits after the seed, cycles take turns | yes |
| `interrupted` | do they converge to the last write, and is it on some device at every moment, even if cycles are cut short anywhere? | one note, 3 edits, 2 interruptions; cycles take turns | yes |
| `interleaved` | do the facts stay an append-only log, do tombstones precede removals, and have acknowledged facts arrived, when everything interleaves? | note and relation that have drifted apart; one device pushes, the other runs; edits and cycles step by step, equal seconds, 1 further edit | yes |
| `shared_field` | can overlapping cycles and edits leave a dangling reference or take a field from a visible note? | note and field, one device pushes and the other runs, 2 edits | no |
| `requests` | whatever overlaps, do tables, revisions and facts agree after every transaction, and does no hidden note come back? | two notes whose ids share a prefix, one field, a tag and its parent; two requests on existing notes at a time, 3 transactions, the first of which can make both notes, in one second or in several; 0.4 million states | yes |
| `recent_pages` | is a client that pages to the end shown every note that was left alone, and none twice? | three notes of two roles, pages of one, one request and one reader, 3 transactions, in one second or in several; 0.8 million states | yes, even if the note its cursor names is rewritten |
| `startup` | is the schema that is served whole, are names and workspaces kept, and does a server that is started again and again come to serve, whatever has run beside it or been killed? | two processes, `init` on either, `init service --force`, the server, and the server as its unit starts it; no database, or one of version 2 with notes and without `schema_migrations`; one kill; fair; 1.8 million states | yes; the server does not come up for good where two commands have written the configuration at once and left what does not parse |
| `sync_control` | do file and service agree, does a cycle use what was saved, is a project without the schema left alone, does the worker survive? | two saves that may overlap, four bodies, two projects in three states, the worker and one cycle by hand; one kill, one failing write or call; 1.0 million states | yes; a failed write and saves that meet part file and service, and nothing else does |

The definitions behind each answer:

| run | properties |
|---|---|
| `diff_rounds` | `TypeOK`, `OneRoundSettles`, `EmptyDiffMeansAgreement`, `PlanIsConsistent`, `FollowsMatrix` |
| `one_device` | `TypeOK`, `VerifiedAgreement`, `Settles` |
| `interrupted` | `LatestWriteWins`, `LastWriteIsKept`, `Settles` |
| `two_devices` | `NotesNeverGoBack`, `Settles` |
| `interleaved` | `KnownFactsAreStored`, `DeletionHasTombstone`, `AcknowledgedFacts`, `ImplementsFactLog` |
| `shared_field` | `NoDanglingReference`, `VisibleNotesKeepField` |
| `requests` | `TypeOK`, `CurrentRevision`, `RevisionTree`, `FactsTellRows`, `FactCarriesRow`, `References`, `NotesStayHidden`, `NewLinksTargetVisible` |
| `recent_pages` | `PagesAreComplete`, `PagesDoNotRepeat` |
| `startup` | `TypeOK`, `VersionsTellStructure`, `ServedIsCurrent`, `InitLeavesName`, `WorkspacesStay`, `ServerComesUp` |
| `sync_control` | `TypeOK`, `FileIsInForce`, `RowsMeetContract`, `CyclesUseSavedSettings`, `WorkerKeepsSyncing` |
| `reattached` (violated) | `RelationFollowsLatestFact` |
| `torn_settings` (violated) | `OtherSectionsKept` |

Bounds.  The comparison looks at one entity, its latest facts on both sides and
(for a note) the tombstone of one field, so one entity at a time with two facts
of each kind in two seconds meets every combination it tells apart.  In the
service a wrong outcome needs a write that is newer than another one, a removal
and a row that depends on it: two devices, one note with one relation or one
field, and two to three edits after the seed give all of these, with the cycles
before, between and after them.  `MaxFacts` bounds the edits, `MaxAborts` the
interruptions; nothing else is bounded.  The instances with two devices have
no workspace rows, and each leaves out the tables its question is not about.
In the repository a wrong outcome of two requests needs a note, a request that
has found it, and another one that commits first: three transactions, since a
batch makes two notes in one.  A wrong page needs three notes, so that one can
lie before, at and behind the cursor.  `MaxTx` is why these two runs may stop (`CHECK_DEADLOCK FALSE`): a
service that has committed that often takes no further request.  An
installation needs two processes to go wrong, one of which looks before and
acts after the other; `Uuid` has more members than a behaviour draws, and
`MaxCrashes` bounds the kills.  A wrong cycle needs a save between two of its
steps, and one before it to be wrong about: two saves.  `sync_control` may stop
where a user has disabled sync, or a file does not parse and the server stays
down.

Fairness.  `FairSpec` has weak fairness of every task's steps, since a started
cycle is a future that tokio polls until it returns or is dropped (`Abort`),
and strong fairness of the worker's `Start`, since `spawn_background_sync`
loops forever with a sleep in between.  Strong rather than weak, because where
cycles are kept apart `Start` is disabled while the other device's cycle runs;
the runs that keep cycles apart restrict the environment and do not claim that
the code would.  No fairness is assumed of edits, aborts or requests.  In
`SyncControl` the steps of saves and cycles are weakly fair for the same reason,
the worker's `Wake` and `Begin` because its loop never ends, and `Restart`
because the service manager restarts the server (`Restart=on-failure` in
`render_systemd_user_unit`); saves and cycles by hand need not happen, and a
call need not succeed, but `MaxFaults` bounds how often it fails.  That a call
returns at all is an assumption about the transport: `reqwest::Client::new()`
(`sync/supabase.rs:54`) sets no timeout, so a remote that neither answers nor
closes the connection would hold the worker for good.  In `Startup`
a process runs on (weak fairness of `Work`), and the server is started again
and again (strong, since a process that runs another command cannot be started
as the server); no other command has to be given and a server may be stopped.

The `violation` runs record where a document or comment says more than the
code does:

| Run | Said | Shown |
| --- | --- | --- |
| `reattached` | `docs/design-docs/r037-sync-entity-lifecycle.md:66`: a detach tombstone wins over the *old* relation row | the tombstone also wins over the row of a later attach: a tag that is attached, removed and attached again, with cycles in between, disappears |
| `torn_settings` | `docs/design-docs/r010-supabase-sync-config-api.md:115,119`: the sections other than `[sync]` are kept, and the file is written atomically | a save truncates the file and then writes it; another one reads it in between, finds no sections and writes it back with `[sync]` alone |

Further observations made while modelling, without a run of their own:

* A row that is present although its own latest fact is a tombstone is compared
  like any other row: `compare_rows` looks at tombstones only where a row is
  missing.  r037:101 calls it a conflict.
* Whether a field is in use is first asked by `delete_field_in_transaction`,
  after the upserts of both sides have been written; r037:126 says that a field
  used by a visible note is a conflict.
* `repositories/sync/snapshot.rs:13` promises "a stable snapshot of the nine
  synchronized tables".  The nine queries are not one transaction: an edit
  between the notes and the facts is half in the snapshot.
* An edit made after a cycle has read its snapshots is overwritten by the older
  remote version that the plan brings: the upserts are `ON CONFLICT DO UPDATE`
  without a condition, although r028:43 says that the newer change overwrites
  the older state.  TLC shows it as a violation of `LastWriteIsKept` in the
  instance of `interrupted` with `EditDuringCycle` TRUE; the runs about
  convergence have it FALSE.
* A push that was planned before another device's push puts its older row over
  the newer one, while the facts of both are stored.  The latest write is still
  with its device (`LastWritesAreKept`), but this device then finds another row under
  the same latest fact, which is a conflict in every later cycle until the note
  is edited again.  This is why the runs about convergence keep cycles apart.
* An update that found its note before another request archived or deleted it
  inserts the note's links nevertheless: the target of a link is looked up
  inside the transaction, its source is not.  r019:23,49 forbid a hidden source.
* Two spellings of one path in one list of tags (`a/b`, `a//b`) make
  `replace_note_tags_in_transaction` record two attach facts for one row.
* `update_note` takes the base of a revision from its look-up, so revisions of
  overlapping updates form a tree and not a chain.
* The metadata of an answer is read after the commit by queries of its own.
* `sync_tables` sends facts with the upserts and deletes afterwards, so a side
  stores a tombstone before the row it stands for goes.
* An interrupted push lets the *other* device pull a newer row with older
  facts.  With two devices `NotesNeverGoBack` can then fail for a while, and a
  tag re-attached around one interruption can end in a conflict that no later
  cycle resolves; hence `two_devices` has no interruptions and `interrupted`
  no relation.
* A remote note that uses a field deleted locally makes every later cycle fail
  on the foreign key.
* Two edits of one row in the same second, on two devices or around a cycle of
  one, are a conflict that blocks all tables until the row is edited again;
  hence `SameSecond` is FALSE in the runs that check convergence.
* A detach that is interrupted between rows and facts, with the tag attached
  again elsewhere, can leave two relation rows with different times and equal
  facts: every later cycle of that device answers with a conflict, although
  r037:180 says that a detach converges.
* When saves overlap, file and service may end with different
  settings, since the swaps need not come in the order of the writes; and a
  shorter text written over a longer one leaves its tail, a file that later
  saves and the next start refuse.
* A save whose write fails, or that is killed after the truncation, leaves a
  blank file or a part of one, although r010:119 promises an atomic write.  After
  a failed write the service runs on with its old settings, and the next start
  drops them; `FileIsInForce` says nothing of that state (`clean`).
* `init` and `init service` at once, or `init service --force` beside any of
  them, may both truncate `~/.zembra.env` before either writes it.  What is left
  then does not parse, and no server loads it until it is written anew: this is
  the premise of `ServerComesUp`, and TLC finds the state as a violation of
  `ConfigIsWhole`.
* The unit's working directory is the data directory (`service_init.rs:280`),
  and `Settings::load` requires `config/default` there (`config.rs:135`): in the
  model no start of the unit gets past `Load`, although r030:120 expects the
  service to be running after `init service --start`.
* A cycle under way goes on with the settings it began with after a save, which
  r010 allows.  `PUT /sync/config` cannot change the database password, so
  after a move to another project the remote migration fails until the user
  edits the file.
* When a push fails, `record_error` writes under the fixed workspace id, which
  `connect` has renumbered in a database on disk: the foreign key refuses the
  row and its error replaces the one of the push.
* Of two processes that open one new database, the second may find no
  `schema_migrations` and then, after the first script of the other one, the
  table `notes`: it bootstraps.  It can so insert the fixed workspace after the
  other one has renumbered it, which leaves two workspaces; `init` may give its
  name to the fixed one, and the next start renumbers that one although it is
  named.  (This is why `WorkspacesStay` exempts the fixed workspace as long as
  it has no notes.)
* A process that loses the race for a script ends with an error, and so does
  one that renumbers when a first note has been made; a second start succeeds.
* A kill between `connect` and `assign_initial_workspace_name` leaves a
  workspace without a name for good: the next `init` finds the database and
  does not ask.  r034 asks for the name when the database is new only.
* `init` after `config init` or `init service` keeps the existing
  configuration, so the database it has named need not be the one that is
  served; a blank configuration left by a kill counts as existing, and the
  server then opens the path of `config/default.toml`.  Two commands that both
  find no configuration may overwrite each other without `--force`.
* A kill while the unit is written leaves a blank one, which later commands
  without `--force` keep.
* An older database with notes is never renumbered, and a fixed workspace that
  synchronization brings is renumbered at the next start as long as there are
  no notes.
* A server starts its worker before it finds its port taken.

Every property is broken by at least one mutant, a plausible wrong version of
one definition of the model; these stand before the right version, marked
`Variant`, and no specification uses them.

## 4. What is proved

For all values of the constants that satisfy the named assumptions: any number
of devices, tasks, processes, readers and rows, every interleaving, every abort
and kill.  Most assumptions are types.  Those that say more:

* `SeedAssumption` and `SeedRowsAssumption` of `SyncService`: the databases a
  behaviour starts from are such as a running system leaves.  Their facts have
  unique ids and lie within the bound, the remote database holds no fact that no
  device has, foreign keys hold, only notes have a field, a note's version is
  that of a recorded fact about it, and rows of one version of a note agree on
  whether it is visible and, if it is, on its field.  Empty databases satisfy
  all of it.
* `SeedNotesAssumption` of `SyncService`, which only speaks where no edit falls
  into a cycle or into the second of another one: some device has each note as
  the latest fact about it says.  `LastWritesAreKept` shows this to be kept, so it is
  what such a system leaves.
* `ParentsAssumption`: only relation rows have foreign keys to notes and tags,
  and a row of `note_tags` has one to one note.
* `SeedAssumption` of `Startup`: an older database has the parts of the versions
  it has registered, and a workspace if it has their table.
* `FieldAssumption` and `DependentAssumption` of `SyncDiffRounds`: the field is
  a row of `fields`, and what uses a workspace is no workspace.
* `ConfigAssumption` of `Startup`: a blank and an unparsable configuration are
  neither absent nor one that names a database.
* `NoneAssumption` of `NotesRepo`: the values that stand for "none" and "keep"
  are no names, notes, roles, revisions or sets.

| Theorem | Module | States |
| --- | --- | --- |
| `TypeCorrect` | `SyncServiceProofs` | `Spec => []TypeOK` |
| `KnownFactsStored` | `SyncServiceProofs` | `Spec => []KnownFactsAreStored` |
| `FactsKeepTheirIdentity` | `SyncServiceProofs` | `Spec => []FactIdentity` |
| `AcknowledgedFactsArrive` | `SyncServiceProofs` | `Spec => AcknowledgedFacts` |
| `SyncImplementsFactLog` | `SyncServiceProofs` | `Spec => ImplementsFactLog` |
| `DeletionsHaveTombstones` | `SyncServiceProofs` | `Spec => DeletionHasTombstone` |
| `ReferencesNeverDangle` | `SyncServiceProofs` | `Spec => []NoDanglingReference` |
| `VisibleFieldsAreKept` | `SyncServiceProofs` | `Spec => VisibleNotesKeepField` |
| `VerifiedRunsAgree` | `SyncServiceProofs` | `~EditDuringCycle` and `~OverlapCycles` imply `Spec => VerifiedAgreement` |
| `LastWritesWin` | `SyncServiceProofs` | `~EditDuringCycle` and `~SameSecond` imply `Spec => []LatestWriteWins` |
| `LastWritesAreKept` | `SyncServiceProofs` | `~EditDuringCycle` and `~SameSecond` imply `Spec => []LastWriteIsKept` |
| `EmptyDiffIsAgreement`, `AgreementIsEmptyDiff` | `SyncDiffProofs` | an empty comparison is agreement, and conversely |
| `TypeCorrect`, `RoundsSettle` | `SyncDiffRoundsProofs` | `Spec => []TypeOK`, `[]OneRoundSettles` |
| `EmptyMeansAgreed`, `PlansAreConsistent`, `MatrixIsFollowed` | `SyncDiffRoundsProofs` | `Spec => []EmptyDiffMeansAgreement`, `[]PlanIsConsistent`, `[]FollowsMatrix` |
| `CurrentRevisions` | `NotesRepoProofs` | `Spec => []CurrentRevision` |
| `HiddenNotesStayHidden` | `NotesRepoProofs` | `Spec => NotesStayHidden` |
| `RowsReferToRows`, `RevisionsFormTrees` | `NotesTablesProofs` | `Spec => []References`, `[]RevisionTree` |
| `FactsTell`, `LastFactCarriesRow` | `NotesTablesProofs` | `Spec => []FactsTellRows`, `[]FactCarriesRow` |
| `LinksLeadToVisibleNotes` | `NotesTablesProofs` | `Spec => NewLinksTargetVisible` |
| `TypeCorrect` | `NotesPagesProofs` | `Spec => []TypeOK` |
| `ListsAreComplete`, `ListsDoNotRepeat` | `NotesPagesProofs` | `Spec => []PagesAreComplete`, `[]PagesDoNotRepeat` |
| `TypeCorrect`, `RegisteredIsThere`, `WholeSchemaIsServed` | `StartupProofs` | `Spec => []TypeOK`, `[]VersionsTellStructure`, `[]ServedIsCurrent` |
| `WorkspacesAreKept`, `NamesAreLeft` | `StartupProofs` | `Spec => WorkspacesStay`, `[]InitLeavesName` |
| `LoneWritersLeaveItWhole` | `StartupProofs` | `Spec /\ []OneWriter => []ConfigIsWhole` |
| `TypeCorrect`, `ContractIsMet` | `SyncControlProofs` | `Spec => []TypeOK`, `[]RowsMeetContract` |
| `SavedIsInForce`, `CyclesUseWhatWasSaved` | `SyncControlProofs` | `Spec => []FileIsInForce`, `Spec => CyclesUseSavedSettings` |

The argument for the log.  None of the properties is inductive alone.
`FactsInv` adds to the types that a task's phase is one its entry point goes
through (`PhaseOfKind`, or a step of the map `NextPhase` would leave its
domain), that a fact a task holds is still in the log it was read from
(`KnownFactsAreStored`), that ids are unique among recorded facts, and that the
recorded facts are bounded.  The last one is needed for types: `Latest` is a
CHOOSE over the facts of an entity, and it is a fact only if a latest one
exists, which follows from the bound on seconds and ids (`LatestIsGreatest`,
from the well-foundedness of the natural numbers).  With it, what a cycle
copies is a set of facts of the log it read (`CopiedFacts`), and each step is a
step of `FactLog` or a stutter.

The argument for deletions.  A removal happens in `DeleteLocalRows`,
`DeleteRemoteRow` or an edit.  An edit writes the tombstone in the same
transaction.  For the others `DeletionInv` says that once a task has passed the
write step of a side, the facts its plan copies to that side are in that side's
log, and that what it has yet to delete is part of its plan.  The plan's
snapshots do not change while it is carried out and logs only grow, so the
tombstone behind each deletion is stored when the deletion runs.

The argument for `AcknowledgedFacts`: `ok` means that the snapshots the
verification read have no missing facts; they are part of the logs they were
read from, and these are still there.  Of the theorems about `SyncService`, only
the last three of the table, `VerifiedRunsAgree`, `LastWritesWin` and
`LastWritesAreKept`, make an assumption about overlapping cycles or edits; each
property fails in TLC without it.

The argument for references.  A database is written from a snapshot that may be
torn, stale or of another device, so what is inductive speaks of all places at
once: the devices, the remote database and the snapshots that tasks hold.
`RowsInv` says that every row in any of them is one that could have been made
(only notes have a field, and a note's version is that of a recorded fact), and
that rows of one version of a note agree.  A step takes rows from place to
place, clears the field of hidden notes, or writes one row under a fresh
version (`Passed`, `Records`), so a visible note cannot come back with another
field under the same version.  `NoDanglingReference` itself is kept by the
foreign keys: a write that would break them is refused and the cycle aborts.
That a deletion cascades to all that refers to the row is where the proof needs
the shape of `Parents` and the lifecycles.

The argument for verified agreement.  With one cycle at a time and no edits in
it, the tables that the verification has read equal the ones in the database
(`VerifyInv`, table by table), so at the verdict the two snapshots are the two
databases, and `EmptyDiffIsAgreement` says that they agree.  With
`EditDuringCycle` or `OverlapCycles` the property fails, as it must.

The argument for the last write.  `LatestWriteWins` speaks of settled databases
and says nothing of how they got there; the invariant follows one device.
`WritesInv` says that for each note some device has the version of the latest
fact and the fact itself (`Keeps`), and so has every local snapshot that one of
its cycles has read that far (`Knows`).  No comparison replaces a version whose
side knows the latest fact (`LatestNotReplaced`): the other side has no later
fact to show, whatever its rows are, and the deletion of a field leaves the
version alone.  Cycles record no facts (`CyclesRecordNothing`), so the latest
fact moves with edits only, to the device that writes; since its second is a new
one it is the latest of all (`Timely`), and since no cycle is under way no
snapshot has to know it yet.  `LastWriteIsKept` is what `Keeps` says of the
databases, and once all of them agree, they agree with that device.  Cycles may overlap, stop anywhere and be refused by foreign keys.

The argument for the rounds. `SyncDiffRounds` starts from finitely many pairs of
snapshots; the lemmas are about all pairs that the foreign keys allow and whose
facts have different ids. `Newer` is asymmetric, hence a plan does not write a
row both ways (`PlanParts`), and the cells of the matrix exclude each other
(`Matrix`). The cascade of a deleted field clears no note that the round keeps
(`NothingIsCleared`), so after the round each row is what the plan says
(`SettledRows`) and each log is the union of both (`SettledLogs`), and the
comparison of the results is empty (`RoundSettles`). The invariant `RoundsInv`
only carries the types, the foreign keys and the bound on facts from the initial
states, and the empty comparison after a round.

The argument for the notes.  The lemmas follow the chain of a transaction:
fields, tags, relations, links and facts leave notes and revisions alone
(`SameNotes`), and only the writing of a revision with its row does not
(`Writes`).  `CurrentRevision` is not inductive: that a new revision is the
last one needs to know that no stored one is younger than the clock or of a
later transaction, and a note that is new in a batch has no revision because
every revision belongs to a note that is there.  `IInv` adds these, the shape
of the rows, and that a waiting request has a note that exists; it is what
`Advances` carries from one link of the chain to the next.  `Hides`, the other
half of `Advances`, gives `NotesStayHidden`.  Time may pass at any rate, and
nothing is assumed of ids, references, tags or inputs but their types.

The argument for the other tables. `TablesInv` adds to `IInv` one part per table
with the facts of its type: fields, tags, relations, links, revisions, notes.
Each link of the chain that makes a transaction changes one or two of them, so
there is one lemma per link, and the parts it leaves alone are carried by what
does not change. The last fact about a note is the only part that does not hold
between the links: the note is written first and its fact last; `NotesTold`
holds again at the commit. `RevisionTree` follows because a base is a revision
of the same note of an earlier transaction, even where it was looked up before
others committed.

The argument for the pages. `ReaderOK` says that every visible note which has
not been written since the reader began has been shown or comes after the
reader's cursor (`LeftOK`), and that as long as nothing it was shown has been
written, all of that comes before the cursor and no note was shown twice
(`SeenOK`). A note that is written moves to the front and nowhere else, because
the clock does not run backwards (`Ages`); the row of the cursor is kept as it
was read, so its place in the order stays even if the note moves. A page is cut
at a number of notes, which needs that the list is finite and that the order is
total on it (`Ordered`). Cardinalities are compared with the library's theorems
on finite sets.

The argument for the schema.  A process knows of its database what it has seen
of it, and parts and versions are only added, so its knowledge stays true
whatever others do.  `IInv` says what is known at each label (`Knows`): the
versions below the one looked at are registered, the parts of a version about
to be registered are there, and from the end of `migrate` on all of them are.
Each step preserves this for its process (`Good`), and for the others because
databases grow (`Grows`).  The number of processes, kills and databases does not
matter.

The argument for the workspaces.  `WorkspacesStay` is a fact about the operators
on databases: each of them keeps what has notes, what was drawn and what is
named, but for the fixed workspace without notes.  `InitLeavesName` needs
`NamesInv`: a database with the workspace table has a workspace, and a process
that is past the naming has one with a name in its database.  It is kept by the
steps of others because names are not lost.

The argument for the configuration.  Only `Truncate` and `Fill` write it.  Where
one command at a time is about to fill the file, it finds it as truncated
(`WriterInv`), so what it leaves is a path; a kill leaves it blank.

The argument for the settings.  `RowsMeetContract` needs that a cycle past the
gate has a copy of the settings whose project has the schema, and that a schema
that is there stays.  `FileIsInForce` is not inductive: a save that has written
and not yet swapped leaves file and service apart.  `FInv` says that saves which
have met no other one are alone (`Apart`), that such a save finds in the file
what it has made of it (`Undisturbed`), and that the two agree wherever `clean`
says so and no save has truncated the file.  That a save after a failed write
makes them agree again is part of it.  Nothing is assumed of how saves overlap.

Model-checked only.  Liveness under fairness is out of the prover's reach:
`Settles`, `ServerComesUp` and `WorkerKeepsSyncing`.  `NotesNeverGoBack` is left
to TLC as well: it holds where edits and cycles are kept apart and nothing is
cut short, as in `two_devices`, and fails under any interleaving or interruption
(an interrupted push leaves a row that its facts do not tell, and the next
device may replace it by an older one); what holds beyond that is
`LastWriteIsKept`, which is proved.  Every other property that a passing run
checks is a theorem.  The
hypotheses of `LastWritesWin` and `LastWritesAreKept` are met by `interrupted`,
and TLC refutes both properties when `EditDuringCycle` or `SameSecond` is TRUE;
that cycles overlap, which `interrupted` leaves out because the conflicts that
follow break `Settles`, is in the theorems.  `FactIdentity`, and that a lone
writer leaves the configuration whole, are proved and not model-checked.

## 5. Abstractions

* In `SyncService` revisions are folded into the note: `ver` changes with every
  content write, and the fact of the revision into the fact of the note.  `note_links` behave
  as `note_tags` in the comparison and have no edits of their own.
* A name is an entity: `get_or_create_field` and `get_or_create_tag` of one
  name on two devices give one row.  In the code they give two ids, and a
  unique index would refuse the second one.
* The rows of default devices, which are written without a fact, are left out.
* A query is atomic, and so is the fetch of a table although it is paged.
* In `SyncService` settings do not change, sync is enabled and the schema
  contract is met; `SyncControl` is about that, with a cycle's rows as one step.
* `record_error` after a failed push is left out: it writes `sync_state` and
  possibly the default device, none of which is synchronized state.
* Clocks agree and do not run backwards.  Seconds may coincide where
  `SameSecond` is TRUE.

* In `SyncControl` the interval is left out, a text that was written in part is
  taken not to parse, and a remote project is changed by cycles only.  The local
  half of the schema gate is taken as met: `ServedIsCurrent` in `Startup` shows
  it of every server that serves.  The
  remote script runs as one implicit transaction of the server.
* In `Startup` a migration script is one step; that it is one transaction is
  not known here.  Directories, permissions and the log files are left out, and
  the home directory is writable.  A write of the configuration there succeeds
  or is killed before it; a write that fails halfway is in `SyncControl`, and
  `PUT /sync/config`, which writes the same file, is there only.  Paths have the
  lengths they usually have, so the text of `init service` is the shorter one,
  and what it leaves of a longer one repeats keys and does not parse.
* In `NotesRepo` a transaction is one step.  SQLite serializes writers, and a
  transaction that has read before another one committed cannot write afterwards
  (`SQLITE_BUSY_SNAPSHOT`): it fails, which is `RollBack`.  All statements of a
  transaction see one second.
* Ids are unique: a field's is its name and the transaction it was made in, a
  revision's its note and the transaction.  The text of a note is named by the
  revision that brought it.  One workspace, and no synchronization beside it;
  `SyncService` is about that.
* The tags of a request are a set of paths, its links a set of references;
  anchors and positions of links are left out.  A reference that fails
  validation changes nothing and is not an input.

## 6. Not modelled, and plan

Not modelled, because there is no state to model or no way to reach it:

* The incremental protocol (`repositories/sync/apply.rs`, `outbox.rs`,
  `state.rs`, `payload.rs`, and `upsert_sync_changes` and
  `fetch_remote_changes` of the client): nothing but tests calls it.
* Queries that change nothing (`repositories/workspaces.rs`, lists and counts,
  `GET /sync/config`, `POST /sync/config/test`, `GET /sync/status`), request
  decoding, response encoding, error mapping, OpenAPI, logging, the CORS rules.
* Offset pagination within a table of the remote database: a page holds a
  thousand rows.
* What rests on the vendored schema: unique names across devices, the rows of
  default devices.

Modelled in this order: `SyncDiff`, `SyncService` with `FactLog`,
`SyncDiffRounds`, `NotesRepo`, `Startup`, `SyncControl`.  Left:

1. Two backends that gate and migrate one remote project while cycles of both
   run, as a composition of `SyncControl` with `SyncService`.
2. What the relations of `two_devices` become when a push is interrupted: a
   condition on interruptions under which no conflict stays.
