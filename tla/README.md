# Verification of codex-session-sync

TLA+ models of codex-session-sync, the TLC runs that check them on small instances, and
TLAPS proofs of their central properties for every instance. `PROJECT.json` lists the
components, runs, mutants, findings, hazards and theorems, and maps every definition that
models code to the lines it models.

## The system

A desktop application (Tauri, Rust) keeps the conversations ("threads") of a Codex Home in
step with namespaces of a self-hosted server (axum, SQLite, content-addressed files).

| Component | State | Operations | Works with |
|---|---|---|---|
| Server revision history (`metadata.rs`) | namespaces with head and epoch; revisions active, trashed or purged; trash operations | create, commit, truncate, restore, purge, expiry | called by every handler; one transaction each |
| Server object storage and GC (`object_store.rs`, `api.rs`, `metadata.rs`) | object files, their rows and edges, the GC queue, the quarantine, `gc_gate` | upload, commit with graph validation, quarantine, permanent deletion, resume at start-up | shares files and tables between concurrent handlers |
| Sync client (`remote_sync.rs`, `remote.rs`) | a job, what the screen shows | push, staged push, pull, resolve, initial merge, switch, restore, remap | reads head and epoch over HTTP, works for minutes, commits with what it read |
| Thread merge and staging (`sync.rs`, `staging.rs`) | none | three-way merge, conflict fingerprints, resolution, change plan, partial composition | used by the sync client |
| Tracking store (`sync.rs`) | per home and namespace: integrated head, epoch, generation; the active namespace | `reconcile_checkout`, `update_remote_epoch` | written by pushes and checkouts |
| Local checkout (`checkout.rs`, parts of `local.rs`) | the Home's directories, state file and databases; staged, backup and failed copies; the journal | checkout, rollback, recovery | called by every operation that changes the Home |
| Local repository (`storage_v4.rs`, `storage_v3.rs`, `local.rs`, `treasure.rs`) | objects, snapshots, pins, the source index, trash, purge journal, quarantine, treasures | snapshot, download, pin, trash, restore, plan and run GC, purge, export, import | used by every job, under a lease |
| Jobs and leases (`jobs.rs`, `operation.rs`) | leases on homes and repositories, job states | acquire, cancel, finish | one job per home inside one process; shared or exclusive on a repository |
| In-place operations on a Home (`local.rs`, `provider_sync.rs`, `codex.rs`, `lib.rs`) | rollouts, thread rows, the import and provider journals, backups, `.old` files, the quarantine | import, its recovery, provider synchronization, archive, delete, quarantine, backup deletion | write the Home the scan reads |
| Workspaces (`workspace.rs`, `workspace_mapping.rs`) | mapping rules, Codex's global state, directories, the cleanup journal and quarantine | create and delete rules, map paths both ways, cleanup, recovery, sidebar repair | pull and push map paths with it |
| Namespace mapping, wire types, auth, configuration, profiles, process detection, UI | | | not modelled: input, formats, I/O or rendering |

What is hard here, and what each part must guarantee:

* **History.** Clients act on an old (head, epoch). Truncations nest and can be restored or
  purged in any order. The active revisions must stay the chain of the head, every trash
  operation one segment that can be put back, and an unchanged (head, epoch) must mean that
  nothing happened in between.
* **Objects and GC.** A collector runs between an upload and the commit that needs the
  object; effects fail, processes die, machines lose power, clients disconnect. Nothing a
  restorable revision links to may lose its file, and the queue must be worked off.
* **Checkout.** Renames, SQLite transactions and journal writes are separate; an error or a
  crash falls between any two, also during rollback and during recovery. The old Home must
  never be lost and the journal never lie.
* **Synchronisation.** Two users edit while heads move, answers get lost, history is
  rewritten, and conflicts are resolved from a stale screen. No edit may disappear that
  nobody chose to give up, and users who keep synchronising must end with equal homes.
* **Local repository.** Jobs read and write one object store at the same time; a collector
  and a purge delete from it; Codex edits what a snapshot reads; plans are confirmed late.
  A snapshot that can be opened or put back must keep its objects, and a snapshot must not
  be older than its request.
* **In-place operations.** Files are renamed, rows inserted and journals written one by one,
  and Codex is used again before a recovery. Nothing that was said may be lost, and an
  import called completed must be the snapshot.
* **Workspaces.** A cleanup moves directories other programs may fill and rewrites the file
  Codex keeps its projects in. It must happen whole or not at all, and a path taken to this
  machine must come back as it was.

`PROJECT.json` lists each hazard at its line with the properties that catch it.

## Modules

```
NamespaceRegister            what a namespace promises (abstract)
      ^ implemented by
MetadataStore                the tables and their transactions
   |-- HistoryStore          + clients with stale views        HistoryStoreProofs
   `-- SyncServer            + files, GC, handlers, crashes    SyncServerProofs
Checkout                     one Home, its journal, recovery   CheckoutProofs
ThreadMerge                  merge, resolution, staging (operators)
   `-- SyncClient            homes, records and jobs           SyncClientProofs
SnapshotShelf                what the snapshot list and trash promise (abstract)
      ^ implemented by
LocalRepository              objects, snapshots, trash, GC     LocalRepositoryProofs
RolloutProjection            scan, normalizer, rewrites        RolloutProofs
   `-- CodexHome             import, provider sync, archive    CodexHomeProofs
WorkspaceMapper              path mapping (operators)
   `-- WorkspaceCleanup      rules, directories, global state  WorkspaceCleanupProofs
MC*                          instances for TLC
```

The modules on the right hold theorems that TLAPS checks; each extends the module it is
about.

An operator named `X_Slip` is `X` with a plausible mistake. `PROJECT.json` pairs each
property with one; replacing `X` by `X_Slip` makes TLC find the property violated, which
shows that the property depends on the code.

### MetadataStore, HistoryStore, NamespaceRegister

`head`, `epoch`, `rstate`, `rop` and `trash` are the columns of `namespaces`,
`revisions` and `revision_trash_operations`; one action is one transaction of
`metadata.rs`. Revision ids are hashes of their content, so `Parent` and `RevNs` are
constants. `HistoryStore` adds clients: `Read` is `get_head_state`, and a request uses
whatever the client read last. A lost answer is a client that keeps its old view; a repeated
commit is `commit_revision_root_again`. `Lapse` is the thirty-day limit passing.

`NamespaceRegister` is the promise to clients: inside an epoch the head only moves to a
child; every other move raises the epoch and lands on kept history; what is erased is
nobody's ancestor. The mapping takes revisions with a row as published and purged ones as
erased.

### SyncServer

A handler is a list of awaited effects, each a blocking task; one action is one effect.
`files`, `synced`, `rows`, `edges`, `queue`, `dels` and `qfiles` are the typed store, the
directory entries that would survive a power loss, `storage_objects`, `object_edges`,
`gc_queue`, its delete flag and the gc directory. `gc_gate` is not a variable: a handler
that is neither idle nor orphaned holds it, for reading or writing by its kind. `Fail` is an
effect that returns an error, `Disconnect` a dropped future whose submitted effect still
runs, `Crash` a process or machine failure that loses unsynced renames, and `Boot` the
start-up sequence before the listener opens. An object is an id with its links; bytes,
lengths and hashing are abstract. `Opened` are the objects whose links a commit records:
the root's own links and every typed object below it.

### Checkout

The Home is a set of swapped paths and databases whose content is a version number. Every
rename, transaction and journal write of `checkout_local_snapshot_internal`,
`rollback_checkout` and `recover_checkout_operation` is an action with a failing
counterpart. `disk` is the journal file and `mem` the process's copy; `atomic_write_json`
may leave no file at all, because it removes the old one first (`TornWrites`). `CodexRuns`
is Codex recreating a missing path between a crash and the recovery, `compare_and_set`
another process moving the tracking row.

### ThreadMerge and SyncClient

A tree gives each thread a version, or `Absent`. Versions are equal when
`semantic_thread_hash` is. Each copy also carries, as history that no guard reads, the set
of user edits that led to it; properties about lost work are stated with it.

`SyncClient` has one action per job, or several where a job reads, waits and writes:
a push is `push_namespace` (read record, head and home; build the revision), then
`Committed`, `Rejected` or `AnswerLost` (with `CommitLate` and `LookUpHead`), then
`RecordPush` and `update_remote_epoch`, two transactions. A pull is `pull_namespace` (read
and merge), `ApplyHome`, `ApplyRecord`, `update_remote_epoch`. Between them users edit,
others publish and administrators rewrite. The server is abstracted to head, epoch and
revisions, which is what `RefinesRegister` justifies; the checkout to its effect and its
three crash outcomes (nothing, a mixture with a journal, applied with a journal), which is
what `Checkout` shows. Recovery completes or rolls back.

Assumptions of `SyncClient`: one job per home (the lease of `jobs.rs`, within one process);
users do not work in a half-replaced home before its recovery; with
`UnrecoveredPush = FALSE` they do not push from one either. Downloads succeed: a failing one
ends the job before it changes anything, which is a job that does not start. A failing
tracking update after the checkout is the crash there.

### LocalRepository and SnapshotShelf

Version `v` of a thread consists of chunks `0..v`, a manifest that names them and a
descriptor that names the manifest, so versions share objects as content-defined chunks do.
`objects` are the object files; `index` is `source-objects-v4.json`; `roots` and `listed`
the snapshot manifests; `pinned` the metadata files; `trash` the trash directories, each with
its entry and manifest file; `journal` the purge journal; `vault` the treasures; `plan` what
a confirmation dialog shows; `job` what each process does, which is also its lease.

Every object installed, every rename and every journal write is a step.
A snapshot opens a rollout, reads its chunks while Codex may append, and writes the index
and the root later; a purge goes through `Preparing`, `EntriesStaged`, `Committed` and
`ObjectsStaged`; the collector moves one object at a time, rechecking each. `JobFails` is an
error or a cancellation, `Crash` ends both processes and their leases.

`SnapshotShelf` is the promise to the user: a snapshot is absent, listed, in the trash or
deleted; it moves between list and trash, only from the trash is it deleted, and its
contents never change. The mapping reads a staged trash entry as still in the trash until
its purge commits, which is what recovery makes of it.

Assumptions: one application; one open confirmation dialog; with
`CollectsUnrecovered = FALSE` an interrupted purge is recovered (which planning the
next purge does) before the next collection.

### RolloutProjection and CodexHome

A rollout is a sequence of lines; a line keeps its kind, workspace, provider, size class
against the limits of the scan and the normalizer, whether its JSON is canonical, and what
it says. `normalize_rollout`, `materialize_rollout`, `transform_rollout_file` and
`read_rollout_record` are what the code does to such lines, its refusals included.

In `CodexHome`, `files` are the rollouts per thread and session directory, `rows` the thread
rows, `displaced` the `.old` files of a provider synchronization, `quarantine` the
quarantined rollouts, `backups` and `journals` those of the imports, `config` the provider
in `config.toml`. Each rename, removal, transaction and journal write of an import, its
rollback and its recovery, of a provider synchronization, and of archiving, deleting and
quarantining is a step, with a failing variant; `Stop` is a crash between two. `said` is
history: what the user and Codex last said in a thread that nobody deleted.

Assumptions: one operation per home (the lease); Codex works only while none runs, as the
process check asks for, except that the quarantine's recheck is raced by a write.

### WorkspaceMapper and WorkspaceCleanup

A path is a sequence of components with the case and the separators it is written in.
`map_path` chooses the deepest matching rule. `RoundTrips` compares
`local_to_remote(remote_to_local(p))` with `p`; `ComesBack` names the exact condition under
which the code gives the path back, spelling included.

In `WorkspaceCleanup`, `present` and `filled` are the directories and those with a file,
`gstate` is `.codex-global-state.json`, `spare` the temporary file of each operation's
replacement (its name has a fresh id, so a left-over one is never written again),
`journals`, `backups` and `quarantine` those of the cleanups, `rules` the mapping file,
`usage` the workspaces the scan reports. A cleanup recovers unfinished ones, plans from a
fresh report, writes its journal, the backup, the new global state (two steps: remove and
rename), moves each directory and checks it again, and completes or rolls back. `precious`
is history: the global state that Codex saved last, or that an operation made of it; a
rollback that replaces the live state makes the original the one that counts.

Assumptions: the user picks from the directories the report offers; a mapping rule is saved
in one step; with `RepairMayFail = FALSE` the last rename of a sidebar repair succeeds, with
`TornWrites = FALSE` a crash does not fall inside a journal write.

## Runs

All times are with two workers. `CHECK_DEADLOCK FALSE` stands where a bounded environment
lets the system come to rest.

| Run | Instance | Shows |
|---|---|---|
| `history` | 2 namespaces, a forked history of 3 and one other revision, 2 clients, 3 trash operations | table invariants, no ABA, refinement of the register |
| `server_gc` | 2 revisions sharing a descriptor and a blob, 2 requests, a collection, a purge | no protected object is removed; edges stay exact |
| `server_recovery` | 1 revision, 1 request at a time and orphaned effects, a fault and a crash anywhere | protected content survives; start-up excludes requests; a restart drains the queue (liveness) |
| `server_disconnect` | 2 requests, one disconnect | **violated**, finding 1 |
| `checkout` | 3 paths, 3 databases, 2 checkouts, 2 errors, 2 crashes, a race, Codex run once | truthful journal, old Home survives, no blind rollback, rollback ends (liveness) |
| `sync_merge` | 2 users, 1 thread, 3 edits, 3 revisions, 1 rewrite | no lost edit, records match homes and history, informed choices |
| `sync_switch` | 1 user, 2 namespaces, 2 threads, 2 edits, 2 revisions, lost answer, crash, restore or remap | switching and partial pushes lose and mix nothing |
| `sync_converge` | 2 users, 1 thread, 2 edits, 5 revisions | homes converge (liveness) |
| `local_repository` | 1 thread in 2 versions, 2 processes, 2 snapshots, 2 trash entries, 1 treasure, 1 side operation, 2 faults | snapshots keep their objects; leased reads succeed; index and snapshots are current; pins hold; refinement of the shelf |
| `codex_home` | 2 threads, 6 homes, 3 snapshots, 2 operations, 2 edits, 2 faults | no conversation is lost; recovery has its backup; completed means imported; one normal form |
| `workspace_cleanup` | 4 directories, 4 rules, 4 sets of remote paths, 2 cleanups, 2 edits, 1 rule change, 2 faults | global state survives; cleanup is all or nothing; paths round-trip |
| `sync_unrecovered_push` | 1 user, 1 thread, a crash in a restore | **violated**, finding 2 |

Why the bounds suffice. A fork needs three revisions, an ABA one truncation and one restore,
a nested purge three operations. Losing a shared object takes one upload, one collector and
one commit. The worst order of a checkout is an error, a rollback, a crash, a recovery and
another error. A lost update needs two users; a stale choice needs three edits (two in
conflict, one after the conflict is shown); mixing namespaces needs two of each. Each mutant
of a run is found inside these bounds. `sync_merge` has one thread because threads merge
independently; `sync_switch` has two because staging and switching treat them together.
In `sync_converge` five revisions are as many as two edits can use up, rejected pushes
included; with four a client can be left without an id to push with.
In `local_repository` sharing takes two snapshots of versions with a common chunk, an
overlapping lease two processes, a purge whose recovery matters one crash and one more fault.
In `codex_home` an import whose recovery destroys work takes an import, a crash, an edit and
the recovery. In `workspace_cleanup` a rollback after a lost race takes two directories, a
write between check and rename, and a second cleanup that recovers the first.

### Fairness

* `SyncServer`: weak fairness of each effect. The blocking pool runs every submitted task;
  requests, faults and crashes have no fairness.
* `Checkout`: weak fairness of the running process and of `Recover`. The journal is listed
  as a recovery point until it is terminal, and the user is assumed to retry.
* `SyncClient` (`FairSpec`): weak fairness of a started job, and of the operations the
  interface offers when home and namespace differ. Edits, rewrites, switches of namespace,
  staged pushes and crashes have none.

## Proofs

TLC checks the instances above; the theorems hold for every value of the constants that the
named assumptions admit: any number of homes, threads, revisions, snapshots, requests, errors and crashes.
Each component's invariant is a conjunction of named parts, was checked by TLC on the run's
instance first, and is proved by one lemma per part and one step per action.

| Module | Theorem | States | Under |
|---|---|---|---|
| `HistoryStoreProofs` | `TypeCorrect`, `HistoryIsChain`, `SegmentsStayWhole`, `PurgeIsSafe`, `BasesAreKept`, `NoABA` | the invariants of run `history` | |
| | `RefinesRegister` | the tables implement `NamespaceRegister` | |
| `SyncServerProofs` | `ServerTypeCorrect` | `ServerTypeOK` | |
| | `ProtectedContentIsSafe`, `EdgesAreTrue` | `ProtectedContentStored`, `EdgesTellTheTruth` | `~Disconnects` |
| `CheckoutProofs` | `CheckoutTypeCorrect`, `BaseIsNeverLost`, `TerminalJournalIsTrue`, `RecoveryKeepsLocalApplied` | `CheckoutTypeOK`, `BaseSurvives`, `Settled`, `NoBlindRollback` | |
| `RolloutProofs` | `RolloutsForgetTheMachine` | every rollout, materialized and normalized again, gives its normal form | |
| `CodexHomeProofs` | `WorkSurvives`, `BackupsOutliveImports`, `HomesForgetTheMachine`, `CompletedImportsArrived` | `WorkIsKept`, `RecoveryHasItsBackup`, `NormalFormForgetsTheMachine`, `CompletedMeansImported` | |
| `LocalRepositoryProofs` | `SnapshotsStayComplete`, `LeasesProtectReads` | `StoredSnapshotsComplete`, `LeasedReadsSucceed` | `~CollectsUnrecovered` |
| | `IndexStaysTruthful`, `PinsProtect`, `SnapshotsHoldWhatWasThere` | `IndexIsTruthful`, `PinnedStaysListed`, `SnapshotsAreCurrent` | |
| | `RepositoryKeepsThePromise` | the repository implements `SnapshotShelf` | |
| `WorkspaceCleanupProofs` | `CleanupsAreAtomic` | `CleanupIsAllOrNothing` | |
| | `GlobalStateIsKept` | `GlobalStateSurvives` | `~RepairMayFail`, `~TornWrites` |
| | `PathsComeBack`, `MappingsComeBack` | for every set of rules without equal prefixes and every path, the path comes back exactly when `ComesBack` says so; `MappingRoundTrips` | |
| `SyncClientProofs` | `ClientTypes`, `EqualEpochsShareHistory`, `StaleChoicesAreRefused` | `TypeOK`, `EpochMatchMeansAncestor`, `ChoicesAreInformed` | |
| | `HistoryNeverLosesEdits`, `HomesHaveWhatTheyIntegrated`, `CheckoutsKeepLocalWork` | `HistoryKeepsEdits`, `IntegratedIsInHome`, `LocalWorkKept` | `~UnrecoveredPush` |

The last column names the environments that the code does not survive. Each is a finding or
a known departure below, so the hypothesis cannot be dropped; nothing else is assumed but
the types of the constants (`ConstantsAssumption`, `ServerAssumption`, ...) and:
`AcyclicAssumption`, that no revision is an ancestor of its own parent (a revision id is the
hash of a root that contains the parent's id); and `TokensAreReserved`, that the tokens the
normalizer writes are no workspace and no provider.

### History

`ActiveIsHeadChain` is not inductive: a restore puts a segment back, so one has to know that
it is the whole chain from its old head down to the head it was cut at. That is
`TrashIsSegment`, which in turn needs `TakenHasOp` (a revision carries an operation exactly
when it is trashed or purged by it) and `OpHeads` (an operation's new head is a proper
ancestor of its old one). A purge is safe because an operation's base is active or was
trashed by a *later* operation, `BaseHeld`: purging in an order that the code permits never
removes the base of what stays. `MatchMeansUnmoved` needs `ViewBehind`: inside one epoch a
client's head is the current one or a proper ancestor of it, so equality means nothing
moved, and a rewrite raises the epoch for good. `AncOrSelf(r)` is the least set that contains
`r` and is closed under parents; the lemmas about it are closure, transitivity and linearity.

### Server

`TypeInv` gives shapes, with what each step of a handler is about. `ContentInv` adds: the
gate (`Gated`: whoever is not on its read side is alone; `Awaited`: no handler is orphaned);
`Owned`, the trash operation a revision carries; `Kept`, protected content is synced and its
edges are exactly its links; `Harmless`, no object ever has an edge it should not;
`Validated`, what a commit has seen so far stays true until its transaction; `Doomed`, what
the collector is about to move is no content of a protected revision. The collector decides
by the recorded edges; it is right because those of protected content are complete and all
others are subsets, so reachability by edges and by links agree on what is protected
(`Reach` lemmas: least closed set, monotone, equal on agreeing closed sets). `Awaited` is
what fails with `Disconnects`: finding 1 is a run of that model.

### Checkout

The invariant says, for every place where a process can be stopped, which copy of each path
and database is which (`Paths`, `Databases`), what a rollback has returned (`PathsReturn`),
what is installed (`Target`, `CatalogTarget`) and which journal is in memory and on disk
(`Running`, `Returning`). `Completed` excepted, a path's previous contents are in its backup
or still live, and every database is untouched or backed up: that is `BaseSurvives`, through
any number of failed rollbacks and torn journal writes. `Settled` needs to count: the
catalogues are restored after the paths, so a Home that looks like the target although its
catalogues were restored costs one error for each path; the property says so
(`Errors < Len(Swaps) => CatalogsCleared`).

### Rollouts and the Codex Home

`RolloutProofs` shows what `normalize_rollout`, `materialize_rollout` and
`transform_rollout_file` do line by line: a rewrite changes only what the normal form
replaces by tokens. `HomeInv` of `CodexHomeProofs` types the files, then relates them to
journals and jobs: a started import has its backup (`Journaled`), its written rollouts are
the snapshot's (`Imported`), a provider synchronization that has displaced a file still has
the staged copy (`Moving`), a quarantine has a copy that nothing overwrites
(`Quarantining`), and what was said in a thread is in one of these places (`Work`). Two facts
about the code carry `WorkIsKept`: a rollback and a recovery remove nothing that a thread
said (`RemovesNothing`), and a quarantined file gets a name of its own.

### Local repository

`RepositoryInv`: a job with the exclusive lease is alone (`Leases`); a staged trash directory
belongs to the unfinished purge, whose status tells whether recovery returns or deletes it
(`Purging`); a snapshot on its way to the trash or back has entry and manifest in the order
the code writes them (`Trashing`, `Entered`); a job about to write a root has stored every
object the root names (`Building`); and what it read is no older than its request
(`Timely`). `StorageInv` adds that collections meet no unfinished purge, which is where
`CollectsUnrecovered` matters. The refinement maps each snapshot to absent, listed, trashed
or deleted; every step moves at most one snapshot along the shelf's transitions, except a
committed purge, which deletes all its entries at once.

### Cleanup

`CleanupInv`: operations are numbered and later numbers have left nothing (`Numbered`); the
journal of an unfinished cleanup agrees with its backup and its quarantined directories
(`Journaled`, `Distinct`); and what the running job has done where it stands (`Waiting`,
`Writing`, `Moving`, `Undoes`, `Temporary`). `Survives` is the strengthening of
`GlobalStateSurvives`: while a rename is pending, the precious state is in a file other than
the temporary one that the failing rename removes.

The mapping is a function of the rules, so its theorem is about one state. A path that a rule
takes to this machine comes back because the rule that maps it back is the same rule. The
rule chosen is the longest that is a prefix of the path, hence the deepest; a different rule
on the way back would, by the lengths of its two sides, have been deeper on the way out
(`Balance`, `SameRuleBack`). That a longest prefix exists is the least-number principle
(`Least`), which stands for an induction.

### Sync client

Three invariants; the first is the frame for the other two.

`ClientInv` is the bookkeeping. Records, jobs and journals name published revisions, a job
that read a record still agrees with its generation, and a head that was read in epoch `e`
is in the namespace's history for as long as the epoch is `e` (`Ahead`). That is what
`EpochMatchMeansAncestor` needs: the record gets its head in one transaction and its epoch in
another, so the head must be right for the old epoch and for the one that follows, and a
journal that is completed after a crash must not be older than the record (`JournalOK`).
Every action `Evolves` the server: revisions are only added, published ones stay, and what
is in the history of a head stays in it unless the epoch rises. One lemma per action shows this together with what
the action does to its own client; the others follow from `Evolves` alone.

`CopiesInv` says what a version means. There is a function from threads and versions to sets
of edits that fits every copy in a revision, a home, a plan or a backup, so equal versions
have equal edits behind them; the edits behind the versions on a screen are in `seen`; and a
planned resolution is informed. A choice is valid only if its fingerprints are those of the
conflicts there are now, hence of versions the screen showed.

`EditsInv` says where the edits are. Every revision has its parent's (`Lineage`); a settled
home has those of the revision it integrated, a home with an unfinished checkout those of
the revision the checkout is for, a torn one has them in the backup (`HomeOK`); a job's tree
has them too (`WorkOK`); and a plan keeps what was in the home (`PlanOK`). A merge takes the
remote side where the home equals the base, and may do so because what the base had is
still in the remote side or was deleted there by a revision that knew it: the edits of an
ancestor survive down the chain (`AncestorsSurvive`). That is an induction over the chain,
done as a descent: of the revisions on the way that lost the edits there is a first one
(`Least`, from `WellFoundedInduction`), and its parent still had them. `Chain(h)` is the least set that contains `h` and is closed
under parents, so no recursion is needed. Only pushes from unrecovered homes break
`EditsInv`: finding 2 is a run of that model.

Two properties have the form they have because a simpler one is false beyond the runs'
instances. With three homes, an edit deleted knowingly in one and brought
back without it by another is gone from a third's pull, so `LocalWorkKept` names the
revision that deleted it. With one crash, a screen can show a torn home in which a thread is
missing, and the choice made there be valid for the recovered home, where the thread is
deleted with an edit of its own; `ChoicesAreInformed` is therefore about versions that are
there.

### Only model-checked

* The liveness properties `RestartDrainsQueue`, `RecoveryEnds` and `HomesConverge`: liveness
  under fairness, and `ENABLED`, are outside the prover's reach.
* That the mutants violate the properties, and the two findings.

## Findings

1. `server_disconnect`: a disconnect drops the handler and its `gc_gate` guard while the
   submitted transaction or rename still runs, among another handler's steps. A protected
   object can lose its file.
2. `sync_unrecovered_push`: pushes do not look for an unfinished checkout, and the scan
   skips a missing session directory silently. A whole push after a crash in a checkout
   publishes the missing conversations as deleted.

### Known departures

Others that no run states. Each is reproduced by the change named here to the constants or
properties of a run's cfg.

* `Checkout.cfg` with the invariant `JournalCoversHome` (and `TornWrites = TRUE`, as it is):
  `atomic_write_json` removes the journal before renaming the new one. If the rename fails
  and the process dies during the rollback, a mixed Home has no journal (`README.md:116-118`
  of the repository promises recovery).
* `Checkout.cfg` with the property `EveryCheckoutSettles` (one checkout, fault and crash are
  enough): when the tracking update fails
  after `LocalApplied`, the rollback starts with that status on disk. After a crash in it
  every recovery refuses, and later checkouts are blocked.
* `LocalRepository.cfg` with `CollectsUnrecovered = TRUE` breaks `StoredSnapshotsComplete`:
  after a crash during a purge the entries are in its staging directory, which
  `plan_local_gc_v4` neither recovers nor takes as roots; recovery then puts back a snapshot
  without its objects.
* `CodexHome.cfg` with the invariant `ConversationsStayListed`: a crash between the two
  renames of `replace_with_staged` leaves only the `.old` file. `lib.rs` says that
  "provider synchronization is resumed by running synchronization again", but a second run
  does not see the file; `WorkIsKept` holds because the content is still there.
* `WorkspaceCleanup.cfg` with `RepairMayFail = TRUE` or `TornWrites = TRUE` breaks
  `GlobalStateSurvives`: the sidebar repair replaces the global state without a backup and
  removes its temporary file when the rename fails; a journal lost in its own write leaves a
  cleanup nobody rolls back, whose backup may be deleted.
* A cleanup that is interrupted after it replaced the global state, followed by a sidebar
  repair that happens to write the very bytes the cleanup had planned: the next cleanup's
  recovery (`remove_empty_codex_projects`, `rollback_workspace_cleanup`) finds the planned
  hash, takes the state for its own and restores the original, which undoes the repair.
  The model follows the code here and lets such a rollback decide what is `precious`.

## Not modelled

* Edits made by Codex between a pull's scan and its checkout are replaced and survive only
  in the recovery backup; `LocalWorkKept` is relative to what the plan read.
* A thread deleted before it was ever in the base is brought back by a pull or an initial
  merge: the code keeps no tombstones, and the properties do not count it as lost work.
* Two applications on one home or repository: the leases live in one process.
* The newest-snapshot push and its scopes; renaming a namespace; the namespace defaults.
* Recovery of an import restores the whole database, so rows Codex added since the backup
  are dropped while their rollouts stay; `WorkIsKept` is about rollouts.
* The mapping file is replaced by remove and rename without a lock: two commands at once may
  lose a rule, a crash in between all of them. `WorkspaceCleanup` saves it in one step.
* Hashes, byte limits (but for the two line limits), encodings, archives and previews.
* The parts marked `not_modelled` in `PROJECT.json`, with their reasons.

## Plan

1. (done) History, its abstract register, its proofs.
2. (done) Server objects, GC and recovery; checkout; merge and sync client.
3. (done) Local repository with its leases; in-place operations on a Home; workspace mapping
   and cleanup.
4. (done) Proofs of the server's content, the checkout, the rollouts and in-place
   operations, the local repository with its refinement, and the cleanup.
5. (done) Proofs of the sync client's bookkeeping, copies and edits, and of the path mapping.
   Every invariant and action property that a run checks is now a theorem.
6. The newest-snapshot push on top of `LocalRepository`'s scopes; the mapping file's two-step
   save; two applications.
7. Abstract specifications still to state: a checkout as an atomic replacement of the Home,
   implemented by `Checkout` while no journal write is torn; the object store as a set that
   only loses unreachable objects; the server's tables under concurrent handlers, which
   should implement `NamespaceRegister` as `HistoryStore` does.
