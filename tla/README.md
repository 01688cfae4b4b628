# TLA+ model of the CodeLens MCP server

CodeLens (`crates/codelens-mcp` on top of `crates/codelens-engine`) is a server
that answers code-intelligence requests for several projects at once: over
stdio for one client, or over HTTP for many sessions.  Beside answering, it
runs long analyses in the background, keeps one *runtime* (index, watcher,
language servers, writer lease) per project, and edits files under a gate of
earlier evidence.  This directory holds TLA+ models of the parts where those
activities interleave, the TLC runs that check them on small instances, and
TLAPS proofs about them for all instances.

Run a check with `tlc -config <cfg> <module>` and a proof with
`tlapm <module>.tla`; `PROJECT.json` lists the runs, which source lines each
definition stands for, one mutant per property, the hazards and the theorems.

## 1. Inventory

Paths are relative to `crates/codelens-mcp/src` unless they start with
`engine/`, which stands for `crates/codelens-engine/src`.

| Component | State it keeps | Operations | What is hard |
|---|---|---|---|
| **Analysis queue** `analysis_queue.rs` | bounded list of requests, cost counters, a condition variable | enqueue by cost, take the first that fits, finish | lost wake-ups, leaked capacity, a job dearer than the budget |
| **Analysis jobs** `job_store.rs`, `tools/report_jobs/*`, `memory_pressure.rs` | one JSON record per job, a map and an order in memory | start, poll, cancel, run with retries, progress, deadline, memory gate; prune, expire, repair at startup | no lock between reading a record and writing it back; crashes; eviction of live jobs |
| **Project runtimes** `state/project_runtime.rs`, `project_accessors.rs`, `project_runtime_lease.rs` | cache of runtimes, in-flight build tickets, LRU order, last use, active project; a file lock per project | bind a request, share a build, install, evict, sweep, reap, switch | builds that outlast their callers, two builds of one project, eviction beside live sessions, other processes |
| **Edit transactions** `engine/edit_transaction.rs`, `atomic_write.rs`, `rename.rs`, `vfs.rs` | captured hashes and contents of the files of one edit | capture, verify, write each by rename, roll back, report evidence | a failure or a concurrent writer in the middle, a rollback that fails |
| **HTTP sessions** `server/session.rs`, `session_journal.rs` | sessions, tombstones, project binding, request pins | create, resume, resurrect after a restart, delete, expire | a resurrection racing a deletion, a cap that must not evict live clients |
| **Mutation gate and preflight** `mutation_gate.rs`, `preflight_store.rs`, `orchestration_store.rs` | the latest preflight and approval of each session | record, look up, admit or refuse a mutation | evidence that is stale, of other files, of another session or project |
| **Agent coordination** `agent_coordination.rs` | registered agents and claimed files with a time to live | register, claim, release, expire | overlapping claims and expiry |
| **Symbol index** `engine/symbols/*`, `engine/watcher.rs`, `engine/db` | SQLite rows per file, a generation and observations per mutation | refresh all, ensure some, watch, read with a fence | an older parse committed after a newer one; a read across a generation |
| **Runtime health** `state/watcher_health.rs`, `secondary_projects.rs`, `embedding_host.rs` | failure reports, secondary projects, the embedding slot | prune, attach, reset | reset while in use |
| **Artifact store** `artifact_store.rs` | analysis artifacts on disk and in memory | store, reuse, expire, evict | the directory changes with the active project |
| **Audit sink** `audit_sink.rs`, `principals.rs` | an append-only log with retention | append, prune, query | retention while appending |
| **LSP sessions** `engine/lsp/*` | a pool of language-server processes | start, request with timeout, restart, shut down | late answers, restarts |
| **Graph algorithms** `engine/circular.rs`, `call_graph`, `import_graph`, `dead_code.rs` | none | cycles, reachability, ranking | a filter with a budget that must err on one side |
| **Memory files** `engine/memory` | notes as files | read, write, archive under a policy | partial writes |
| **Rate limit and access** `dispatch/*` | a counter per session | admit a call | none: one comparison |
| Embedding index, parsing and search, tool surface, command line, telemetry | | | numerical, pure text, tables, input and output |

How they interact: a request is dispatched, finds its *session*, is bound to
its *project runtime* (which may have to be built), passes the *gate* if it
mutates, and reads or refreshes the *symbol index*.  Long requests become
*jobs*: the record is written first, then the *queue* is asked; a worker thread
takes it, binds its project through the same cache of runtimes, runs it, and
writes the record.  Switching the active project points the *job store* and the
*artifact store* at another directory.

What makes each component correct, in a sentence:
- queue: no capacity is leaked, no wake-up lost, every accepted job is taken up;
- jobs: a record is active only while somebody is responsible for the job, a
  result is shown exactly for a completed report, a cancelled one does not run;
- runtimes: one runtime per project in use, never shut down under a user, kept
  for a live session, given back when idle;
- edit transactions: all files or none, or evidence that says which;
- sessions: a deleted session never comes back, a live one is never evicted;
- gate and claims: no gated mutation on evidence that was spent, an audit log
  that does not say what did not happen, a second claimant who is told of the
  first;
- index: the newest content of a file wins;
- artifacts: what is handed out exists, what is evicted is old;
- language servers: an answer is about the text the caller meant;
- import loops: none is missed for want of budget.

All of these are modelled (section 3); section 6 says what is not, and why.

## 2. Plan

Order of the modules, most important behaviour first.  All are written, and all but
the last have their proofs; the last column says what is proved and what is left.

| Module | Composes or refines | Run and bounds | Theorems |
|---|---|---|---|
| `AnalysisQueue` | implements `JobPool` | `queue`: 5 jobs, 2 workers, queue of 3 | all its safety properties, and the safety part of the refinement |
| `AnalysisJobs` | composes `AnalysisQueue`; implements its specification | `jobs_*`: 1-2 jobs, 1 worker, 1-2 clients, a restart, a switch, faults | all its safety properties, three of them under stated conditions, and the safety part of the refinement |
| `ProjectRuntimes` | | `runtime_*`: 1-2 projects, cache of 1, 2 threads, a sweeper | all its invariants |
| `SymbolIndex` | | `components`: 1 file, 2 callers and the watcher | all its properties |
| `EditTransaction` | | `components`: 3 files, an editor, 2 failing writes | all its properties |
| `MutationPath` | gate, handler and audit log in one path | `components`: 2 mutations, 1 verifier, 2 sessions | all its properties |
| `SessionStore` | | `components`: 3 requests of 1 session, 2 projects | all its properties |
| `LspSession` | | `components`, `lsp_stale_diagnostics`: 2 files, 2 calls | all its properties that hold |
| `ArtifactStore` | | `components`: 2 processes, 3 threads, a cap of 1 | all its properties |
| `Coordination` | | `components`: 2 sessions, 3 calls, 2 files, a clock of 2 | all its properties |
| `CircularDependencies` | | `components`: 4 files, up to 4 imports | none: it is one computation of nested folds (section 5) |

## 3. Modules and the code

### `AnalysisQueue` - the queue of background jobs
One action per critical section of the mutex of `JobService`: `Enqueue`,
`Take`, `Sleep` (`condvar.wait`), `WakeSpuriously`, `Finish`.  `pending`,
`pendingCost`, `activeJobs`, `activeCost` are the fields of
`AnalysisQueueState`; `holding` and `asleep` are where the worker threads are;
`arrived` is history.  `usize::saturating_sub` is `Monus`, so a miscount shows
as a miscount.  Metrics are left out.  `JobPool` is the abstract specification:
an accepted job waits, runs once and ends.

### `AnalysisJobs` - the life of a job
Extends the variables of the queue, of which it contains an instance: a worker
step that takes or finishes a job is the queue's step.  A thread's `task` says
what operation it is in (`op`) and how far (`phase`): the store reads a file,
changes its copy and renames the copy over the file with no lock across, so
`Load`, `Memo`, `Write`, `Save` and `Index` are steps of their own and
interleave with all others.  `AfterRead` and `AfterUpdate` are the control flow
of the worker (`run_analysis_job_from_queue`) between two calls of the store.
`Restart` loses the queue, the memory and the threads, and repairs records as
startup does; `Reports` are the jobs whose kind stores an analysis: the answer of
`refresh_symbol_index`, `index_embeddings`, `explore_codebase` or
`review_architecture` without a path has no `analysis_id`, so that
`extract_handle_fields` (`HasHandle`) finds none and the job completes without a
result.  `Heavy` are the jobs that wait for memory; `SwitchProject` is
`activate_project_context`.  `Dropping` (`Sublists`, which `ProjectRuntimes`
uses too) is `VecDeque::retain`, written without recursion so that it can be
reasoned about.

Abstractions: pruning and the read that follows it in `get` are one step, and
so are the insertion into the map and the pruning of `store` (`Index`);
switching a project is one step although it changes several stores; a client
asks for a job with the job's own scope; the payload of a job is nothing, empty
or full (a report that is not an object cannot be produced by a job kind); the
report itself is one step that reports progress, succeeds, fails or panics.
Listing jobs is a status read of each, retrying a job starts a new one.

### `ProjectRuntimes` - the cache of project runtimes
A build, its ticket and the runtime it makes share one id `<<scope, slot>>` and
one record: its `stage` (from "spawned" to "taken", or "lost" for a thread that
never started or panicked), its `role` (a writer holds the lease), whether it
was `stopped`.  `inFlight`, `entries`, `recency` are the fields of
`ProjectContextCache`; reference counts are computed from who refers to a
runtime (`Lent`, `ContextHeld`), and `Kept` drops what nobody refers to, and
its lease, at the end of every step.  A request goes through
`resolve_cached_project_context` in the steps its locks make:
`Collect`/`Take`/`Install` (`install_finished_builds`), `Found`, `Join`,
`Spawn`, `Claim`, again `Install`, and `Retire` outside the mutex; `GiveUp` is
the bind budget running out, at any time.  Builds are threads (`Acquire`,
`BuildEnds`).  Other processes are the set `rivals` of leases they hold.

Abstractions: a session makes one request at a time, so the request's own pin
and its session's binding coincide; binding and the reap of deleted directories
that follows are one step; time is only "used since the previous sweep";
the default project never enters the cache and is left out; a request that
binds a second project before it ends is a second request.  Job workers
(`JobWorkers`) share the cache but not the session store, as
`clone_for_worker` makes them.

### `SymbolIndex` - the index of a project and its writers
`nextGeneration`, `inFlight`, `observed`, `latestObserved`, `committed` are the
fields of `MutationTracker` and `MutationState`, `rows` the files table.  A
thread's `task` is the call it is in, with the texts and times it has read:
`Start`, `Observe`, `ReadFile` (the text and the time of a file in two steps),
a commit, `RecordCommit`, `Finish`.  The commits (`CommitIndex`, `CommitRemove`,
`CommitRefresh`, `CommitEnsure`) are the four that write the table, each one
transaction under the tracker's lock, which stays held until the generation is
counted; `CommitFails` is a database that stays locked, which the watcher
repeats, or any other error, which it does not.  `events` and `batch` are the
debounced watcher.  `FenceCapture`, `FencedQuery`, `FenceFinish`, `FencedRead`
are a read of two statements under the generation fence with its one rerun.

Abstractions: a file is the version of its text and its time, so parsing and
hashing are the identity of a version; the sharing of one analysis between
callers that read the same version (`analyze_file_singleflight`) is a function
of that version and is left out; a write may keep the time (same millisecond)
and a checkout may renew it alone; the second condition of a bulk rebuild is left
open; the fence reads one path twice.  `rowGen`, `seenBy`, `owed` and `skipped`
are history: which ticket wrote a row, which one last wrote it or compared it with
the file, which newer ticket a commit gave way to, which files a given-up batch
had.

### `EditTransaction` - one edit of several files
`tx` is one edit: its kind (`apply_with_evidence`, the full writes, or the bare
`apply_edits` of rename, inline and change_signature), the file it is at, the
backups, the report.  Each phase goes file by file, and an editor
(`ForeignWrite`) may write, create or delete a file between any two.
`WriteAtomic` is what a write does: rename, else the copy over the file that may
leave it truncated.  A content is where it comes from (original, foreign,
missing, torn) and whether the edit is in it.

### `MutationPath` - gate, handler, evidence and audit log
One call goes `BeginMutation` (the row `Verifying`), `PassGate`, `RunHandler`,
`ClearEvidence`, `RecordOutcome` or `RecordFailure`; a verifier goes
`AskVerifier`, `OrchestrateRecords`, `AnswerVerifier`.  `preflights` is
`RecentPreflightStore`, `approvals` the approved paths of `OrchestrationStore`,
`ledger` the rows of each operation.  Age is `EvidenceAges` and `ApprovalAges`,
at any time; restarts, project switches and rows that cannot be written share
one budget.  A handler ends in one of `HandlerEnds`: what became of the change
(`status`), what is left of it in the files (`effect`), and the `apply_status`
its answer shows where the dispatcher looks (`says`), which is none for the
tree-sitter move and for the answers that keep it in a contract.
`AnsweredStatus` is the default the dispatcher takes then, "applied".

### `SessionStore` - which project a request runs in
`live`, `tombs`, `journal` are the three stores; a request takes one step per
lock or file operation: `CheckTombstone`, `Resurrect`, `Snapshot`, `Answered`,
`BindProject`, `WriteJournal`, and for a DELETE `ForgetEntry`, `MarkTombstone`.  A
binding is a path and the rank of its source (`ProjectBindingSource`).  Losses
(eviction, idling out, restart, a journal or a tombstone that goes) are
bounded together.

### `LspSession` - one language server of the pool
`client` is `LspSession` in the pool, `server` the process, `toServer` and
`toClient` its pipes, `query` the call that holds the pool's mutex.  `Prepare`,
`SyncImports`, `Ask`, `ReadAnswer` are the path of references and diagnostics;
`TakePublished` and `ReadPublished` the fallback on what the server published;
`GiveUp` a timeout, whose request stays with the server; `TransportFails` the
death of the server, with the one retry of diagnostics.  A message carries the
number of the text it is about.

### `ArtifactStore` - stored analyses of several processes
`shelf` is the directory, `resident` the three maps of each process, each with
its own lock, `diskIo` the mutex of the disk.  A call is store, get, upsert,
lookup or the switch of the directory, in one step per lock.  Analyses are
numbered by creation and all alike, so that any may be reused.

### `Coordination` - claims on files
Two tables and a clock.  `StartClaimCall` computes when the claim will end,
before the wait for the process's lock; `Begin` reads the clock the call will
prune by (`pruned`), before the wait for the database's writer lock, because
`now_ms()` is an argument of `prune_tx`; `Claim`, `Release`, `RegisterWork` are
one transaction each, which first deletes what had ended by `pruned`
(`LiveRows`); a query deletes from the two tables one after the other
(`QueryAgents`, `QueryClaims`).  The claims of others a claim overlaps are read by
a clock of their own, after the wait.  `Unavailable` is a lock that is not free
for five seconds.  `held` and `told` are history: `held` is kept while the
session's claim goes on, or while a claim of the session that read the clock
before its end still waits (`GoesOn`).

### `CircularDependencies` - the search for import loops
A pure function as one step.  `Components` stands for `tarjan_scc`, `Prove`,
`IsProductionEdge`, `IsDeferredEdge`, `AskImporters` for the filter and its
memo, `Visit` and `Filtered` for the second pass with the budget that all
candidates share.  The property does not use components: it enumerates the
loops one by one.  Left out: reading an import's timing from its text.

### `MCComponents` - the eight modules above in one run
They share no variable, so `MCComponents` chooses one at the start (`focus`) and
lets it run alone; the view shows TLC the variables of that one.  It is the sum
of eight runs and claims nothing about their interaction.  Callers, requests and
files that are alike are taken in the order of their names (`CallersInOrder` and
its like), which loses only renamings.  Beyond that, only the first mutation
may be answered without its `apply_status`, and of the three claim calls one
may be of any kind, the second of its session claims or releases, and the other
session's claims one file.  Where components do interact inside the program,
the models meet: job workers in `ProjectRuntimes`, the queue in `AnalysisJobs`,
the project switch in `AnalysisJobs`, `MutationPath` and `ArtifactStore`.

## 4. What is checked

Seven passing runs; every action fires in some of them.

| Run | Instance | Shows |
|---|---|---|
| `queue` | 2 workers, budget 3, queue of 3, 5 jobs of every price (also dearer than the budget) | counters agree, budget respected, order kept, no lost wake-up, every accepted job starts, refinement of `JobPool` with its fairness |
| `jobs_races` | 1 job, a report or an index job that waits for memory (`OneJob`), 1 worker, 2 clients, 2 attempts, progress, deadline, a restart | a job cancelled in the queue never runs; no record is left active; a result exactly for a completed report |
| `jobs_progress` | an index job and a report, queue of 1, store of 1 record | every job ends, refused, evicted and resurrected ones too |
| `jobs_faults` | failing writes, records that expire at once, a project switch | no false result; the jobs drive the queue as its own specification says, fairness included |
| `runtime_http` | 2 projects, cache of 1, a session and a switching request, a deleted directory | no runtime is shut down in use; one runtime per project; a session keeps its runtime |
| `runtime_lite` | 1 project, 2 threads and the sweeper, rivals, failing and lost builds, readers | every writer lease is given back |
| `components` | `SymbolIndex`, `EditTransaction`, `MutationPath`, `SessionStore`, `LspSession`, `ArtifactStore`, `Coordination`, `CircularDependencies`, each alone | see below |

What `components` shows, module by module:

| Module | Shows |
|---|---|
| `SymbolIndex` | no row goes back to an older ticket; at rest a row is its file, but for two kinds of files the code gives up; a fenced read shows one generation, but for a commit not counted yet |
| `EditTransaction` | an edit is in all files, in none, or reported; what an editor writes in the guarded window survives |
| `MutationPath` | the audit log announces what changed a file, has one ending at most, and none that did not happen but for a rollback the answer hides; no evidence a finished mutation has outdated opens the gate |
| `SessionStore` | a chosen project survives eviction and restart; concurrent requests keep their own header's project; a deleted session stays deleted unless a request overlapped the DELETE |
| `LspSession` | an answer is about the text the call read; the notes about a server agree with it whatever died |
| `ArtifactStore` | what is handed out was on the disk during the call; only old or exceeded analyses are evicted, by whatever process |
| `Coordination` | of two holders of a file one was told of the other; an ended claim stays ended, unless a later claim of its session read the clock before that end |
| `CircularDependencies` | every loop at load time is told as such, with any budget; with enough of it nothing else is told |

Five runs end in a counterexample, each against what the repository says:

| Run | Said | Done |
|---|---|---|
| `jobs_startup_scope` | startup repairs stale jobs | only those of the scope it starts in |
| `jobs_cancel_lost` | an answered cancellation holds | the worker's next record overwrites it |
| `runtime_reader` | a reader stands beside another process | the process's own second build becomes one |
| `runtime_worker_evicts` | a live session's runtime survives cache pressure | a job worker has no session store and evicts it |
| `lsp_stale_diagnostics` | published diagnostics reflect the text the server holds | those of an older text, read late, are kept and answered |

Other disagreements met while modelling, each kept in its model as the code has
it and excepted by name in the property it touches:

- `SymbolIndex`: a batch given up after `IndexRetries` drops its removals with
  it, and a removal may give way to an on-demand read that finds no file: the
  row of a deleted file then stays (`skipped`; `seenBy[f] < owed[f]`).
- `SymbolIndex`: ADR-0017 says that a fenced read "never exposes its mixed
  payload"; the generation is counted after the commit became visible, so a read
  that ends in between is accepted (`reader.uncounted`).
- `EditTransaction`: `write_atomic` promises the original untouched "on any
  error"; its fallback writes over the file and may truncate it.
- `SessionStore`: a request that passed the tombstone check brings a session
  back beside its tombstone, although a DELETE is said to stay authoritative
  (`overtaken`).
- `MutationPath`: ADR-0009 says that the audit rows of a call identify the path it
  took, with a state of its own for a rollback.  The dispatcher reads `apply_status`
  at the top of the answer or in `data` and takes "applied" when there is none
  (`dispatch/session.rs:393-399`): a rolled-back tree-sitter
  `refactor_move_to_file`, whose answer leaves the evidence of `move_symbol` out
  (`tools/composite.rs:279-298`), and a rolled-back `propagate_deletions`, whose
  answer keeps it in `transaction.contract`
  (`tools/semantic_edit/safe_delete.rs:224-231`), are logged as Audited (`says`).
- `Coordination`: ADR-0004 lets a claim's time release it "without an explicit
  call".  `claim_files` reads the clock it prunes by before its wait for the writer
  lock (`agent_coordination.rs:363`, `194`): a claim of the same session that ends
  during the wait is joined and renewed (`GoesOn`).
- `ArtifactStore`: an entry into the three maps may cross a purge of them and
  be handed out from memory alone (`overlapped`).

### Bounds
- *Jobs and workers.* Two workers and five prices reach every case of `Admits`
  (fits, fits alone, does not fit) and of insertion.  One job suffices for the
  races on a record, since records are independent but for eviction and the
  queue's room, for which `jobs_progress` has two jobs and room for one.
- *Attempts, polls, progress.* Two attempts are one retry and one last attempt;
  one poll and one progress report per attempt already separate every check
  from the write that follows it (`jobs_progress` leaves the polls to
  `jobs_races`).
- *Clock.* `Deadline` and `StaleAfter` are crossed by one tick, expiry by two
  (never in `jobs_races`, where a record that expires takes its cancellation
  with it, as in the code after a day in the queue; after one tick in
  `jobs_faults`).
- *Runtimes.* `Slots` bounds how many builds of one project coexist; with two
  slots TLC finds no state in which a request waits for a third.  A cache of one
  stands for the limit of four: two projects already compete for it.
- *Symbol index.* One file suffices for an order of commits, since rows are
  independent but for the set a refresh finds; `MCBudgets` shares out changes,
  calls, failures and fenced reads so that each pair meets.  An instance of two
  files and one caller was checked once (360 thousand states).
- *Edits.* Three files have a first, a middle and a last one; two failing writes
  are one that stops the edit and one in its rollback.
- *Mutations.* Two mutations and one verifier are the least in which evidence
  can be spent by another session.
- *Sessions.* Three requests of one id: two that overlap and one that comes
  after; two projects tell a header from a choice.
- *Language server.* Two calls, of which the first leaves an answer in the pipe
  or a dead server; one change of a text, one publish, two faults.
- *Artifacts.* A cap of one and two analyses; four calls instead of three were
  checked once (5.4 million states).
- *Claims.* Terms of 1 and 2 on a clock of 2, which the end of a claim crosses
  during either wait; three calls of any kind were checked once (0.9 million
  states).
- *Import loops.* Two pairs of files that may import each other in any timing
  and two imports that close a longer loop; `MaxStatements` of 5 was checked
  once.  Budgets of one file and of all files, lists of one cycle and of all.
- `MaxRestarts`, `MaxSwitches`, `MaxDeletes`, `MaxClock` bound the environment,
  never the program; `MaxPolls` and `MaxAdvances` bound loops of the program
  whose rounds are alike.

Deadlock is checked in every run.

### Fairness
Weak fairness of threads: a worker or request thread that can take its next
step does (operating-system scheduling), a build thread goes on or ends, the
sweeper, a loop around `sleep`, wakes up again and again.  No fairness is given
to clients, clock, restarts, rivals, the file system or spurious wake-ups.
`JobPool` asks for strong fairness of `Start`, because a waiting job may be
passed over while the pool is full; the queue grants it since every running job
ends.  `EveryAcceptedJobStarts` holds for finitely many arrivals: there is no
ageing in the code, and an endless stream of cheap jobs would starve a dear one.
The modules of `components` state safety only and assume no fairness.

## 5. What is proved

Every safety property that a passing run checks is also a theorem, for every value
of the constants, but for `LoopsAreTold`.  (`ComponentsTypeOK` joins the type
invariants of eight modules, of which that of `CircularDependencies` is not proved
and the others are, each in its module.)  The proofs are in

| Module | Proves about |
|---|---|
| `AnalysisQueueProofs` | `AnalysisQueue`, and that it implements `JobPool` |
| `AnalysisJobsProofs` | `AnalysisJobs`, and that it drives the queue |
| `ProjectRuntimesProofs` | `ProjectRuntimes` |
| `SymbolIndexProofs` | `SymbolIndex` |
| `MutationPathProofs` | `MutationPath`, `EditTransaction` |
| `SessionProofs` | `SessionStore`, `LspSession`, `Coordination` |
| `ArtifactStoreProofs` | `ArtifactStore` |
| `SequenceLemmas` | what insertion, removal, `Dropping` and concatenation do to a sequence |

Each has the inductive invariants, one lemma per action or per conjunct, and the
theorems that follow.  They rest on the named assumptions of the modules alone,
which say that the constants are sets or numbers of their kind, that "none" is not
one of the things it stands in for, and that a set something is chosen from is not
empty.  Whatever else a theorem needs is a hypothesis in its statement, explained
below.  Every inductive invariant was checked with TLC before it was proved.  The
types are part of each invariant: a `...TypeCorrect` theorem per module says that
the state has them.

| Theorem | States |
|---|---|
| `BudgetHolds`, `WakeupsAreNotLost`, `JobsAreInOnePlace`, `QueueIsOrdered`, `CountersAreExact` | the safety invariants of the `queue` run |
| `ImplementsPoolSafety` | every step of the queue is a step or a stutter of `JobPool` |
| `ResultsAreOfCompletedJobs` | `ResultMeansCompleted` |
| `NoJobIsAbandoned` | `NoAbandonedJob`, under the three conditions of its run |
| `CancelledJobsNeverRun`, `ResultsAreExact` | `CancelledWhileQueuedNeverRuns`, `ResultIffReportCompleted`, while records stay |
| `EnoughRoomSuffices` | the same two, of constants under which records do stay |
| `DrivesTheQueue` | every step of the threads is one of the queue, a stutter of it, or a restart |
| `NobodyUsesAShutDownRuntime`, `OneRuntimePerProject` | `NoUseAfterShutdown`, `InUseIsCached` |
| `SessionsKeepTheirRuntime` | `SessionKeepsItsRuntime`, without job workers |
| `RowsMatchDisk` | `IndexMatchesDisk` |
| `WriterRemembered`, `RowsForward`, `FencedReads` | `NewestRemembered`, `RowsMoveForward`, `FencedReadIsOneGeneration` |
| `WholeUndoneOrTold`, `EditorsWritesSurvive` | `AllOrNothingOrTold`, `GuardedWritesSurvive` |
| `EvidenceNotSpent`, `LedgerTruthful` | `NoSpentEvidence`, `LedgerTellsTheTruth` |
| `HeadersHonoured`, `DeletesLast`, `ChoiceSurvives` | `HeaderIsHonoured`, `DeletedStaysDeleted`, `ChosenProjectSurvives` |
| `AnswersAboutTheText`, `NotesTrue` | `AnswersAreAboutTheTextRead`, `NotesMatchServer` |
| `HandedOutTruly`, `NewestKept` | `HandedOutWasThere`, `NewestAreKept` |
| `SecondClaimantTold`, `EndedStayEnded` | `SecondClaimantIsTold`, `EndedClaimsStayEnded` |

The arguments, and what each invariant adds to the property it is for:

- *Queue.*  `EnqueueShape` and `TakeShape` turn the two actions that touch the
  list into statements about positions.  The wake-up invariant is inductive by
  itself, since whoever makes a job startable notifies all.  "In one place" is
  not: a worker could take a job that arrived again, so its invariant adds that
  what is queued or held is in `arrived`, without repetition.  The order needs
  the position of each queued job in `arrived` besides.  The counters need "in
  one place" too: a job queued twice would be added twice and taken off once.
  Their sums are folds over sets, about which `SumOfOneMore` and `SumOfOneLess`
  say all that is used: the function behind the fold exists on the subsets of a
  finite set, does not depend on the larger set it was defined for, and does not
  depend on which element goes first, each shown of a smallest set that would be
  an exception.  The refinement rests on all these: a job taken is in no other
  place, hence a step of the pool.
- *Jobs.*  Three invariants, one inside the other.  `Inv` needs nothing of the
  environment: a job is in the queue or with one thread in charge (`Placed`),
  which has the task such a thread can have (`TasksFit`), and a record that says
  "completed" belongs to a job nobody will write about any more but a
  cancellation, which leaves it (`CompletedIsOver`); so only a completed record
  has a result (`Honest`), wherever the record is: on a disk, in the map, in a
  thread's copy.  `HomeInv` is for the store in the directory it started with: a
  record that is still active is repaired at startup, or somebody is responsible
  for it, and who is about to let go of a job has settled its record
  (`Answered`, `Concluded`).  `KeptInv` is for records that stay: a job queued or
  held has a record (`Recorded`), a worker that has read a cancellation has read
  the file (`CancelSeen`), an empty payload means that the file says "cancelled"
  (`EmptyIsCancelled`), and a job cancelled in the queue stays so (`DroppedStays`).
  The conditions are what the code needs.  `[]AtHome`, because a project switch
  moves the store under the feet of the threads (`WithoutSwitchesAtHome` says that
  it holds where nobody switches).  `RecordsStay`, because a record that is
  evicted or expires takes its cancellation along.  That writes succeed, because
  `patch_job_file` ignores the error of the last write.  That jobs are of the scope
  startup repairs, which `jobs_startup_scope` shows to be needed.
  `EnoughRoomSuffices` replaces the conditions on the behaviour by
  conditions on the constants: `RoomInv` says that the order of the store names
  each created job once, so that it never outgrows `MaxJobs`.
- *Runtimes* (`Inv`).  It is an account of every reference.  What a thread has at
  each step of its request (`ThreadsFit`) is of its scope (`FiledUnderScope`); a
  runtime that is referred to was taken out of its ticket (`HeldIsTaken`); one
  about to be put in the cache or to be shut down is in nobody else's hands
  (`InstalledOnce`, `JunkIsLoose`); one that was shut down in nobody's at all
  (`StoppedIsFree`); and one that is lent or active is the cached one, but for
  those of deleted directories (`LentIsCached`).  `SessionsKeepTheirRuntime` needs
  that no job worker takes part, since it has no session store and may evict what
  a session has (`runtime_worker_evicts`); without it, every eviction passes the
  runtimes of the bound sessions over (`BoundSessions`).
- *Symbol index* (`IndexInv`, `MatchInv`).  A commit is newer than the row it
  replaces because the tracker's entry, which it must be newer than, is at least
  the row's writer (`NewestRemembered`).  An entry is pruned only when no older
  ticket is in flight, so that is kept if tickets in flight are those of the
  calls that work, each of its own (`TicketsInFlight`), if a call that announced
  its files is remembered for them (`AnnouncedRemembered`), if the latest
  announcement bounds all (`LatestIsLatest`, for the bulk rebuild), and if a
  text is read before its time (`TextBeforeTime`).  No row is from a ticket that
  has not committed (`WritesFollowCommits`).  The fence needs that a
  generation not yet counted holds the lock (`FenceSeesCommits`).
  That rows match the disk at rest needs to say of each file who will still look
  at it.  A caller's outdated reading is overtaken: the watcher has the change
  still to handle, handles it with a newer ticket, or a newer ticket was
  announced for the file (`ReadingsHold`).  The watcher's own reading is what the
  disk holds, or the file has changed again (`WatcherReads`).  What a refresh
  compares with is the row it may overwrite (`KnownRows`).  So each row is the
  file, is awaited or being handled, or a commit gave way (`RowsHold`).
- *Edits* (`EditInv`).  Where the phase is in the list of files (`Past`) tells
  which files still are as captured (`BackupsStand`), which have the edit
  (`EditedSoFar`) and which the rollback has put back (`RestoredIsBack`).  For
  the editor's writes: content of the editor that no write outside the window
  explains is still to be captured, is what was captured, or will be found by the
  verification (`ForeignIsKnown`), and a text about to be written keeps it
  (`TextIsKnown`).
- *Mutations* (`MutationInv`).  The rows of an operation are given by the step
  its call is at (`RowsFitCalls`); evidence in force is younger than every
  answered mutation (`EvidenceIsYoung`).
- *Sessions* (`SessionInv`).  An id that has a tombstone or a confirmed choice was
  sent (`KnownIdsWereSent`); a live id beside its tombstone was overtaken
  (`TombstonesHold`); what `initialize` is about to bind has at most its rank, and
  what a tool is about to journal is an explicit choice (`EntriesByStep`); two
  requests that write one session are noted (`CrowdsAreNoted`); and a confirmed
  choice is in the journal, in every journal write that `initialize` has under way,
  and in the map while nobody writes (`ChoiceIsKept`).
- *Language server* (`LspInv`).  The last text on its way to the server, or else
  the one it holds, is the one noted (`NotesCatchUp`); the text a call reads is
  the one noted when it asks (`TextIsNoted`); an answer that carries the call's
  id, queued or to be given, is about that text (`AnswerIsComing`), since ids are
  not used twice (`IdsInUse`).
- *Artifacts* (`ArtifactInv`).  An invariant for each step of a call (`CallInv`)
  says what it has seen and whether a purge overlapped it; the three maps agree
  but for those in between (`MapsAgree`).  What was evicted had expired or had a
  cap of newer ones (`OutlivedOnly`), and the directory holds at most the cap and
  one for each store that has not pruned yet (`CapByStores`), which is the cap
  when nobody works.
- *Claims* (`CoordinationInv`).  No call prunes by a clock ahead of time
  (`ClocksReadArePast`), and the row of a session whose claim goes on holds only
  files it claimed since its claim last ended (`RowsAreHeld`): a row that a claim
  reads after pruning had not ended when that claim read the clock, so by
  `GoesOn` it goes on.  `SecondClaimantIsTold` is inductive with the types:
  whoever did not just claim holds nothing new and forgets nothing
  (`HoldersRemember`), and a claim is told of all by a clock read after its wait
  (`ClaimantIsTold`), however old the one it pruned by.

What the proofs found in the models, and what was changed for it:

- `IndexMatchesDisk` excepted every file where a commit had ever given way to a
  newer ticket, even one that had long landed and made the row right: the property
  was weaker than the code.  It now excepts a file only while no ticket as new as
  the one given way to has written the row or compared it (`seenBy`); the proof is
  of this form.
- `ArtifactStore`: an upsert puts an analysis back in the first map after the
  maps were cleared under it, which three threads of one process are needed to
  hand out: the exception of `HandedOutWasThere` did not cover it, and the run's
  instance did not reach it.  `Amend` now notes it in `overlapped`; TLC shows the
  counterexample without that on the larger instance.
- `SymbolIndex`: `Leave` took the tracker's lock for a commit that wrote nothing,
  although the code drops it there; it no longer does.
- `Dropping` was recursive; it is now a function of how many places stay up to
  each one, and `Prune`, `Forgotten`, `Touched` and the eviction are stated on it.
- `AnalysisJobs` says of its constants what its definitions took for granted: that
  workers and clients are different threads, that no record is `None`, that the
  constants of the queue are as the queue assumes.
- `LedgerTellsTheTruth` is stated over positions in the log instead of a filtered
  copy (the same property), `ToRestore` without overlapping cases, and
  the sets of non-empty sets with their parentheses.
- Type invariants say now that calls and records are functions and records, and
  the assumptions that the sets the initial states choose from are not empty.

Only model-checked, and why:

- liveness and fairness (`EveryAcceptedJobStarts`, `EveryJobSettles`,
  `LeasesAreReleased`), and with them the fairness part of the two refinements
  (`ImplementsPool`, `ImplementsQueue`): the prover has no `ENABLED`;
- `LoopsAreTold` and the types of `CircularDependencies`: they speak of what five
  nested folds and a sort compute, with a budget threaded through them, for which
  every fold needs an induction over its data that the library's theorems cannot
  be used for; the run enumerates the graphs instead;
- the counterexamples of section 4, which need one behaviour and not all.

Recursive operators are avoided in all modules, so that any of them can be
proved about.

## 6. Not modelled

The components marked "not modelled" in `PROJECT.json`, with the reason of each:
parsing, search, embeddings, the tool tables, telemetry and the command line have
no protocol to check; memory files, the rate limit and the health reports are
single reads, writes and comparisons behind one lock, where a property would
restate the line it is about.  (The rate limit is documented as a number of
calls per minute over a window; the counter it compares is that of the session's
whole life.  There is nothing to interleave in that, so it is noted here and no
run was made of it.)

Left out inside the modelled components:
- metrics, logging and file formats; scanning half-written record files (a
  record is replaced by rename, so a reader sees one version or the other);
- runtimes: what a build does after it has the lease, the health payloads, the
  watcher and the language servers of a runtime but for their shutdown;
- symbol index: the sharing of an analysis between callers, whose followers wait
  without end if the leader panics; the failure table; the recovery of a
  corrupt database; the rows of symbols, imports and calls;
- language servers: the requests that take the same path as references, requests
  of the server, and pipes that fill in both directions while the pool's mutex is
  held (a channel here holds any number of messages);
- sessions: event streams and the pins of requests, which `ProjectRuntimes` has;
- audit log: retention, queries, principals;
- graphs: ranking, impact and dead code, which are single passes over the graph.
