----------------------------- MODULE SymbolIndex -----------------------------
(***************************************************************************)
(* The symbol index of one project and its writers                         *)
(* (crates/codelens-engine/src/symbols/writer.rs, watcher.rs).  Every      *)
(* writer takes a numbered ticket, announces the files it is about to      *)
(* observe, reads them with no lock held, and commits under the lock of    *)
(* the mutation tracker only what no newer ticket has announced.  The      *)
(* tracker forgets an announcement once no older ticket is in flight.      *)
(* Meanwhile the files change on the disk, and the watcher turns every     *)
(* change into an event that it handles later.                             *)
(*                                                                         *)
(* A file is the version of its text and its modification time; parsing,   *)
(* hashing and the sharing of one analysis between callers that read the   *)
(* same version are functions of the text and are left out.                *)
(***************************************************************************)
EXTENDS Integers, FiniteSets, FiniteSetsExt

CONSTANTS
  Paths,           \* the source files of the project
  Callers,         \* the request threads that index, refresh or read symbols
  Watcher,         \* the thread of the file watcher
  Nobody,          \* no thread
  IndexRetries,    \* how often the watcher repeats a batch that met a lock
  BulkOverhang,    \* the 512 rows of should_bulk_rebuild_symbol_index
  Budgets          \* bounds, one is chosen at the start: how many changes of the
                   \* files, calls, failed transactions and fenced reads may happen

ASSUME IndexAssumption ==
  /\ Watcher \notin Callers
  /\ Nobody \notin Callers \cup {Watcher}
  /\ IsFiniteSet(Paths)
  /\ {IndexRetries, BulkOverhang} \subseteq Nat
  /\ Budgets \subseteq [changes : Nat, calls : Nat, faults : Nat, reads : Nat]

VARIABLES
  disk,            \* the file each path names
  events,          \* the paths with a change the watcher has not taken yet
  batch,           \* what the watcher still has to do of the events it took
  rows,            \* the files table
  rowGen,          \* history: the ticket that last wrote or deleted the row
  nextGeneration,  \* the last number given to a ticket
  inFlight,        \* the tickets not dropped yet
  observed,        \* MutationState.paths; generation 0 is no entry
  latestObserved,  \* latest_observation
  committed,       \* committed_generation
  trackerLock,     \* who holds the tracker's lock from a commit to its count
  task,            \* the call each thread is in
  seenBy,          \* history: the ticket that last wrote the row or compared it with the file
  owed,            \* history: the newest ticket a commit of the row gave way to
  skipped,         \* history: files of the batches the watcher gave up
  reader,          \* a symbol-backed request under the generation fence
  lastVersion,     \* history: the newest version given to a file
  budget           \* what is left of the bounds

trackerVars == <<nextGeneration, inFlight, observed, latestObserved>>
storeVars == <<rows, rowGen, seenBy, owed>>
worldVars == <<disk, events, lastVersion>>
indexVars == <<trackerVars, storeVars, worldVars, batch, committed, trackerLock, task,
               skipped, reader, budget>>

Threads == Callers \cup {Watcher}
Absent == [text |-> 0, mtime |-> 0]
Unread == -1
NoEntry == [gen |-> 0, kind |-> "none"]
NoBatch == [changed |-> {}, removed |-> {}, tries |-> 0]

NoTask == [op |-> "none", at |-> "idle", gen |-> 0, paths |-> {},
           text |-> [f \in Paths |-> Unread], mtime |-> [f \in Paths |-> Unread],
           known |-> [f \in Paths |-> Absent], bulk |-> FALSE, overlap |-> FALSE]

FileStates == [text : Nat, mtime : Nat]

Spend(what) == budget[what] > 0 /\ budget' = [budget EXCEPT ![what] = @ - 1]

IndexOps == {"none", "index", "remove", "refresh", "ensure"}
TaskSteps == {"idle", "begun", "collected", "survey", "read", "stat", "overlap", "fast", "text",
              "commit", "count", "finish", "failed", "broken"}

Tasks == [op : IndexOps, at : TaskSteps, gen : 0..nextGeneration, paths : SUBSET Paths,
          text : [Paths -> Nat \cup {Unread}], mtime : [Paths -> Nat \cup {Unread}],
          known : [Paths -> FileStates], bulk : BOOLEAN, overlap : BOOLEAN]

NoRead == [at |-> "idle", before |-> 0, rerun |-> FALSE, first |-> 0, second |-> 0,
           path |-> CHOOSE f \in Paths : TRUE, uncounted |-> FALSE]

Reads == [at : {"idle", "first", "second", "compare", "accepted", "changed"},
          before : Nat, rerun : BOOLEAN, first : Nat, second : Nat,
          path : Paths \cup {NoRead.path}, uncounted : BOOLEAN]

(* Every variable holds a value of its kind. *)
IndexTypeOK ==
  /\ disk \in [Paths -> FileStates]
  /\ rows \in [Paths -> FileStates]
  /\ events \cup skipped \subseteq Paths
  /\ batch \in [changed : SUBSET Paths, removed : SUBSET Paths, tries : 0..IndexRetries]
  /\ rowGen \in [Paths -> 0..nextGeneration]
  /\ seenBy \in [Paths -> 0..nextGeneration]
  /\ owed \in [Paths -> 0..nextGeneration]
  /\ nextGeneration \in Nat
  /\ inFlight \in SUBSET (1..nextGeneration)
  /\ observed \in [Paths -> [gen : 0..nextGeneration, kind : {"none", "Indexed", "Tombstone"}]]
  /\ latestObserved \in 0..nextGeneration
  /\ committed \in Nat
  /\ trackerLock \in Threads \cup {Nobody}
  /\ reader \in Reads /\ (reader.at # "idle" => reader.path \in Paths)
  /\ lastVersion \in Nat
  /\ budget \in [changes : Nat, calls : Nat, faults : Nat, reads : Nat]
  /\ task \in [Threads -> Tasks]

IndexInit ==
  /\ disk = [f \in Paths |-> [text |-> 1, mtime |-> 1]]
  /\ rows = disk
  /\ rowGen = [f \in Paths |-> 0]
  /\ seenBy = [f \in Paths |-> 0]
  /\ owed = [f \in Paths |-> 0]
  /\ events = {} /\ skipped = {} /\ batch = NoBatch
  /\ nextGeneration = 0 /\ inFlight = {} /\ latestObserved = 0 /\ committed = 0
  /\ observed = [f \in Paths |-> NoEntry]
  /\ trackerLock = Nobody
  /\ task = [p \in Threads |-> NoTask]
  /\ reader = NoRead
  /\ lastVersion = 1
  /\ budget \in Budgets
-----------------------------------------------------------------------------
(* The tracker *)

ObservingAlways(entries, S, g, kind) ==                            \* mutant
  [f \in Paths |-> IF f \in S THEN [gen |-> g, kind |-> kind] ELSE entries[f]]

Observing(entries, S, g, kind) ==
  [f \in Paths |-> IF f \in S /\ entries[f].gen <= g THEN [gen |-> g, kind |-> kind]
                                                     ELSE entries[f]]

AllowsAlways(entries, g, f) == TRUE                                \* mutant

Allows(entries, g, f) == entries[f].gen <= g

Latest(g) == IF g > latestObserved THEN g ELSE latestObserved

(* finish: only what an older ticket in flight could still overwrite is kept *)
PrunedTooFar(entries, flight) ==                                   \* mutant
  [f \in Paths |-> IF flight # {} /\ Max(flight) < entries[f].gen THEN entries[f] ELSE NoEntry]

Pruned(entries, flight) ==
  [f \in Paths |-> IF flight # {} /\ Min(flight) < entries[f].gen THEN entries[f] ELSE NoEntry]

Start(p, op, S) ==
  /\ task[p].at = "idle"
  /\ trackerLock = Nobody
  /\ nextGeneration' = nextGeneration + 1
  /\ inFlight' = inFlight \cup {nextGeneration + 1}
  /\ task' = [task EXCEPT ![p] = [NoTask EXCEPT !.op = op, !.at = "begun",
                                                !.gen = nextGeneration + 1, !.paths = S]]

Goto(p, place) == task' = [task EXCEPT ![p].at = place]

LeaveUncounted(p, wrote) ==                                        \* mutant
  Goto(p, "finish") /\ UNCHANGED trackerLock

(* the commit of p changed the database: the lock stays held until it is counted *)
Leave(p, wrote) ==
  /\ Goto(p, IF wrote THEN "count" ELSE "finish")
  /\ trackerLock' = IF wrote THEN p ELSE trackerLock
-----------------------------------------------------------------------------
(* The disk.  A write gives a file a new text, and a new time unless it falls
   into the same millisecond; a checkout may renew the time alone. *)
ChangeFile(f) ==
  /\ Spend("changes")
  /\ lastVersion' = lastVersion + 1
  /\ LET v == lastVersion + 1 IN
       disk' \in {[disk EXCEPT ![f] = new] :
                  new \in {[text |-> v, mtime |-> v]} \cup
                          (IF disk[f] = Absent THEN {}
                           ELSE {Absent, [disk[f] EXCEPT !.text = v], [disk[f] EXCEPT !.mtime = v]})}
  /\ events' = events \cup {f}
  /\ UNCHANGED <<trackerVars, storeVars, batch, committed, trackerLock, task, skipped, reader>>

(* The debounced callback of the watcher: is_file decides what happened to each path. *)
TakeEvents ==
  /\ events # {}
  /\ batch = NoBatch /\ task[Watcher].at = "idle"
  /\ batch' = [changed |-> {f \in events : disk[f] # Absent},
               removed |-> {f \in events : disk[f] = Absent}, tries |-> 0]
  /\ events' = {}
  /\ UNCHANGED <<trackerVars, storeVars, disk, lastVersion, committed, trackerLock, task, skipped, reader, budget>>

WatcherStart ==
  /\ \/ batch.changed # {} /\ Start(Watcher, "index", batch.changed)
     \/ batch.changed = {} /\ batch.removed # {} /\ Start(Watcher, "remove", batch.removed)
  /\ UNCHANGED <<observed, latestObserved, storeVars, worldVars, batch, committed, trackerLock, skipped, reader, budget>>

(* ensure_indexed of a symbol read, refresh_file after a mutation, refresh_all *)
CallStart(p) ==
  /\ Spend("calls")
  /\ \/ \E f \in Paths, op \in {"ensure", "index"} : Start(p, op, {f})
     \/ Start(p, "refresh", {})
  /\ UNCHANGED <<observed, latestObserved, storeVars, worldVars, batch, committed, trackerLock, skipped, reader>>

(* refresh_all walks the tree: its snapshot is the files it finds *)
Collect(p) ==
  /\ task[p].op = "refresh" /\ task[p].at = "begun"
  /\ task' = [task EXCEPT ![p].at = "collected", ![p].paths = {f \in Paths : disk[f] # Absent}]
  /\ UNCHANGED <<trackerVars, storeVars, worldVars, batch, committed, trackerLock, skipped, reader, budget>>

Observe(p) ==
  /\ task[p].at = (IF task[p].op = "refresh" THEN "collected" ELSE "begun")
  /\ trackerLock = Nobody
  /\ observed' = Observing(observed, task[p].paths, task[p].gen,
                           IF task[p].op = "remove" THEN "Tombstone" ELSE "Indexed")
  /\ latestObserved' = Latest(task[p].gen)
  /\ Goto(p, CASE task[p].op = "ensure" -> "stat" [] task[p].op = "remove" -> "commit"
               [] task[p].op = "refresh" -> "survey" [] OTHER -> "read")
  /\ UNCHANGED <<nextGeneration, inFlight, storeVars, worldVars, batch, committed, trackerLock, skipped, reader, budget>>

(* refresh_all: the statistics decide on a bulk rebuild, else the fingerprints
   of the rows are read.  The second half of the decision is left open. *)
Survey(p) ==
  /\ task[p].at = "survey"
  /\ LET indexed == {f \in Paths : rows[f] # Absent} IN
     \E bulk \in {FALSE, Cardinality(indexed) > Cardinality(task[p].paths) + BulkOverhang} :
       task' = [task EXCEPT ![p].at = "read", ![p].bulk = bulk, ![p].known = IF bulk THEN @ ELSE rows]
  /\ UNCHANGED <<trackerVars, storeVars, worldVars, batch, committed, trackerLock, skipped, reader, budget>>

(* index_files and refresh_all read a file's text before its time; a file that
   is gone at either moment is left out *)
ReadFile(p, f) ==
  /\ task[p].at = "read" /\ f \in task[p].paths
  /\ \/ /\ task[p].text[f] = Unread
        /\ task' = [task EXCEPT ![p].text[f] = disk[f].text]
     \/ /\ task[p].text[f] \notin {Unread, 0} /\ task[p].mtime[f] = Unread
        /\ task' = [task EXCEPT ![p].text[f] = IF disk[f] = Absent THEN 0 ELSE @,
                                ![p].mtime[f] = disk[f].mtime]
  /\ UNCHANGED <<trackerVars, storeVars, worldVars, batch, committed, trackerLock, skipped, reader, budget>>

-----------------------------------------------------------------------------
(* The commits: one transaction each, under the tracker's lock *)

Found(p, f) == [text |-> task[p].text[f], mtime |-> task[p].mtime[f]]

Analyzed(p) == {f \in task[p].paths : task[p].text[f] # 0}

AllRead(p) ==
  task[p].at = "read" /\ \A f \in task[p].paths : task[p].text[f] = 0 \/ task[p].mtime[f] # Unread

(* history: the files of `settled` now are what ticket g saw, a commit of those of
   `blocked` was given up for a newer ticket *)
Settle(g, settled, blocked) ==
  /\ seenBy' = [f \in Paths |-> IF f \in settled THEN g ELSE seenBy[f]]
  /\ owed' = [f \in Paths |-> IF f \in blocked /\ owed[f] < observed[f].gen
                              THEN observed[f].gen ELSE owed[f]]

Store(g, S, new) ==
  /\ rows' = [f \in Paths |-> IF f \in S THEN new[f] ELSE rows[f]]
  /\ rowGen' = [f \in Paths |-> IF f \in S THEN g ELSE rowGen[f]]

(* index_files: with nothing readable it returns before the commit; a row that
   is the file already is not written *)
CommitIndex(p) ==
  LET g == task[p].gen
      allowed == {f \in Analyzed(p) : Allows(observed, g, f)}
      stale == {f \in allowed : rows[f] # Found(p, f)} IN
  /\ task[p].op = "index" /\ AllRead(p)
  /\ Analyzed(p) = {} \/ trackerLock = Nobody
  /\ Store(g, stale, [f \in stale |-> Found(p, f)])
  /\ Settle(g, allowed, Analyzed(p) \ allowed)
  /\ Leave(p, stale # {})
  /\ UNCHANGED <<trackerVars, worldVars, batch, committed, skipped, reader, budget>>

CommitRemove(p) ==
  LET g == task[p].gen
      allowed == {f \in task[p].paths : Allows(observed, g, f)}
      existing == {f \in allowed : rows[f] # Absent} IN
  /\ task[p].op = "remove" /\ task[p].at = "commit"
  /\ trackerLock = Nobody
  /\ Store(g, existing, [f \in existing |-> Absent])
  /\ Settle(g, allowed, task[p].paths \ allowed)
  /\ Leave(p, existing # {})
  /\ UNCHANGED <<trackerVars, worldVars, batch, committed, skipped, reader, budget>>

(* What refresh_all's ticket announces at its commit: the files its snapshot
   does not have are gone, as far as no newer ticket says otherwise. *)
TombstonedBySnapshot(p) ==
  LET g == task[p].gen
      missing == Paths \ task[p].paths
      older == Observing(observed, {f \in missing : observed[f].gen \in 1..g - 1}, g, "Tombstone")
  IN  Observing(older, {f \in missing : rows[f] # Absent /\ Allows(older, g, f)}, g, "Tombstone")

(* A file whose text is the row's gets its time renewed, any other is written
   whole; a bulk rebuild, only with every file analysed and nothing announced
   since, clears the table first. *)
CommitRefresh(p) ==
  LET g == task[p].gen
      known == task[p].known
      bulk == task[p].bulk /\ Analyzed(p) = task[p].paths /\ latestObserved <= g
      seen == TombstonedBySnapshot(p)
      allowed == {f \in Paths : Allows(seen, g, f)}
      retimed == {f \in Analyzed(p) : known[f].text = Found(p, f).text /\ known[f] # Found(p, f)}
      parsed == {f \in Analyzed(p) : known[f].text # Found(p, f).text}
      missing == {f \in Paths \ task[p].paths : rows[f] # Absent}
      upserts == {f \in parsed \cap allowed : bulk \/ rows[f] # Found(p, f)}
      retimes == {f \in retimed \cap allowed : rows[f].text = Found(p, f).text}
      deletes == IF bulk THEN missing ELSE missing \cap allowed
      written == upserts \cup retimes \cup deletes
  IN
  /\ task[p].op = "refresh" /\ AllRead(p)
  /\ trackerLock = Nobody
  /\ observed' = seen /\ latestObserved' = Latest(g)
  /\ Store(g, written, [f \in written |-> IF f \in deletes THEN Absent ELSE Found(p, f)])
  /\ Settle(g, (Analyzed(p) \cup (Paths \ task[p].paths)) \cap allowed,
               (Analyzed(p) \cup missing) \ allowed)
  /\ Leave(p, written # {})
  /\ UNCHANGED <<nextGeneration, inFlight, worldVars, batch, committed, skipped, reader, budget>>

(* The database stays locked through every attempt of with_transaction, or the
   transaction fails for another reason, which the watcher does not retry. *)
CommitFails(p) ==
  /\ Spend("faults")
  /\ trackerLock = Nobody
  /\ \/ task[p].at = "commit"
     \/ AllRead(p) /\ (task[p].op = "refresh" \/ Analyzed(p) # {})
  /\ IF task[p].op = "refresh"
     THEN observed' = TombstonedBySnapshot(p) /\ latestObserved' = Latest(task[p].gen)
     ELSE UNCHANGED <<observed, latestObserved>>
  /\ \E how \in {"failed", "broken"} : Goto(p, how)
  /\ UNCHANGED <<nextGeneration, inFlight, storeVars, worldVars, batch, committed, trackerLock, skipped, reader>>

(* record_commit: the generation the readers watch moves after the commit *)
RecordCommit(p) ==
  /\ task[p].at = "count"
  /\ committed' = committed + 1
  /\ trackerLock' = Nobody
  /\ Goto(p, "finish")
  /\ UNCHANGED <<trackerVars, storeVars, worldVars, batch, skipped, reader, budget>>
-----------------------------------------------------------------------------
(* ensure_indexed: the time first, then, when an older ticket is in flight,
   the text; the row is the answer if both agree with it *)

TheFile(p) == CHOOSE f \in task[p].paths : TRUE

EnsureStat(p) ==
  /\ task[p].at = "stat"
  /\ LET f == TheFile(p) IN
       task' = [task EXCEPT ![p].at = IF disk[f] = Absent THEN "finish" ELSE "overlap",
                            ![p].mtime[f] = disk[f].mtime]
  /\ UNCHANGED <<trackerVars, storeVars, worldVars, batch, committed, trackerLock, skipped, reader, budget>>

EnsureOverlap(p) ==
  LET older == \E h \in inFlight : h < task[p].gen IN
  /\ task[p].at = "overlap"
  /\ trackerLock = Nobody
  /\ task' = [task EXCEPT ![p].at = IF older THEN "text" ELSE "fast", ![p].overlap = older]
  /\ UNCHANGED <<trackerVars, storeVars, worldVars, batch, committed, trackerLock, skipped, reader, budget>>

EnsureFast(p) ==
  LET f == TheFile(p)
      g == task[p].gen
      hit == /\ Allows(observed, g, f)
             /\ rows[f].mtime = task[p].mtime[f]
             /\ task[p].overlap => rows[f].text = task[p].text[f] IN
  /\ task[p].at = "fast"
  /\ trackerLock = Nobody
  /\ Settle(g, IF hit /\ task[p].overlap THEN {f} ELSE {}, {})
  /\ Goto(p, IF hit THEN "finish" ELSE IF task[p].overlap THEN "commit" ELSE "text")
  /\ UNCHANGED <<trackerVars, rows, rowGen, worldVars, batch, committed, trackerLock, skipped, reader, budget>>

EnsureText(p) ==
  /\ task[p].at = "text"
  /\ LET f == TheFile(p) IN
       task' = [task EXCEPT ![p].text[f] = disk[f].text,
                            ![p].at = IF disk[f] = Absent THEN "finish"
                                      ELSE IF task[p].overlap THEN "fast" ELSE "commit"]
  /\ UNCHANGED <<trackerVars, storeVars, worldVars, batch, committed, trackerLock, skipped, reader, budget>>

(* commit_ensure_analysis: behind a newer ticket the answer is the row as it is,
   or nothing if the newer ticket is a removal *)
CommitEnsure(p) ==
  LET f == TheFile(p)
      ok == Allows(observed, task[p].gen, f) IN
  /\ task[p].op = "ensure" /\ task[p].at = "commit"
  /\ trackerLock = Nobody
  /\ Store(task[p].gen, IF ok THEN {f} ELSE {}, [x \in {f} |-> Found(p, f)])
  /\ Settle(task[p].gen, IF ok THEN {f} ELSE {}, IF ok THEN {} ELSE {f})
  /\ Leave(p, ok)
  /\ UNCHANGED <<trackerVars, worldVars, batch, committed, skipped, reader, budget>>
-----------------------------------------------------------------------------
(* The ticket is dropped when the operation returns; the watcher goes on with
   its batch, repeats what met a lock, or gives it up, the removals with it. *)
Finish(p) ==
  LET locked == task[p].at = "failed" /\ task[p].op = "index"
      again == locked /\ batch.tries < IndexRetries
      over == task[p].op = "remove" \/ (locked /\ ~again)
      left == IF over THEN batch.changed \cup batch.removed ELSE batch.changed IN
  /\ task[p].at \in {"finish", "failed", "broken"}
  /\ trackerLock = Nobody
  /\ inFlight' = inFlight \ {task[p].gen}
  /\ observed' = Pruned(observed, inFlight')
  /\ task' = [task EXCEPT ![p] = NoTask]
  /\ IF p # Watcher THEN UNCHANGED <<batch, skipped>>
     ELSE /\ batch' = IF again THEN [batch EXCEPT !.tries = @ + 1]
                      ELSE IF over THEN NoBatch
                      ELSE [NoBatch EXCEPT !.removed = batch.removed]
          /\ skipped' = IF again \/ task[p].at = "finish" THEN skipped ELSE skipped \cup left
  /\ UNCHANGED <<nextGeneration, latestObserved, storeVars, worldVars, committed, trackerLock, reader, budget>>

(* run_fenced_read: the committed generation is captured, the handler reads the
   database through a connection of its own, statement by statement, and the
   generation is compared.  A read that raced a commit runs once more; the
   second race is the caller's to retry. *)
FenceCapture ==
  \/ /\ reader.at = "idle"
     /\ Spend("reads")
     /\ \E f \in Paths : reader' = [NoRead EXCEPT !.at = "first", !.before = committed, !.path = f]
  \/ /\ reader.at = "changed" /\ ~reader.rerun
     /\ reader' = [reader EXCEPT !.at = "first", !.before = committed, !.rerun = TRUE]
     /\ UNCHANGED budget

FencedQuery ==
  /\ reader.at \in {"first", "second"}
  /\ reader' = [reader EXCEPT ![reader.at] = rows[reader.path].text,
                              !.at = IF reader.at = "first" THEN "second" ELSE "compare"]
  /\ UNCHANGED budget

FenceFinish ==
  /\ reader.at = "compare"
  /\ reader' = [reader EXCEPT !.at = IF committed = reader.before THEN "accepted" ELSE "changed",
                              !.uncounted = trackerLock # Nobody]
  /\ UNCHANGED budget

FencedRead ==
  /\ FenceCapture \/ FencedQuery \/ FenceFinish
  /\ UNCHANGED <<trackerVars, storeVars, worldVars, batch, committed, trackerLock, task, skipped>>

(* between two calls a server may wait for ever *)
IndexAtRest ==
  /\ \A p \in Threads : task[p].at = "idle"
  /\ batch = NoBatch
  /\ reader.at \in {"idle", "accepted", "changed"}
  /\ UNCHANGED indexVars

IndexStep(p) ==
  \/ Observe(p) \/ Collect(p) \/ Survey(p) \/ \E f \in Paths : ReadFile(p, f)
  \/ CommitIndex(p) \/ CommitRemove(p) \/ CommitRefresh(p) \/ CommitFails(p) \/ RecordCommit(p)
  \/ EnsureStat(p) \/ EnsureOverlap(p) \/ EnsureFast(p) \/ EnsureText(p) \/ CommitEnsure(p)
  \/ Finish(p)

IndexNext ==
  \/ \E f \in Paths : ChangeFile(f)
  \/ TakeEvents \/ WatcherStart
  \/ \E p \in Callers : CallStart(p)
  \/ \E p \in Threads : IndexStep(p)
  \/ FencedRead
  \/ IndexAtRest

IndexSpec == IndexInit /\ [][IndexNext]_indexVars
-----------------------------------------------------------------------------
(* A row is only ever replaced, retimed or deleted by a ticket newer than the
   one that wrote it last, although the tracker forgets what it announced. *)
RowsMoveForward ==
  [][\A f \in Paths : rows'[f] # rows[f] => rowGen[f] < rowGen'[f]]_indexVars

IndexQuiet == events = {} /\ batch = NoBatch /\ inFlight = {}

(* Once every change is handled and no writer is left, each row is the file on
   the disk.  Two kinds of files are excepted, as the code leaves them: those
   of a batch the watcher gave up, and those where a commit gave way to a newer
   ticket that neither wrote the row nor compared it with the file. *)
IndexMatchesDisk ==
  IndexQuiet => \A f \in Paths \ skipped : rows[f] = disk[f] \/ seenBy[f] < owed[f]

(* A payload the fence lets through shows rows of one generation, or of two only
   if the commit between them was not counted yet when the read was compared:
   the count follows the commit. *)
FencedReadIsOneGeneration ==
  reader.at = "accepted" => reader.first = reader.second \/ reader.uncounted

(* What keeps the rows moving forward: as long as an older ticket is in flight,
   the tracker remembers the newest writer of a row.  Inductive. *)
NewestRemembered ==
  \A f \in Paths : \A g \in inFlight : g < rowGen[f] => rowGen[f] <= observed[f].gen
=============================================================================
