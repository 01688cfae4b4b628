---------------------------- MODULE AnalysisJobs ----------------------------
(***************************************************************************)
(* The life of an analysis job: request threads create, poll and cancel    *)
(* it, a worker of the queue runs it, and all of them keep its durable     *)
(* record (crates/codelens-mcp/src/job_store.rs) by reading it, changing a *)
(* copy and writing the copy back.  No lock is held between the read and   *)
(* the write, so a call of the store is several steps of its thread:       *)
(*   load  prune, then read the file, or the map when there is no file     *)
(*   memo  put the copy in the map and decide                              *)
(*   write rename the changed copy over the file                           *)
(*   save  put the changed copy in the map                                 *)
(* A restart loses the queue, the map and every thread; startup repairs    *)
(* the records it recognises.                                              *)
(***************************************************************************)
EXTENDS Integers, Sequences, FiniteSets, SequencesExt, Sublists

CONSTANTS
  Jobs, NoJob, Workers, Cost, Parallelism, CostBudget, MaxPending, \* AnalysisQueue
  Clients,        \* request threads
  Projects, Home, \* project scopes, and the one the process starts in
  Scope,          \* project_scope of each job
  Heavy,          \* the jobs whose kind waits for memory (HEAVY_INDEX_KINDS)
  Reports,        \* the jobs whose kind and arguments store an analysis
  None,           \* no record
  MaxJobs,        \* MAX_ANALYSIS_JOBS
  MaxAttempts,    \* runs of a failing job, 3 in the code
  StaleAfter, Deadline, TTL, \* stale heartbeat, job deadline, age of removal
  DiskMayFail,    \* may a write of a record fail?
  MaxPolls,       \* bound: deferrals under memory pressure
  MaxAdvances,    \* bound: progress reports of one attempt
  MaxClock, MaxRestarts, MaxSwitches \* bounds of the environment

ASSUME JobsAssumption ==
  /\ Home \in Projects
  /\ Scope \in [Jobs -> Projects]
  /\ Heavy \subseteq Jobs
  /\ Reports \subseteq Jobs \ Heavy
  /\ Workers \cap Clients = {}
  /\ DiskMayFail \in BOOLEAN
  /\ MaxAttempts > 0
  /\ {MaxJobs, MaxAttempts, StaleAfter, Deadline, TTL, MaxPolls, MaxAdvances,
      MaxClock, MaxRestarts, MaxSwitches} \subseteq Nat

VARIABLES
  pending, pendingCost, activeJobs, activeCost, holding, asleep, arrived,
  disk,      \* the record files of each project's jobs directory
  mem,       \* AnalysisJobStore.jobs
  order,     \* AnalysisJobStore.order, oldest first
  jobsDir,   \* the project whose directory the store uses
  task,      \* what each thread is doing
  now,       \* the clock
  created,   \* history: ids given out
  inherited, \* history: active jobs whose heartbeat was fresh at the last start
  dropped,   \* history: jobs cancelled on disk while they were queued
  confirmed, \* history: jobs whose cancellation was answered
  restarts, switches

queueVars == <<pending, pendingCost, activeJobs, activeCost, holding, asleep, arrived>>
storeVars == <<disk, mem, order, jobsDir>>
history == <<created, inherited, dropped, confirmed>>
bounds == <<now, restarts, switches>>
vars == <<queueVars, storeVars, task, history, bounds>>

Queue == INSTANCE AnalysisQueue

ASSUME QueueOfJobs == Queue!QueueAssumption

Threads == Workers \cup Clients

Active == {"Queued", "Running"}
Terminal == {"Completed", "Cancelled", "Error"}

(* AnalysisJob: updated_at_ms and heartbeat_at_ms are always set together, and
   the deadline is a fixed time after created_at_ms.  "result" is analysis_id. *)
Record == [status : Active \cup Terminal, at : 0..MaxClock, born : 0..MaxClock,
           result : BOOLEAN]

ASSUME NoneIsNoRecord == None \notin Record

(* A worker looks at the record before each of these; a cancelled job ends. *)
Checks == {"dequeue", "begin", "poll", "check", "verdict", "publish"}
Reads == Checks \cup {"status", "advance", "retry"}
Updates == {"cancel", "refuse", "defer", "start", "progress", "deadline",
            "complete", "fail", "giveUp"}

Task ==
  [op : Reads \cup Updates \cup {"idle", "store", "work", "finish"},
   phase : {"load", "memo", "write", "save", "enqueue"},
   job : Jobs \cup {NoJob},
   copy : Record \cup {None},                \* the thread's copy of the record
   dir : Projects,                           \* where the copy was read
   tries : 0..MaxAttempts - 1,               \* attempts already failed
   left : 0..MaxPolls + MaxAdvances,         \* polls or reports the bound leaves
   payload : {"none", "empty", "full"}]      \* what the last attempt returned

Idle == [op |-> "idle", phase |-> "load", job |-> NoJob, copy |-> None,
         dir |-> Home, tries |-> 0, left |-> 0, payload |-> "none"]

TypeOK ==
  /\ disk \in [Projects -> [Jobs -> Record \cup {None}]]
  /\ mem \in [Jobs -> Record \cup {None}]
  /\ order \in Seq(Jobs)
  /\ jobsDir \in Projects
  /\ task \in [Threads -> Task]
  /\ now \in 0..MaxClock
  /\ inherited \cup dropped \cup confirmed \subseteq created /\ created \subseteq Jobs
  /\ restarts \in 0..MaxRestarts /\ switches \in 0..MaxSwitches
-----------------------------------------------------------------------------
(* The store. *)
Expired(r) == r # None /\ now - r.at > TTL

Cancelled(r) == r # None /\ r.status = "Cancelled"

Settled(r) == r = None \/ r.status \in Terminal

(* cleanup_stale_files *)
Fresh(files) == [j \in Jobs |-> IF Expired(files[j]) THEN None ELSE files[j]]

(* The jobs prune forgets: the expired ones of the map and then the oldest of
   the order beyond MaxJobs, whatever their status. *)
Forgotten(s, m) ==
  LET old  == {j \in Jobs : Expired(m[j])}
      rest == Dropping(s, old)
  IN old \cup {rest[i] : i \in 1..Len(rest) - MaxJobs}

(* prune, over an order s and a map m *)
Prune(s, m) ==
  LET gone == Forgotten(s, m) IN
  /\ disk' = [disk EXCEPT ![jobsDir] =
                [j \in Jobs |-> IF j \in gone THEN None ELSE Fresh(@)[j]]]
  /\ mem' = [j \in Jobs |-> IF j \in gone THEN None ELSE m[j]]
  /\ order' = Dropping(s, gone)

LatestMapFirst(files, m, j) ==                                     \* mutant
  IF m[j] # None THEN m[j] ELSE files[j]

(* latest_job: the file, else the map *)
Latest(files, m, j) == IF files[j] # None THEN files[j] ELSE m[j]
-----------------------------------------------------------------------------
(* What a thread does next.  The plural ones give the tasks that may follow. *)
Then(k, op) == [k EXCEPT !.op = op, !.phase = "load", !.copy = None, !.dir = Home]

(* Leaving the attempts and their bounds behind. *)
Onward(k, op, payload) == [Idle EXCEPT !.op = op, !.job = k.job, !.payload = payload]

Done(k) == IF k.op \in {"status", "cancel", "refuse", "store"} THEN Idle
           ELSE Onward(k, "finish", "none")

Failed(k) == Then(k, "retry")

(* The memory gate lets a heavy job pass, or defers it while the budget lasts. *)
Gate(k) ==
  {[Onward(k, "start", "none") EXCEPT !.left = MaxAdvances]} \cup
  (IF k.left > 0 THEN {Then([k EXCEPT !.left = @ - 1], "poll")} ELSE {})

(* advance_job_progress and checkpoint_embedding_job: a cancelled job ends its
   attempt, as an empty payload or as an error; one past its deadline is marked;
   a heartbeat may be too recent to be worth a write.  An error record stops
   the second one too, but only this worker writes it, and stops then. *)
Advance(k, r) ==
  IF r = None THEN {Failed(k)}
  ELSE IF Cancelled(r) THEN {Onward(k, "verdict", "empty"), Failed(k)}
  ELSE IF now >= r.born + Deadline THEN {Then(k, "deadline")}
  ELSE {Then(k, "progress"), Then(k, "work")}

(* extract_handle_fields: the payload of a report names the analysis it stored.
   The index kinds, an exploration and a review of no path return a payload
   without analysis_id; an attempt that stopped early returns an empty one. *)
HasHandle(k) == k.payload = "full" /\ k.job \in Reports

LastAttemptLate(k) == k.tries + 1 > MaxAttempts                    \* mutant

LastAttempt(k) == k.tries + 1 >= MaxAttempts

RetryForever(k, r) ==                                              \* mutant
  IF r # None /\ r.status \in {"Cancelled", "Error"}
    THEN Onward(k, "verdict", "none")
    ELSE Then([k EXCEPT !.left = MaxAdvances], "work")

(* Another attempt, unless the job was cancelled, failed for good, or had its
   last one. *)
Retry(k, r) ==
  IF (r # None /\ r.status \in {"Cancelled", "Error"}) \/ LastAttempt(k)
    THEN Onward(k, "verdict", "none")
    ELSE Then([k EXCEPT !.tries = @ + 1, !.left = MaxAdvances], "work")

(* After a read found the record r, or None. *)
AfterRead(k, r) ==
  CASE k.op = "status" -> {Idle}
    [] k.op = "advance" -> Advance(k, r)
    [] k.op = "retry" -> {Retry(k, r)}
    [] k.op \in Checks /\ Cancelled(r) -> {Done(k)}
    [] k.op = "dequeue" /\ ~Cancelled(r) -> {Then(k, "begin")}
    [] k.op = "begin" /\ ~Cancelled(r) ->    \* giveUp: the scope cannot be bound
         {Then(k, "giveUp")} \cup
         Gate([k EXCEPT !.left = IF k.job \in Heavy THEN MaxPolls ELSE 0])
    [] k.op = "poll" /\ ~Cancelled(r) -> {Then(k, "defer")}
    [] k.op = "check" /\ ~Cancelled(r) -> {Then(k, "work")}
    [] k.op = "verdict" /\ ~Cancelled(r) ->
         {Then(k, IF k.payload = "none" THEN "fail" ELSE "publish")}
    [] k.op = "publish" /\ ~Cancelled(r) -> {Then(k, "complete")}

(* After an update succeeded or failed. *)
AfterUpdate(k, success) ==
  CASE k.op = "defer" -> Gate(k)
    [] k.op = "start" -> {Then(k, "check")}
    [] k.op = "progress" -> {IF success THEN Then(k, "work") ELSE Failed(k)}
    [] k.op = "deadline" -> {Failed(k)}
    [] k.op \in {"complete", "fail"} -> {IF success THEN Done(k) ELSE Onward(k, "giveUp", "none")}
    [] OTHER -> {Done(k)}

CancelSparesNothing(r) == FALSE                                    \* mutant

(* cancel changes every record but a completed one. *)
CancelSpares(r) == r.status = "Completed"

Patched(k) ==
  LET r == [k.copy EXCEPT !.at = now] IN
  CASE k.op = "cancel" ->
         IF CancelSpares(k.copy) THEN k.copy ELSE [r EXCEPT !.status = "Cancelled"]
    [] k.op = "defer" -> r
    [] k.op \in {"start", "progress"} -> [r EXCEPT !.status = "Running"]
    [] k.op \in {"refuse", "deadline"} -> [r EXCEPT !.status = "Error"]
    [] k.op \in {"fail", "giveUp"} -> [r EXCEPT !.status = "Error", !.result = FALSE]
    [] k.op = "complete" -> [r EXCEPT !.status = "Completed", !.result = HasHandle(k)]
    [] k.op = "store" -> k.copy
-----------------------------------------------------------------------------
Init ==
  /\ Queue!Init
  /\ disk = [p \in Projects |-> [j \in Jobs |-> None]]
  /\ mem = [j \in Jobs |-> None]
  /\ order = <<>>
  /\ jobsDir = Home
  /\ task = [t \in Threads |-> Idle]
  /\ now = 0
  /\ created = {} /\ inherited = {} /\ dropped = {} /\ confirmed = {}
  /\ restarts = 0 /\ switches = 0

Becomes(t, tasks) == \E k \in tasks : task' = [task EXCEPT ![t] = k]

(* start_analysis_job: the record first, then the queue. *)
StartJob(c, j) ==
  /\ task[c].op = "idle"
  /\ j \notin created
  /\ created' = created \cup {j}
  /\ Becomes(c, {[Idle EXCEPT !.op = "store", !.phase = "write", !.job = j, !.copy =
       [status |-> "Queued", at |-> now, born |-> now, result |-> FALSE]]})
  /\ UNCHANGED <<queueVars, storeVars, inherited, dropped, confirmed, bounds>>

(* get_analysis_job and cancel_analysis_job, on an id some list has shown. *)
Ask(c, j, op) ==
  /\ task[c].op = "idle"
  /\ j \in created
  /\ \A t \in Clients : task[t].op = "store" => task[t].job # j
  /\ Becomes(c, {[Idle EXCEPT !.op = op, !.job = j]})
  /\ UNCHANGED <<queueVars, storeVars, history, bounds>>

(* A worker takes a job from the queue ... *)
TakeJob(w) ==
  /\ Queue!Take(w)
  /\ Becomes(w, {[Idle EXCEPT !.op = "dequeue", !.job = holding'[w]]})
  /\ UNCHANGED <<storeVars, history, bounds>>

SleepOnQueue(w) ==
  /\ Queue!Sleep(w)
  /\ UNCHANGED <<storeVars, task, history, bounds>>

WakeUp(w) ==
  /\ Queue!WakeSpuriously(w)
  /\ UNCHANGED <<storeVars, task, history, bounds>>

(* ... and gives its share of the pool back when it is through with it. *)
FinishJob(w) ==
  /\ task[w].op = "finish"
  /\ Queue!Finish(w)
  /\ Becomes(w, {Idle})
  /\ UNCHANGED <<storeVars, history, bounds>>

(* get: prune, then latest_job.  A missing record ends an update in NotFound. *)
Load(t) ==
  LET k == task[t] IN
  /\ k.op \in Reads \cup Updates
  /\ k.phase = "load"
  /\ Prune(order, mem)
  /\ LET r == Latest(disk'[jobsDir], mem', k.job) IN
       Becomes(t, IF r # None THEN {[k EXCEPT !.phase = "memo", !.copy = r, !.dir = jobsDir]}
                  ELSE IF k.op \in Reads THEN AfterRead(k, None)
                  ELSE AfterUpdate(k, FALSE))
  /\ UNCHANGED <<queueVars, jobsDir, history, bounds>>

Memo(t) ==
  LET k == task[t] IN
  /\ k.phase = "memo"
  /\ mem' = [mem EXCEPT ![k.job] = k.copy]
  /\ Becomes(t, IF k.op \in Reads THEN AfterRead(k, k.copy) ELSE {[k EXCEPT !.phase = "write"]})
  /\ UNCHANGED <<queueVars, disk, order, jobsDir, history, bounds>>

(* write_to_disk: the rename replaces whatever another thread wrote meanwhile. *)
Write(t) ==
  LET k == task[t]  r == Patched(k) IN
  /\ k.phase = "write"
  /\ disk' = [disk EXCEPT ![jobsDir][k.job] = r]
  /\ Becomes(t, {[k EXCEPT !.phase = "save", !.copy = r]})
  /\ dropped' = dropped \cup
       {j \in {k.job} : k.op = "cancel" /\ Cancelled(r) /\ j \in Range(pending)}
  /\ UNCHANGED <<queueVars, mem, order, jobsDir, created, inherited, confirmed, bounds>>

WriteFails(t) ==
  /\ DiskMayFail
  /\ task[t].phase = "write"
  /\ Becomes(t, AfterUpdate(task[t], FALSE))
  /\ UNCHANGED <<queueVars, storeVars, history, bounds>>

(* store: into the map and the order, and prune. *)
Index(c) ==
  LET k == task[c] IN
  /\ k.op = "store" /\ k.phase = "save"
  /\ Prune(Append(order, k.job), [mem EXCEPT ![k.job] = k.copy])
  /\ Becomes(c, {[k EXCEPT !.phase = "enqueue", !.copy = None]})
  /\ UNCHANGED <<queueVars, jobsDir, history, bounds>>

(* update and cancel: into the map; update puts a record whose old path does
   not exist at the end of the order. *)
Save(t) ==
  LET k == task[t] IN
  /\ k.op # "store" /\ k.phase = "save"
  /\ mem' = [mem EXCEPT ![k.job] = k.copy]
  /\ order' = IF k.op # "cancel" /\ disk[k.dir][k.job] = None THEN Append(order, k.job)
              ELSE order
  /\ confirmed' = confirmed \cup {j \in {k.job} : k.op = "cancel" /\ Cancelled(k.copy)}
  /\ Becomes(t, AfterUpdate(k, TRUE))
  /\ UNCHANGED <<queueVars, disk, jobsDir, created, inherited, dropped, bounds>>

RefusedSilently(k) == Idle                                         \* mutant

Refused(k) == Then(k, "refuse")

(* enqueue_analysis_job: a full queue turns the record into an error. *)
Submit(c) ==
  LET k == task[c] IN
  /\ k.phase = "enqueue"
  /\ \/ Queue!Enqueue(k.job) /\ Becomes(c, {Idle})
     \/ Queue!Full /\ Becomes(c, {Refused(k)}) /\ UNCHANGED queueVars
  /\ UNCHANGED <<storeVars, history, bounds>>

PanickedSilently(k) == Onward(k, "finish", "none")                 \* mutant

(* catch_unwind turns a panic into an error on the record. *)
Panicked(k) == Onward(k, "giveUp", "none")

(* run_job_kind_with_progress: an attempt reports progress, returns, fails or
   panics. *)
Work(w) ==
  LET k == task[w] IN
  /\ k.op = "work"
  /\ Becomes(w,
       {Onward(k, "verdict", "full"), Failed(k), Panicked(k)} \cup
       (IF k.left > 0 THEN {Then([k EXCEPT !.left = @ - 1], "advance")} ELSE {}))
  /\ UNCHANGED <<queueVars, storeVars, history, bounds>>
-----------------------------------------------------------------------------
(* The environment. *)
Tick ==
  /\ now < MaxClock
  /\ now' = now + 1
  /\ UNCHANGED <<queueVars, storeVars, task, history, restarts, switches>>

(* activate_project_context points the store at another directory, under the
   feet of every thread. *)
SwitchProject(p) ==
  /\ switches < MaxSwitches
  /\ p = jobsDir => p = Home
  /\ switches' = switches + 1
  /\ jobsDir' = p
  /\ mem' = [j \in Jobs |-> None]
  /\ order' = <<>>
  /\ disk' = [disk EXCEPT ![p] = Fresh(@)]
  /\ UNCHANGED <<queueVars, task, history, now, restarts>>

InterruptedRunningOnly(r, j) ==                                    \* mutant
  /\ r # None
  /\ Scope[j] = Home
  /\ r.status = "Running"
  /\ now - r.at > StaleAfter

(* recover_stale_running selects the records it repairs. *)
Interrupted(r, j) ==
  /\ r # None
  /\ Scope[j] = Home
  /\ r.status \in Active
  /\ now - r.at > StaleAfter

(* The process dies and starts again: the queue, the map and the threads are
   gone, then try_new_startup repairs the files.  A failed write ends the
   repair. *)
Restart ==
  /\ restarts < MaxRestarts
  /\ restarts' = restarts + 1
  /\ pending' = <<>> /\ pendingCost' = 0 /\ activeJobs' = 0 /\ activeCost' = 0
  /\ holding' = [w \in Workers |-> NoJob] /\ asleep' = {} /\ arrived' = <<>>
  /\ task' = [t \in Threads |-> Idle]
  /\ jobsDir' = Home
  /\ \E repaired \in SUBSET {j \in Jobs : Interrupted(disk[Home][j], j)} :
       LET failed(j) == [disk[Home][j] EXCEPT !.status = "Error", !.at = now] IN
       /\ DiskMayFail \/ repaired = {j \in Jobs : Interrupted(disk[Home][j], j)}
       /\ disk' = [disk EXCEPT ![Home] =
                     Fresh([j \in Jobs |-> IF j \in repaired THEN failed(j) ELSE @[j]])]
       /\ mem' = [j \in Jobs |-> IF j \in repaired THEN failed(j) ELSE None]
       /\ order' \in {s \in [1..Cardinality(repaired) -> repaired] : IsInjective(s)}
  /\ inherited' = {j \in Jobs : /\ disk[Home][j] # None
                                /\ disk[Home][j].status \in Active
                                /\ now - disk[Home][j].at <= StaleAfter}
  /\ UNCHANGED <<created, dropped, confirmed, now, switches>>

StoreCall(t) == Load(t) \/ Memo(t) \/ Write(t) \/ WriteFails(t) \/ Save(t)

ClientStep(c) == StoreCall(c) \/ Index(c) \/ Submit(c)

WorkerStep(w) ==
  TakeJob(w) \/ SleepOnQueue(w) \/ StoreCall(w) \/ Work(w) \/ FinishJob(w)

Next ==
  \/ \E c \in Clients :
       \/ ClientStep(c)
       \/ \E j \in Jobs : StartJob(c, j) \/ Ask(c, j, "status") \/ Ask(c, j, "cancel")
  \/ \E w \in Workers : WorkerStep(w) \/ WakeUp(w)
  \/ Tick \/ Restart \/ \E p \in Projects : SwitchProject(p)

(* A thread goes on with its call and a worker with its job; nobody has to ask
   for anything, and nothing makes the clock, a restart or a switch happen. *)
Fairness ==
  /\ \A c \in Clients : WF_vars(ClientStep(c))
  /\ \A w \in Workers : WF_vars(WorkerStep(w))

Spec == Init /\ [][Next]_vars /\ Fairness
-----------------------------------------------------------------------------
(* A job cancelled while it waits in the queue is never run: the worker that
   takes it finds the cancellation and gives it up (analysis_queue.rs, the check
   after the job is taken). *)
CancelledWhileQueuedNeverRuns ==
  \A j \in dropped :
    /\ \A p \in Projects : Settled(disk[p][j]) /\ (disk[p][j] # None => Cancelled(disk[p][j]))
    /\ \A w \in Workers : task[w].job = j => task[w].op \in {"dequeue", "finish"}

(* A record says "queued" or "running" only while some thread or the queue is
   responsible for the job: whatever way a job ends, in whatever order the
   threads write its record, it is not left active.  The exception startup
   makes is a job of the previous process whose heartbeat was still fresh. *)
Responsible(j) ==
  \/ j \in Range(pending) \cup Queue!Held
  \/ \E c \in Clients : task[c].op \in {"store", "refuse"} /\ task[c].job = j

NoAbandonedJob ==
  \A p \in Projects : \A j \in Jobs \ inherited :
    Settled(disk[p][j]) \/ Responsible(j)

(* A record carries an analysis id exactly when it says "completed" and its job
   is one that stores an analysis: a completed report always shows it, a
   cancelled or failed one never does, an attempt that stopped early because of
   a cancellation is not published as complete, and an index job completes
   without a result. *)
ResultIffReportCompleted ==
  \A p \in Projects : \A j \in Jobs :
    disk[p][j] # None =>
      (disk[p][j].result <=> disk[p][j].status = "Completed" /\ j \in Reports)

(* The half of it that survives a change of directory, forgotten records and
   failing writes: no result on a record that does not say "completed". *)
ResultMeansCompleted ==
  \A p \in Projects : \A j \in Jobs :
    disk[p][j] # None => (disk[p][j].result => disk[p][j].status = "Completed")

(* Every job a client started ends, refused, cancelled, failed or complete. *)
EveryJobSettles ==
  \A j \in Jobs : j \in created ~> \A p \in Projects : Settled(disk[p][j]) /\ ~Responsible(j)

(* The worker loop drives the queue as AnalysisQueue says, and every job taken
   is finished: no sequence of failing writes, lost records and retries keeps a
   worker, and its share of the budget, for ever. *)
ImplementsQueue == Queue!Spec

(* What the tool promises of a cancellation: a job whose cancellation was
   answered "cancelled" does not complete afterwards. *)
CancellationSticks ==
  \A j \in confirmed : \A p \in Projects :
    disk[p][j] # None => disk[p][j].status # "Completed"
=============================================================================
