-------------------------- MODULE SymbolIndexProofs --------------------------
(***************************************************************************)
(* Proofs about the writers of the symbol index, for any files, threads,   *)
(* retries and budgets.                                                    *)
(***************************************************************************)
EXTENDS SymbolIndex, FiniteSetTheorems, NaturalsInduction, TLAPS

(* The inductive invariant.                                                *)

Working(p) == task[p].at # "idle"

(* A thread that has begun and has not committed. *)
Uncommitted(p) == task[p].at \notin {"idle", "count", "finish", "failed", "broken"}

Announced(p) == task[p].at \notin {"idle", "begun", "collected"}

(* Every call has a ticket of its own, and the tracker knows it. *)
TicketsInFlight ==
  /\ \A p \in Threads : Working(p) => task[p].gen \in inFlight
  /\ \A p, u \in Threads : Working(p) /\ Working(u) /\ p # u => task[p].gen # task[u].gen

(* A text is read before its time, and a call commits what it has read. *)
TextBeforeTime ==
  /\ \A p \in Threads : task[p].at \in {"stat", "overlap", "fast", "text"} => task[p].op = "ensure"
  /\ \A p \in Threads : task[p].op \in {"index", "refresh"} =>
       \A f \in Paths : task[p].mtime[f] # Unread => task[p].text[f] # Unread
  /\ \A p \in Threads : Working(p) /\ task[p].op = "ensure" =>
       /\ task[p].paths # {}
       /\ task[p].at \in {"overlap", "fast", "text", "commit"} =>
            task[p].mtime[TheFile(p)] # Unread
       /\ task[p].at = "commit" \/ (task[p].at = "fast" /\ task[p].overlap) =>
            task[p].text[TheFile(p)] # Unread

(* No row was written by a ticket that has not committed. *)
WritesFollowCommits ==
  \A p \in Threads : Uncommitted(p) => \A f \in Paths : rowGen[f] # task[p].gen

(* As long as an older ticket is in flight, what a call announced is remembered. *)
AnnouncedRemembered ==
  \A p \in Threads : Announced(p) /\ (\E h \in inFlight : h < task[p].gen) =>
    \A f \in task[p].paths : task[p].gen <= observed[f].gen

LatestIsLatest == \A f \in Paths : observed[f].gen <= latestObserved

(* What the two queries of a fenced read return differs only if a commit came in
   between that is counted, or is about to be. *)
FenceSeesCommits ==
  LET raced == committed # reader.before \/ trackerLock # Nobody
  IN /\ reader.before <= committed
     /\ reader.at = "second" /\ reader.first # rows[reader.path].text => raced
     /\ reader.at = "compare" /\ reader.first # reader.second => raced

IndexInv ==
  /\ IndexTypeOK /\ TicketsInFlight /\ TextBeforeTime /\ WritesFollowCommits
  /\ AnnouncedRemembered /\ LatestIsLatest /\ NewestRemembered
-----------------------------------------------------------------------------
(* Operators *)

LEMMA RecordTypes ==
  /\ Absent \in FileStates
  /\ nextGeneration \in Nat => NoTask \in Tasks
  /\ NoRead \in Reads
  /\ NoBatch \in [changed : SUBSET Paths, removed : SUBSET Paths, tries : 0..IndexRetries]
<1>1. Absent \in FileStates
  BY DEF Absent, FileStates
<1>2. ASSUME nextGeneration \in Nat PROVE NoTask \in Tasks
  BY <1>1, <1>2 DEF NoTask, Tasks, Unread, IndexOps, TaskSteps
<1>3. NoRead \in Reads
  BY DEF NoRead, Reads
<1>4. NoBatch \in [changed : SUBSET Paths, removed : SUBSET Paths, tries : 0..IndexRetries]
  BY IndexAssumption DEF NoBatch
<1> QED BY <1>1, <1>2, <1>3, <1>4

(* A call that moves on, or reads something, stays a call. *)
LEMMA TaskType ==
  ASSUME NEW t \in Tasks, NEW place \in TaskSteps
  PROVE [t EXCEPT !.at = place] \in Tasks
BY DEF Tasks

LEMMA GotoType ==
  ASSUME IndexTypeOK, NEW p \in Threads, NEW place \in TaskSteps, Goto(p, place)
  PROVE  task' \in [Threads -> Tasks]
BY TaskType DEF Goto, IndexTypeOK

(* The oldest ticket in flight. *)
LEMMA MinInFlight ==
  ASSUME NEW flight \in SUBSET (Nat \ {0}), flight # {}
  PROVE  Min(flight) \in flight /\ \A h \in flight : Min(flight) <= h
<1>1. PICK x \in flight : \A y \in flight : ~(<<y, x>> \in OpToRel(<, Nat))
  BY NatLessThanWellFounded, WFMin
<1>2. \A y \in flight : ~(y < x)
  <2> SUFFICES ASSUME NEW y \in flight, y < x PROVE FALSE
    OBVIOUS
  <2>1. <<y, x>> \in OpToRel(<, Nat)
    BY DEF OpToRel
  <2> QED BY <1>1, <2>1
<1>3. \E m \in flight : \A h \in flight : m <= h
  BY <1>2
<1> QED BY <1>3, Zenon DEF Min
Entries == [gen : 0..nextGeneration, kind : {"none", "Indexed", "Tombstone"}]

LEMMA ObservingType ==
  ASSUME NEW entries \in [Paths -> Entries], NEW S, NEW g \in 0..nextGeneration,
         NEW kind \in {"none", "Indexed", "Tombstone"}
  PROVE  Observing(entries, S, g, kind) \in [Paths -> Entries]
BY DEF Observing, Entries

LEMMA TombstonesType ==
  ASSUME IndexTypeOK, NEW p \in Threads
  PROVE  TombstonedBySnapshot(p) \in [Paths -> Entries]
<1>1. observed \in [Paths -> Entries] /\ task[p].gen \in 0..nextGeneration
  BY DEF IndexTypeOK, Entries, Tasks
<1> QED BY <1>1, ObservingType DEF TombstonedBySnapshot

LEMMA PrunedType ==
  ASSUME IndexTypeOK, NEW flight
  PROVE  Pruned(observed, flight) \in [Paths -> Entries]
BY DEF Pruned, NoEntry, IndexTypeOK, Entries

(* What a commit writes are files, and its ticket is theirs. *)
LEMMA StoreType ==
  ASSUME IndexTypeOK, NEW p \in Threads, NEW S, NEW new, \A f \in S : new[f] \in FileStates,
         Store(task[p].gen, S, new)
  PROVE  rows' \in [Paths -> FileStates] /\ rowGen' \in [Paths -> 0..nextGeneration]
<1>1. task[p].gen \in 0..nextGeneration
  BY DEF IndexTypeOK, Tasks
<1> QED BY <1>1 DEF Store, IndexTypeOK

LEMMA SettleType ==
  ASSUME IndexTypeOK, NEW g \in 0..nextGeneration, NEW settled, NEW blocked, Settle(g, settled, blocked)
  PROVE  seenBy' \in [Paths -> 0..nextGeneration] /\ owed' \in [Paths -> 0..nextGeneration]
BY DEF Settle, IndexTypeOK

LEMMA LatestType ==
  ASSUME IndexTypeOK, NEW p \in Threads
  PROVE  Latest(task[p].gen) \in 0..nextGeneration
BY DEF Latest, IndexTypeOK, Tasks

(* What a call that has read its files found are files. *)
LEMMA FoundType ==
  ASSUME IndexTypeOK, TextBeforeTime, NEW p \in Threads, AllRead(p),
         task[p].op \in {"index", "refresh"}, NEW f \in Analyzed(p)
  PROVE  Found(p, f) \in FileStates
<1>1. f \in Paths /\ task[p].text[f] \in Nat \cup {Unread} /\ task[p].mtime[f] \in Nat \cup {Unread}
  BY DEF IndexTypeOK, Tasks, Analyzed
<1>2. task[p].mtime[f] # Unread /\ task[p].text[f] # Unread
  BY <1>1 DEF AllRead, Analyzed, TextBeforeTime
<1> QED BY <1>1, <1>2 DEF Found, FileStates

LEMMA StartType ==
  ASSUME IndexTypeOK, NEW p \in Threads, NEW op \in IndexOps, NEW S \in SUBSET Paths,
         Start(p, op, S)
  PROVE  /\ task' \in [Threads -> Tasks'] /\ nextGeneration' \in Nat
         /\ inFlight' \in SUBSET (1..nextGeneration')
<1>1. nextGeneration \in Nat /\ nextGeneration' = nextGeneration + 1
  BY DEF Start, IndexTypeOK
<1>2. 0..nextGeneration \subseteq 0..nextGeneration' /\ nextGeneration' \in 0..nextGeneration'
  BY <1>1
<1>3. \A t \in Tasks : t \in Tasks'
  BY <1>2 DEF Tasks
<1>4. [NoTask EXCEPT !.op = op, !.at = "begun", !.gen = nextGeneration + 1, !.paths = S] \in Tasks'
  <2>1. NoTask \in Tasks'
    BY <1>1, <1>3, RecordTypes
  <2> QED BY <1>1, <1>2, <2>1 DEF Tasks, TaskSteps
<1>5. task' \in [Threads -> Tasks']
  BY <1>3, <1>4 DEF Start, IndexTypeOK
<1>6. inFlight' \in SUBSET (1..nextGeneration')
  BY <1>1 DEF Start, IndexTypeOK
<1> QED BY <1>1, <1>5, <1>6

LEMMA LeaveType ==
  ASSUME IndexTypeOK, NEW p \in Threads, NEW wrote \in BOOLEAN, Leave(p, wrote)
  PROVE  task' \in [Threads -> Tasks] /\ trackerLock' \in Threads \cup {Nobody}
<1>1. Goto(p, IF wrote THEN "count" ELSE "finish")
  BY DEF Leave
<1>2. (IF wrote THEN "count" ELSE "finish") \in TaskSteps
  BY DEF TaskSteps
<1> QED BY <1>1, <1>2, GotoType DEF Leave, IndexTypeOK

-----------------------------------------------------------------------------
(* Type correctness *)

LEMMA IndexInitInv == IndexInit => IndexInv /\ FenceSeesCommits
<1> SUFFICES ASSUME IndexInit PROVE IndexInv /\ FenceSeesCommits
  OBVIOUS
<1>1. NoTask \in Tasks /\ \A p \in Threads : task[p] = NoTask
  BY RecordTypes DEF IndexInit
<1>2. IndexTypeOK
  <2>1. rows \in [Paths -> FileStates] /\ disk \in [Paths -> FileStates]
    BY DEF IndexInit, FileStates
  <2>2. observed \in [Paths -> Entries]
    BY DEF IndexInit, Entries, NoEntry
  <2>3. reader \in Reads /\ reader.at = "idle" /\ batch \in [changed : SUBSET Paths, removed : SUBSET Paths, tries : 0..IndexRetries]
    BY RecordTypes DEF IndexInit, NoRead
  <2>4. task \in [Threads -> Tasks]
    BY RecordTypes DEF IndexInit
  <2>5. budget \in [changes : Nat, calls : Nat, faults : Nat, reads : Nat]
    BY IndexAssumption DEF IndexInit
  <2> QED BY <2>1, <2>2, <2>3, <2>4, <2>5 DEF IndexInit, IndexTypeOK, Entries
<1>3. /\ \A p \in Threads : ~Working(p) /\ ~Uncommitted(p) /\ ~Announced(p) /\ task[p].op = "none"
      /\ reader.at = "idle" /\ reader.before = 0 /\ committed = 0
  BY <1>1 DEF NoTask, NoRead, Working, Uncommitted, Announced, IndexInit
<1>4. TicketsInFlight /\ TextBeforeTime /\ WritesFollowCommits /\ AnnouncedRemembered
  BY <1>3 DEF Working, TicketsInFlight, TextBeforeTime, WritesFollowCommits, AnnouncedRemembered
<1>5. LatestIsLatest /\ NewestRemembered /\ FenceSeesCommits
  BY <1>3 DEF LatestIsLatest, NewestRemembered, FenceSeesCommits, IndexInit, NoEntry
<1> QED BY <1>2, <1>4, <1>5 DEF IndexInv

(* The actions of a call that only move it on. *)
LEMMA CallReadsType ==
  ASSUME IndexTypeOK, NEW p \in Threads,
         \/ Collect(p) \/ Survey(p) \/ \E f \in Paths : ReadFile(p, f)
         \/ EnsureStat(p) \/ EnsureOverlap(p) \/ EnsureText(p)
  PROVE  IndexTypeOK'
<1>1. /\ task[p] \in Tasks /\ task \in [Threads -> Tasks]
      /\ \A f \in Paths : disk[f].text \in Nat /\ disk[f].mtime \in Nat
      /\ disk \in [Paths -> FileStates] /\ rows \in [Paths -> FileStates]
  BY DEF IndexTypeOK, FileStates
<1>2. ASSUME Collect(p) PROVE task' \in [Threads -> Tasks]
  BY <1>1, <1>2 DEF Collect, Tasks, TaskSteps
<1>3. ASSUME Survey(p) PROVE task' \in [Threads -> Tasks]
  <2> DEFINE isLarge == Cardinality({f \in Paths : rows[f] # Absent})
                          > Cardinality(task[p].paths) + BulkOverhang
  <2>1. isLarge \in BOOLEAN
    OBVIOUS
  <2>2. PICK bulk \in {FALSE, isLarge} :
          task' = [task EXCEPT ![p].at = "read", ![p].bulk = bulk,
                               ![p].known = IF bulk THEN @ ELSE rows]
    BY <1>3 DEF Survey
  <2> HIDE DEF isLarge
  <2>3. bulk \in BOOLEAN
    BY <2>1, <2>2
  <2>4. (IF bulk THEN task[p].known ELSE rows) \in [Paths -> FileStates]
    BY <1>1, <2>3 DEF Tasks
  <2> QED BY <1>1, <2>2, <2>3, <2>4 DEF Tasks, TaskSteps
<1>4. ASSUME NEW f \in Paths, ReadFile(p, f) PROVE task' \in [Threads -> Tasks]
  <2>1. CASE task' = [task EXCEPT ![p].text[f] = disk[f].text]
    BY <1>1, <2>1 DEF Tasks
  <2>2. CASE task' = [task EXCEPT ![p].text[f] = IF disk[f] = Absent THEN 0 ELSE @,
                                  ![p].mtime[f] = disk[f].mtime]
    <3> DEFINE text == [task[p].text EXCEPT ![f] = IF disk[f] = Absent THEN 0 ELSE @]
               mtime == [task[p].mtime EXCEPT ![f] = disk[f].mtime]
    <3>1. text \in [Paths -> Nat \cup {Unread}] /\ mtime \in [Paths -> Nat \cup {Unread}]
      BY <1>1 DEF Tasks
    <3>2. task' = [task EXCEPT ![p].text = text, ![p].mtime = mtime]
      BY <2>2
    <3> HIDE DEF text, mtime
    <3> QED BY <1>1, <3>1, <3>2 DEF Tasks
  <2> QED BY <1>4, <2>1, <2>2 DEF ReadFile
<1>5. ASSUME EnsureStat(p) PROVE task' \in [Threads -> Tasks]
  BY <1>1, <1>5 DEF EnsureStat, Tasks, TaskSteps
<1>6. ASSUME EnsureOverlap(p) PROVE task' \in [Threads -> Tasks]
  BY <1>1, <1>6 DEF EnsureOverlap, Tasks, TaskSteps
<1>7. ASSUME EnsureText(p) PROVE task' \in [Threads -> Tasks]
  BY <1>1, <1>7 DEF EnsureText, Tasks, TaskSteps
<1>8. /\ task' \in [Threads -> Tasks]
      /\ UNCHANGED <<trackerVars, storeVars, worldVars, batch, committed, trackerLock, skipped,
                     reader, budget>>
  BY <1>2, <1>3, <1>4, <1>5, <1>6, <1>7
     DEF Collect, Survey, ReadFile, EnsureStat, EnsureOverlap, EnsureText
<1> QED BY <1>8 DEF IndexTypeOK, Tasks, Reads, NoRead, trackerVars, storeVars, worldVars
LEMMA EnsuredFile ==
  ASSUME IndexTypeOK, TextBeforeTime, NEW p \in Threads, Working(p), task[p].op = "ensure"
  PROVE  TheFile(p) \in task[p].paths /\ TheFile(p) \in Paths
BY DEF TextBeforeTime, TheFile, IndexTypeOK, Tasks

(* The actions of a call that touch the tracker or the table. *)
LEMMA CallWritesType ==
  ASSUME IndexTypeOK, TextBeforeTime, NEW p \in Threads,
         \/ Observe(p) \/ CommitIndex(p) \/ CommitRemove(p) \/ CommitRefresh(p)
         \/ CommitFails(p) \/ RecordCommit(p) \/ EnsureFast(p) \/ CommitEnsure(p)
  PROVE  IndexTypeOK'
<1>1. /\ task[p] \in Tasks /\ task[p].gen \in 0..nextGeneration /\ task[p].paths \subseteq Paths
      /\ observed \in [Paths -> Entries]
  BY DEF IndexTypeOK, Tasks, Entries
<1>2. CASE Observe(p)
  <2>1. observed' \in [Paths -> Entries]
    BY <1>1, <1>2, ObservingType DEF Observe
  <2>2. latestObserved' \in 0..nextGeneration
    BY <1>2, LatestType DEF Observe
  <2>3. task' \in [Threads -> Tasks]
    <3>1. (CASE task[p].op = "ensure" -> "stat" [] task[p].op = "remove" -> "commit"
             [] task[p].op = "refresh" -> "survey" [] OTHER -> "read") \in TaskSteps
      BY DEF TaskSteps
    <3> QED BY <1>2, <3>1, GotoType DEF Observe
  <2> QED BY <1>2, <2>1, <2>2, <2>3
       DEF Observe, IndexTypeOK, Tasks, Entries, storeVars, worldVars
<1>3. CASE CommitIndex(p)
  <2> DEFINE g == task[p].gen
             allowed == {f \in Analyzed(p) : Allows(observed, g, f)}
             stale == {f \in allowed : rows[f] # Found(p, f)}
             new == [f \in stale |-> Found(p, f)]
  <2>1. /\ task[p].op = "index" /\ AllRead(p) /\ Store(g, stale, new)
        /\ Settle(g, allowed, Analyzed(p) \ allowed) /\ Leave(p, stale # {})
        /\ UNCHANGED <<trackerVars, worldVars, batch, committed, skipped, reader, budget>>
    BY <1>3 DEF CommitIndex
  <2>2. \A f \in stale : new[f] \in FileStates
    BY <2>1, FoundType
  <2>3. rows' \in [Paths -> FileStates] /\ rowGen' \in [Paths -> 0..nextGeneration]
    <3> HIDE DEF stale, new
    <3> QED BY <2>1, <2>2, StoreType
  <2>4. seenBy' \in [Paths -> 0..nextGeneration] /\ owed' \in [Paths -> 0..nextGeneration]
    BY <1>1, <2>1, SettleType
  <2>5. task' \in [Threads -> Tasks] /\ trackerLock' \in Threads \cup {Nobody}
    BY <2>1, LeaveType
  <2> QED BY <2>1, <2>3, <2>4, <2>5 DEF IndexTypeOK, Tasks, Reads, trackerVars, worldVars
<1>4. CASE CommitRemove(p)
  <2> DEFINE g == task[p].gen
             allowed == {f \in task[p].paths : Allows(observed, g, f)}
             existing == {f \in allowed : rows[f] # Absent}
             new == [f \in existing |-> Absent]
  <2>1. /\ Store(g, existing, new) /\ Settle(g, allowed, task[p].paths \ allowed)
        /\ Leave(p, existing # {})
        /\ UNCHANGED <<trackerVars, worldVars, batch, committed, skipped, reader, budget>>
    BY <1>4 DEF CommitRemove
  <2>2. \A f \in existing : new[f] \in FileStates
    BY RecordTypes
  <2>3. rows' \in [Paths -> FileStates] /\ rowGen' \in [Paths -> 0..nextGeneration]
    <3> HIDE DEF existing, new
    <3> QED BY <2>1, <2>2, StoreType
  <2>4. seenBy' \in [Paths -> 0..nextGeneration] /\ owed' \in [Paths -> 0..nextGeneration]
    BY <1>1, <2>1, SettleType
  <2>5. task' \in [Threads -> Tasks] /\ trackerLock' \in Threads \cup {Nobody}
    BY <2>1, LeaveType
  <2> QED BY <2>1, <2>3, <2>4, <2>5 DEF IndexTypeOK, Tasks, Reads, trackerVars, worldVars
<1>5. CASE CommitRefresh(p)
  <2> DEFINE known == task[p].known
             bulk == task[p].bulk /\ Analyzed(p) = task[p].paths /\ latestObserved <= task[p].gen
             seen == TombstonedBySnapshot(p)
             allowed == {f \in Paths : Allows(seen, task[p].gen, f)}
             retimed == {f \in Analyzed(p) :
                           known[f].text = Found(p, f).text /\ known[f] # Found(p, f)}
             parsed == {f \in Analyzed(p) : known[f].text # Found(p, f).text}
             missing == {f \in Paths \ task[p].paths : rows[f] # Absent}
             upserts == {f \in parsed \cap allowed : bulk \/ rows[f] # Found(p, f)}
             retimes == {f \in retimed \cap allowed : rows[f].text = Found(p, f).text}
             deletes == IF bulk THEN missing ELSE missing \cap allowed
             written == upserts \cup retimes \cup deletes
             new == [f \in written |-> IF f \in deletes THEN Absent ELSE Found(p, f)]
  <2>1. Store(task[p].gen, written, new) /\ Leave(p, written # {})
    BY <1>5 DEF CommitRefresh
  <2>2. /\ task[p].op = "refresh" /\ AllRead(p)
        /\ observed' = TombstonedBySnapshot(p) /\ latestObserved' = Latest(task[p].gen)
        /\ \E settled, blocked : Settle(task[p].gen, settled, blocked)
        /\ UNCHANGED <<nextGeneration, inFlight, worldVars, batch, committed, skipped, reader, budget>>
    BY <1>5 DEF CommitRefresh
  <2>3. rows' \in [Paths -> FileStates] /\ rowGen' \in [Paths -> 0..nextGeneration]
    <3>1. \A f \in written \ deletes : f \in Analyzed(p)
      OBVIOUS
    <3>2. \A f \in written : new[f] \in FileStates
      <4> HIDE DEF written, deletes
      <4> QED BY <2>2, <3>1, FoundType, RecordTypes
    <3> HIDE DEF written, new
    <3> QED BY <2>1, <3>2, StoreType
  <2>4. seenBy' \in [Paths -> 0..nextGeneration] /\ owed' \in [Paths -> 0..nextGeneration]
    BY <1>1, <2>2, SettleType
  <2>5. task' \in [Threads -> Tasks] /\ trackerLock' \in Threads \cup {Nobody}
    BY <2>1, LeaveType
  <2>6. observed' \in [Paths -> Entries] /\ latestObserved' \in 0..nextGeneration
    BY <2>2, TombstonesType, LatestType
  <2> QED BY <2>2, <2>3, <2>4, <2>5, <2>6 DEF IndexTypeOK, Tasks, Reads, Entries, worldVars
<1>6. CASE CommitFails(p)
  <2>1. observed' \in [Paths -> Entries] /\ latestObserved' \in 0..nextGeneration
    BY <1>1, <1>6, TombstonesType, LatestType DEF CommitFails, IndexTypeOK
  <2>2. task' \in [Threads -> Tasks]
    BY <1>6, GotoType DEF CommitFails, TaskSteps
  <2>3. budget' \in [changes : Nat, calls : Nat, faults : Nat, reads : Nat]
    BY <1>6 DEF CommitFails, Spend, IndexTypeOK
  <2> QED BY <1>6, <2>1, <2>2, <2>3
       DEF CommitFails, IndexTypeOK, Tasks, Entries, storeVars, worldVars
<1>7. CASE RecordCommit(p)
  <2>1. task' \in [Threads -> Tasks]
    BY <1>7, GotoType DEF RecordCommit, TaskSteps
  <2> QED BY <1>7, <2>1
       DEF RecordCommit, IndexTypeOK, Tasks, trackerVars, storeVars, worldVars
<1>8. CASE EnsureFast(p)
  <2>1. task' \in [Threads -> Tasks]
    BY <1>8, GotoType DEF EnsureFast, TaskSteps
  <2>2. seenBy' \in [Paths -> 0..nextGeneration] /\ owed' \in [Paths -> 0..nextGeneration]
    BY <1>1, <1>8, SettleType DEF EnsureFast
  <2> QED BY <1>8, <2>1, <2>2 DEF EnsureFast, IndexTypeOK, Tasks, trackerVars, worldVars
<1>9. CASE CommitEnsure(p)
  <2> DEFINE f == TheFile(p)
             ok == Allows(observed, task[p].gen, f)
             S == IF ok THEN {f} ELSE {}
             new == [x \in {f} |-> Found(p, f)]
  <2>1. /\ task[p].op = "ensure" /\ task[p].at = "commit" /\ Store(task[p].gen, S, new)
        /\ Settle(task[p].gen, S, IF ok THEN {} ELSE {f}) /\ Leave(p, ok)
        /\ UNCHANGED <<trackerVars, worldVars, batch, committed, skipped, reader, budget>>
    BY <1>9 DEF CommitEnsure
  <2>2. f \in Paths
    BY <2>1, EnsuredFile DEF Working
  <2>3. Found(p, f) \in FileStates
    BY <1>1, <2>1, <2>2 DEF Found, FileStates, TextBeforeTime, Working, Tasks
  <2>4. rows' \in [Paths -> FileStates] /\ rowGen' \in [Paths -> 0..nextGeneration]
    <3>1. \A x \in S : new[x] \in FileStates
      BY <2>3
    <3> HIDE DEF S, new
    <3> QED BY <2>1, <3>1, StoreType
  <2>5. seenBy' \in [Paths -> 0..nextGeneration] /\ owed' \in [Paths -> 0..nextGeneration]
    BY <1>1, <2>1, SettleType
  <2>6. ok \in BOOLEAN
    BY DEF Allows
  <2>7. task' \in [Threads -> Tasks] /\ trackerLock' \in Threads \cup {Nobody}
    BY <2>1, <2>6, LeaveType
  <2> QED BY <2>1, <2>4, <2>5, <2>7 DEF IndexTypeOK, Tasks, Reads, trackerVars, worldVars
<1> QED BY <1>2, <1>3, <1>4, <1>5, <1>6, <1>7, <1>8, <1>9

LEMMA FinishType ==
  ASSUME IndexTypeOK, NEW p \in Threads, Finish(p)
  PROVE  IndexTypeOK'
<1>1. observed' \in [Paths -> Entries]
  BY PrunedType DEF Finish
<1>2. task' \in [Threads -> Tasks]
  BY RecordTypes DEF Finish, IndexTypeOK
<1>3. batch' \in [changed : SUBSET Paths, removed : SUBSET Paths, tries : 0..IndexRetries]
  <2>1. \/ batch' = batch
        \/ batch.tries < IndexRetries /\ batch' = [batch EXCEPT !.tries = @ + 1]
        \/ batch' = NoBatch
        \/ batch' = [NoBatch EXCEPT !.removed = batch.removed]
    BY DEF Finish
  <2> QED BY <2>1, RecordTypes, IndexAssumption DEF IndexTypeOK
<1>4. skipped' \subseteq Paths
  BY DEF Finish, IndexTypeOK
<1>5. inFlight' \in SUBSET (1..nextGeneration)
  BY DEF Finish, IndexTypeOK
<1> QED BY <1>1, <1>2, <1>3, <1>4, <1>5
     DEF Finish, IndexTypeOK, Tasks, Entries, storeVars, worldVars

LEMMA SpendType ==
  ASSUME IndexTypeOK, NEW what \in {"changes", "calls", "faults", "reads"}, Spend(what)
  PROVE  budget' \in [changes : Nat, calls : Nat, faults : Nat, reads : Nat]
BY DEF Spend, IndexTypeOK

LEMMA WorldType ==
  ASSUME IndexTypeOK,
         \/ \E f \in Paths : ChangeFile(f)
         \/ TakeEvents \/ FencedRead
  PROVE  IndexTypeOK'
<1>1. ASSUME NEW f \in Paths, ChangeFile(f) PROVE IndexTypeOK'
  <2> DEFINE v == lastVersion + 1
  <2>1. v \in Nat /\ disk \in [Paths -> FileStates]
    BY DEF IndexTypeOK
  <2>2. PICK new \in {[text |-> v, mtime |-> v], Absent,
                     [disk[f] EXCEPT !.text = v], [disk[f] EXCEPT !.mtime = v]} :
          disk' = [disk EXCEPT ![f] = new]
    BY <1>1 DEF ChangeFile
  <2>3. new \in FileStates
    BY <2>1, <2>2, RecordTypes DEF FileStates
  <2>4. budget' \in [changes : Nat, calls : Nat, faults : Nat, reads : Nat]
    BY <1>1 DEF ChangeFile, Spend, IndexTypeOK
  <2> QED BY <1>1, <2>1, <2>2, <2>3, <2>4
       DEF ChangeFile, IndexTypeOK, Tasks, trackerVars, storeVars
<1>2. CASE TakeEvents
  <2>1. batch' \in [changed : SUBSET Paths, removed : SUBSET Paths, tries : 0..IndexRetries]
    BY <1>2, IndexAssumption DEF TakeEvents, IndexTypeOK
  <2> QED BY <1>2, <2>1 DEF TakeEvents, IndexTypeOK, Tasks, trackerVars, storeVars
<1>3. CASE FencedRead
  <2>1. reader' \in Reads /\ reader'.path \in Paths
    <3>1. CASE FenceCapture
      <4>1. committed \in Nat /\ reader \in Reads /\ NoRead \in Reads
        BY RecordTypes DEF IndexTypeOK
      <4>2. ASSUME NEW f \in Paths,
                   reader' = [NoRead EXCEPT !.at = "first", !.before = committed, !.path = f]
            PROVE  reader' \in Reads /\ reader'.path \in Paths
        BY <4>1, <4>2 DEF Reads
      <4>3. ASSUME reader.at = "changed",
                   reader' = [reader EXCEPT !.at = "first", !.before = committed, !.rerun = TRUE]
            PROVE  reader' \in Reads /\ reader'.path \in Paths
        BY <4>1, <4>3 DEF Reads, IndexTypeOK
      <4> QED BY <3>1, <4>2, <4>3 DEF FenceCapture
    <3>2. CASE FencedQuery
      BY <3>2 DEF FencedQuery, IndexTypeOK, Reads, FileStates
    <3>3. CASE FenceFinish
      BY <3>3 DEF FenceFinish, IndexTypeOK, Reads
    <3> QED BY <1>3, <3>1, <3>2, <3>3 DEF FencedRead
  <2>2. budget' \in [changes : Nat, calls : Nat, faults : Nat, reads : Nat]
    <3>1. Spend("reads") \/ budget' = budget
      BY <1>3 DEF FencedRead, FenceCapture, FencedQuery, FenceFinish
    <3> QED BY <3>1, SpendType DEF IndexTypeOK
  <2>3. NoRead = NoRead'
    BY DEF NoRead
  <2> QED BY <1>3, <2>1, <2>2
       DEF FencedRead, IndexTypeOK, Tasks, trackerVars, storeVars, worldVars
<1> QED BY <1>1, <1>2, <1>3
(* A new call of a known kind begins, on a file when it reads the symbols of one. *)
LEMMA NewCallStarts ==
  ASSUME IndexTypeOK, WatcherStart \/ \E p \in Callers : CallStart(p)
  PROVE  \E p \in Threads, op \in IndexOps, S \in SUBSET Paths :
           Start(p, op, S) /\ (op = "ensure" => S # {})
<1> DEFINE Starts == \E p \in Threads, op \in IndexOps, S \in SUBSET Paths :
                       Start(p, op, S) /\ (op = "ensure" => S # {})
<1>1. batch.changed \in SUBSET Paths /\ batch.removed \in SUBSET Paths
  BY DEF IndexTypeOK
<1>2. CASE WatcherStart
  BY <1>1, <1>2 DEF WatcherStart, Threads, IndexOps
<1>3. ASSUME NEW p \in Callers, CallStart(p) PROVE Starts
  <2>1. p \in Threads
    BY DEF Threads
  <2>2. ASSUME NEW f \in Paths, NEW op \in {"ensure", "index"}, Start(p, op, {f}) PROVE Starts
    <3>1. {f} \in SUBSET Paths /\ op \in IndexOps /\ {f} # {}
      BY DEF IndexOps
    <3> QED BY <2>1, <2>2, <3>1
  <2>3. ASSUME Start(p, "refresh", {}) PROVE Starts
    <3>1. {} \in SUBSET Paths /\ "refresh" \in IndexOps
      BY DEF IndexOps
    <3> QED BY <2>1, <2>3, <3>1
  <2> QED BY <1>3, <2>2, <2>3 DEF CallStart
<1> QED BY <1>2, <1>3

LEMMA NewCallType ==
  ASSUME IndexTypeOK, WatcherStart \/ \E p \in Callers : CallStart(p)
  PROVE  IndexTypeOK'
<1>1. /\ \E p \in Threads, op \in IndexOps, S \in SUBSET Paths : Start(p, op, S)
      /\ budget' = budget \/ Spend("calls")
      /\ UNCHANGED <<observed, latestObserved, storeVars, worldVars, batch, committed, trackerLock,
                     skipped, reader>>
  BY NewCallStarts DEF WatcherStart, CallStart
<1>2. /\ task' \in [Threads -> Tasks'] /\ nextGeneration' \in Nat
      /\ inFlight' \in SUBSET (1..nextGeneration')
  BY <1>1, StartType
<1>3. nextGeneration \in Nat /\ nextGeneration' = nextGeneration + 1
  BY <1>1 DEF Start, IndexTypeOK
<1>4. 0..nextGeneration \subseteq 0..nextGeneration'
  BY <1>3
<1>5. budget' \in [changes : Nat, calls : Nat, faults : Nat, reads : Nat]
  BY <1>1, SpendType DEF IndexTypeOK
<1>6. observed' \in [Paths -> Entries']
  BY <1>1, <1>4 DEF IndexTypeOK, Entries
<1> QED BY <1>1, <1>2, <1>4, <1>5, <1>6
     DEF IndexTypeOK, Entries, storeVars, worldVars, Reads, NoRead
-----------------------------------------------------------------------------
(* A refresh that commits goes on to count its commit or to its end. *)
LEMMA RefreshMoves ==
  ASSUME NEW p \in Threads, CommitRefresh(p)
  PROVE  /\ task[p].at = "read" /\ UNCHANGED <<nextGeneration, inFlight>>
         /\ \E place \in {"count", "finish"} : Goto(p, place)
<1>1. AllRead(p) /\ UNCHANGED nextGeneration /\ UNCHANGED inFlight
  BY ZenonT(30) DEF CommitRefresh
<1>2. \E wrote : Leave(p, wrote)
  BY ZenonT(30) DEF CommitRefresh
<1>3. PICK wrote : Leave(p, wrote)
  BY <1>2
<1> QED BY <1>1, <1>3 DEF AllRead, Leave

(* What a step of a call does to the calls and their tickets. *)
LEMMA StepMovesOneCall ==
  ASSUME IndexTypeOK, NEW p \in Threads, IndexStep(p), ~Finish(p)
  PROVE  /\ \A u \in Threads \ {p} : task'[u] = task[u]
         /\ task'[p].gen = task[p].gen /\ task'[p].op = task[p].op
         /\ Working(p) /\ Working(p)'
         /\ Uncommitted(p)' => Uncommitted(p)
         /\ UNCHANGED <<nextGeneration, inFlight>>
<1> USE DEF IndexTypeOK, Tasks, Working, Uncommitted, Goto
<1>1. CASE Collect(p)
  BY <1>1 DEF Collect, trackerVars
<1>2. CASE Survey(p)
  BY <1>2 DEF Survey, trackerVars
<1>3. ASSUME NEW f \in Paths, ReadFile(p, f)
      PROVE  /\ \A u \in Threads \ {p} : task'[u] = task[u]
             /\ task'[p].gen = task[p].gen /\ task'[p].op = task[p].op /\ task'[p].at = task[p].at
             /\ task[p].at = "read"
             /\ UNCHANGED <<nextGeneration, inFlight>>
  BY <1>3 DEF ReadFile, trackerVars
<1>4. CASE Observe(p)
  BY <1>4 DEF Observe
<1>5. CASE CommitIndex(p)
  BY <1>5 DEF CommitIndex, Leave, AllRead, trackerVars
<1>6. CASE CommitRemove(p)
  BY <1>6 DEF CommitRemove, Leave, trackerVars
<1>7. CASE CommitRefresh(p)
  BY <1>7, RefreshMoves
<1>8. CASE CommitFails(p)
  BY <1>8 DEF CommitFails, AllRead
<1>9. CASE RecordCommit(p)
  BY <1>9 DEF RecordCommit, trackerVars
<1>10. CASE EnsureStat(p)
  BY <1>10 DEF EnsureStat, trackerVars
<1>11. CASE EnsureOverlap(p)
  BY <1>11 DEF EnsureOverlap, trackerVars
<1>12. CASE EnsureFast(p)
  BY <1>12 DEF EnsureFast, trackerVars
<1>13. CASE EnsureText(p)
  BY <1>13 DEF EnsureText, trackerVars
<1>14. CASE CommitEnsure(p)
  BY <1>14 DEF CommitEnsure, Leave, trackerVars
<1> QED BY <1>1, <1>2, <1>3, <1>4, <1>5, <1>6, <1>7, <1>8, <1>9, <1>10, <1>11, <1>12, <1>13,
          <1>14 DEF IndexStep
(* An announcement only ever makes an entry newer. *)
LEMMA ObservingGrows ==
  ASSUME NEW entries \in [Paths -> Entries], NEW S, NEW g \in 0..nextGeneration, NEW kind,
         NEW f \in Paths
  PROVE  LET after == Observing(entries, S, g, kind)
         IN /\ entries[f].gen <= after[f].gen
            /\ after[f].gen = entries[f].gen \/ after[f].gen = g
            /\ f \in S => g <= after[f].gen
BY DEF Observing, Entries

LEMMA TombstonesGrow ==
  ASSUME IndexTypeOK, NEW p \in Threads, NEW f \in Paths
  PROVE  LET seen == TombstonedBySnapshot(p)
         IN /\ observed[f].gen <= seen[f].gen
            /\ seen[f].gen = observed[f].gen \/ seen[f].gen = task[p].gen
            /\ f \notin task[p].paths /\ rows[f] # Absent => task[p].gen <= seen[f].gen
<1> DEFINE g == task[p].gen
           missing == Paths \ task[p].paths
           elder == {x \in missing : observed[x].gen \in 1..g - 1}
           older == Observing(observed, elder, g, "Tombstone")
           gone == {x \in missing : rows[x] # Absent /\ Allows(older, g, x)}
           seen == Observing(older, gone, g, "Tombstone")
<1>1. g \in 0..nextGeneration /\ observed \in [Paths -> Entries] /\ nextGeneration \in Nat
  BY DEF IndexTypeOK, Tasks, Entries
<1>2. seen = TombstonedBySnapshot(p)
  BY DEF TombstonedBySnapshot
<1>3. older \in [Paths -> Entries]
  <2> HIDE DEF elder, g
  <2> QED BY <1>1, ObservingType
<1>4. observed[f].gen <= older[f].gen /\ (older[f].gen = observed[f].gen \/ older[f].gen = g)
  <2> HIDE DEF elder, g
  <2> QED BY <1>1, ObservingGrows
<1>5. /\ older[f].gen <= seen[f].gen /\ (seen[f].gen = older[f].gen \/ seen[f].gen = g)
      /\ f \in gone => g <= seen[f].gen
  <2> HIDE DEF older, gone, g
  <2> QED BY <1>1, <1>3, ObservingGrows
<1>6. /\ older[f].gen \in Nat /\ seen[f].gen \in Nat /\ observed[f].gen \in Nat /\ g \in Nat
  <2>1. seen \in [Paths -> Entries]
    BY <1>2, TombstonesType
  <2> HIDE DEF seen, older, g
  <2> QED BY <1>1, <1>3, <2>1 DEF Entries
<1>7. f \in missing /\ rows[f] # Absent => f \in gone \/ g < older[f].gen
  <2> HIDE DEF older, g
  <2> QED BY <1>6 DEF Allows
<1> HIDE DEF seen, older, gone, g
<1>8. f \in missing /\ rows[f] # Absent => g <= seen[f].gen
  BY <1>5, <1>6, <1>7
<1> QED BY <1>2, <1>4, <1>5, <1>6, <1>8 DEF g

(* The entries of the tracker while a call moves on. *)
LEMMA StepKeepsEntries ==
  ASSUME IndexInv, NEW p \in Threads, IndexStep(p), ~Finish(p), NEW f \in Paths
  PROVE  /\ observed[f].gen <= observed'[f].gen /\ observed'[f].gen <= latestObserved'
         /\ Observe(p) /\ f \in task[p].paths => task[p].gen <= observed'[f].gen
<1>1. /\ observed \in [Paths -> Entries] /\ task[p].gen \in 0..nextGeneration
      /\ observed[f].gen \in Nat /\ latestObserved \in Nat /\ observed[f].gen <= latestObserved
  BY DEF IndexInv, IndexTypeOK, Tasks, Entries, LatestIsLatest
<1>2. latestObserved <= Latest(task[p].gen) /\ task[p].gen <= Latest(task[p].gen)
      /\ Latest(task[p].gen) \in Nat
  BY <1>1 DEF Latest
<1>3. CASE Observe(p)
  BY <1>1, <1>2, <1>3, ObservingGrows DEF Observe
<1>4. CASE /\ observed' = TombstonedBySnapshot(p) /\ latestObserved' = Latest(task[p].gen)
           /\ ~Observe(p)
  BY <1>1, <1>2, <1>4, TombstonesGrow DEF IndexInv
<1>5. CASE observed' = observed /\ latestObserved' = latestObserved /\ ~Observe(p)
  BY <1>1, <1>5
<1>6. \/ Observe(p)
      \/ observed' = TombstonedBySnapshot(p) /\ latestObserved' = Latest(task[p].gen)
      \/ observed' = observed /\ latestObserved' = latestObserved
  BY DEF IndexStep, Collect, Survey, ReadFile, CommitIndex, CommitRemove, CommitRefresh,
         CommitFails, RecordCommit, EnsureStat, EnsureOverlap, EnsureFast, EnsureText,
         CommitEnsure, trackerVars
<1> QED BY <1>3, <1>4, <1>5, <1>6

(* A ticket that may write a row is newer than the row's last writer: had a newer
   one written it, the tracker would remember. *)
LEMMA AllowedIsNewer ==
  ASSUME IndexInv, NEW p \in Threads, Uncommitted(p), NEW f \in Paths,
         observed[f].gen <= task[p].gen
  PROVE  rowGen[f] < task[p].gen
<1>1. task[p].gen \in inFlight /\ rowGen[f] # task[p].gen
  BY DEF IndexInv, TicketsInFlight, WritesFollowCommits, Uncommitted, Working
<1>2. task[p].gen \in Nat /\ rowGen[f] \in Nat /\ observed[f].gen \in Nat
  BY DEF IndexInv, IndexTypeOK, Tasks
<1>3. ~(task[p].gen < rowGen[f])
  BY <1>1, <1>2 DEF IndexInv, NewestRemembered
<1> QED BY <1>1, <1>2, <1>3
(* A commit that writes a row takes the tracker's lock, has the newest ticket that
   wrote it, and is remembered as long as an older one is in flight. *)
Writes(p, f) ==
  /\ rowGen[f] < task[p].gen /\ rowGen'[f] = task[p].gen
  /\ \A h \in inFlight : h < task[p].gen => task[p].gen <= observed'[f].gen
  /\ Uncommitted(p) /\ ~Uncommitted(p)'
  /\ trackerLock' = p

Keeps(f) == rows'[f] = rows[f] /\ rowGen'[f] = rowGen[f]

LEMMA CommitShape ==
  ASSUME IndexInv, NEW p \in Threads, IndexStep(p), ~Finish(p), NEW f \in Paths
  PROVE  Keeps(f) \/ Writes(p, f)
<1>1. /\ task[p] \in Tasks /\ task \in [Threads -> Tasks] /\ task[p].paths \subseteq Paths
      /\ observed \in [Paths -> Entries]
  BY DEF IndexInv, IndexTypeOK, Entries, Tasks
<1>2. ASSUME Announced(p), f \in task[p].paths, observed'[f].gen = observed[f].gen
      PROVE  \A h \in inFlight : h < task[p].gen => task[p].gen <= observed'[f].gen
  BY <1>2 DEF IndexInv, AnnouncedRemembered
<1>3. ASSUME NEW S, NEW new, Store(task[p].gen, S, new)
      PROVE  IF f \in S THEN rowGen'[f] = task[p].gen ELSE Keeps(f)
  BY <1>3 DEF Store, Keeps, IndexInv, IndexTypeOK
<1>4. ASSUME Leave(p, TRUE), Uncommitted(p)
      PROVE  Uncommitted(p) /\ ~Uncommitted(p)' /\ trackerLock' = p
  BY <1>1, <1>4 DEF Leave, Goto, Uncommitted
<1>5. CASE CommitIndex(p)
  <2> DEFINE allowed == {x \in Analyzed(p) : Allows(observed, task[p].gen, x)}
             stale == {x \in allowed : rows[x] # Found(p, x)}
  <2>1. /\ AllRead(p) /\ Leave(p, stale # {}) /\ UNCHANGED trackerVars
        /\ Store(task[p].gen, stale, [x \in stale |-> Found(p, x)])
    BY <1>5 DEF CommitIndex
  <2>2. CASE f \in stale
    <3>1. Leave(p, TRUE)
      BY <2>1, <2>2
    <3>2. f \in task[p].paths /\ observed[f].gen <= task[p].gen
      BY <2>2 DEF Analyzed, Allows
    <3>3. Uncommitted(p) /\ Announced(p)
      BY <2>1 DEF AllRead, Uncommitted, Announced
    <3>4. rowGen[f] < task[p].gen
      BY <3>2, <3>3, AllowedIsNewer
    <3>5. rowGen'[f] = task[p].gen
      <4> HIDE DEF stale
      <4> QED BY <1>3, <2>1, <2>2
    <3>6. \A h \in inFlight : h < task[p].gen => task[p].gen <= observed'[f].gen
      BY <1>2, <2>1, <3>2, <3>3 DEF trackerVars
    <3> QED BY <1>4, <3>1, <3>3, <3>4, <3>5, <3>6 DEF Writes
  <2>3. CASE f \notin stale
    <3> HIDE DEF stale
    <3> QED BY <1>3, <2>1, <2>3
  <2> QED BY <2>2, <2>3
<1>6. CASE CommitRemove(p)
  <2> DEFINE allowed == {x \in task[p].paths : Allows(observed, task[p].gen, x)}
             existing == {x \in allowed : rows[x] # Absent}
  <2>1. /\ task[p].at = "commit" /\ Leave(p, existing # {}) /\ UNCHANGED trackerVars
        /\ Store(task[p].gen, existing, [x \in existing |-> Absent])
    BY <1>6 DEF CommitRemove
  <2>2. CASE f \in existing
    <3>1. Leave(p, TRUE)
      BY <2>1, <2>2
    <3>2. f \in task[p].paths /\ observed[f].gen <= task[p].gen
      BY <2>2 DEF Allows
    <3>3. Uncommitted(p) /\ Announced(p)
      BY <2>1 DEF Uncommitted, Announced
    <3>4. rowGen[f] < task[p].gen
      BY <3>2, <3>3, AllowedIsNewer
    <3>5. rowGen'[f] = task[p].gen
      <4> HIDE DEF existing
      <4> QED BY <1>3, <2>1, <2>2
    <3>6. \A h \in inFlight : h < task[p].gen => task[p].gen <= observed'[f].gen
      BY <1>2, <2>1, <3>2, <3>3 DEF trackerVars
    <3> QED BY <1>4, <3>1, <3>3, <3>4, <3>5, <3>6 DEF Writes
  <2>3. CASE f \notin existing
    <3> HIDE DEF existing
    <3> QED BY <1>3, <2>1, <2>3
  <2> QED BY <2>2, <2>3
<1>7. CASE CommitRefresh(p)
  <2> DEFINE known == task[p].known
             bulk == task[p].bulk /\ Analyzed(p) = task[p].paths /\ latestObserved <= task[p].gen
             seen == TombstonedBySnapshot(p)
             allowed == {x \in Paths : Allows(seen, task[p].gen, x)}
             retimed == {x \in Analyzed(p) :
                           known[x].text = Found(p, x).text /\ known[x] # Found(p, x)}
             parsed == {x \in Analyzed(p) : known[x].text # Found(p, x).text}
             missing == {x \in Paths \ task[p].paths : rows[x] # Absent}
             upserts == {x \in parsed \cap allowed : bulk \/ rows[x] # Found(p, x)}
             retimes == {x \in retimed \cap allowed : rows[x].text = Found(p, x).text}
             deletes == IF bulk THEN missing ELSE missing \cap allowed
             written == upserts \cup retimes \cup deletes
             new == [x \in written |-> IF x \in deletes THEN Absent ELSE Found(p, x)]
  <2>1. /\ AllRead(p) /\ Leave(p, written # {}) /\ observed' = seen
        /\ Store(task[p].gen, written, new)
    BY <1>7 DEF CommitRefresh
  <2>2. CASE f \in written
    <3>1. Leave(p, TRUE)
      BY <2>1, <2>2
    <3>2. Uncommitted(p) /\ Announced(p)
      BY <2>1 DEF AllRead, Uncommitted, Announced
    <3>3. /\ observed[f].gen \in Nat /\ task[p].gen \in Nat /\ latestObserved \in Nat
          /\ seen[f].gen \in Nat /\ observed[f].gen <= latestObserved
      BY <1>1, TombstonesType DEF IndexInv, IndexTypeOK, Tasks, Entries, LatestIsLatest
    <3>4. /\ observed[f].gen <= seen[f].gen
          /\ seen[f].gen = observed[f].gen \/ seen[f].gen = task[p].gen
          /\ f \notin task[p].paths /\ rows[f] # Absent => task[p].gen <= seen[f].gen
      BY TombstonesGrow DEF IndexInv
    <3>5. \/ f \in task[p].paths /\ seen[f].gen <= task[p].gen
          \/ f \in missing /\ (latestObserved <= task[p].gen \/ seen[f].gen <= task[p].gen)
      BY <2>2 DEF Analyzed, Allows
    <3>6. observed[f].gen <= task[p].gen
      <4> HIDE DEF seen, missing
      <4> QED BY <3>3, <3>4, <3>5
    <3>7. rowGen[f] < task[p].gen
      BY <3>2, <3>6, AllowedIsNewer
    <3>8. rowGen'[f] = task[p].gen
      <4> HIDE DEF written, new
      <4> QED BY <1>3, <2>1, <2>2
    <3>9. \A h \in inFlight : h < task[p].gen => task[p].gen <= observed'[f].gen
      <4>1. CASE f \in task[p].paths
        <5>1. ASSUME NEW h \in inFlight, h < task[p].gen PROVE task[p].gen <= observed[f].gen
          BY <3>2, <4>1, <5>1 DEF IndexInv, AnnouncedRemembered
        <5>2. observed'[f].gen = seen[f].gen
          <6> HIDE DEF seen
          <6> QED BY <2>1
        <5>3. task[p].gen \in Nat /\ observed[f].gen \in Nat /\ seen[f].gen \in Nat /\ observed[f].gen <= seen[f].gen
          BY <3>3, <3>4
        <5> HIDE DEF seen
        <5>4. ASSUME NEW h \in inFlight, h < task[p].gen PROVE task[p].gen <= observed'[f].gen
          BY <5>1, <5>2, <5>3, <5>4, SMTT(30)
        <5> QED BY <5>4
      <4>2. CASE f \in missing
        BY <2>1, <3>4, <4>2
      <4> QED BY <3>5, <4>1, <4>2
    <3> QED BY <1>4, <3>1, <3>2, <3>7, <3>8, <3>9 DEF Writes
  <2>3. CASE f \notin written
    <3> HIDE DEF written, new
    <3> QED BY <1>3, <2>1, <2>3
  <2> QED BY <2>2, <2>3
<1>8. CASE CommitEnsure(p)
  <2> DEFINE ok == Allows(observed, task[p].gen, TheFile(p))
             S == IF ok THEN {TheFile(p)} ELSE {}
  <2>1. /\ task[p].at = "commit" /\ task[p].op = "ensure" /\ Leave(p, ok) /\ UNCHANGED trackerVars
        /\ Store(task[p].gen, S, [x \in {TheFile(p)} |-> Found(p, x)])
    BY <1>8 DEF CommitEnsure
  <2>2. CASE f \in S
    <3>1. ok /\ f = TheFile(p)
      BY <2>2
    <3>2. f \in task[p].paths /\ observed[f].gen <= task[p].gen
      BY <2>1, <3>1, EnsuredFile DEF Allows, IndexInv, Working
    <3>3. Uncommitted(p) /\ Announced(p)
      BY <2>1 DEF Uncommitted, Announced
    <3>4. rowGen[f] < task[p].gen
      BY <3>2, <3>3, AllowedIsNewer
    <3>5. rowGen'[f] = task[p].gen
      <4> HIDE DEF S
      <4> QED BY <1>3, <2>1, <2>2
    <3>6. \A h \in inFlight : h < task[p].gen => task[p].gen <= observed'[f].gen
      BY <1>2, <2>1, <3>2, <3>3 DEF trackerVars
    <3>7. Leave(p, TRUE)
      <4>1. ok = TRUE
        BY <3>1 DEF Allows
      <4> HIDE DEF ok
      <4> QED BY <2>1, <4>1
    <3> QED BY <1>4, <3>3, <3>4, <3>5, <3>6, <3>7 DEF Writes
  <2>3. CASE f \notin S
    <3> HIDE DEF S
    <3> QED BY <1>3, <2>1, <2>3
  <2> QED BY <2>2, <2>3
<1>9. CASE UNCHANGED <<rows, rowGen>>
  BY <1>9 DEF Keeps
<1> QED BY <1>5, <1>6, <1>7, <1>8, <1>9
     DEF IndexStep, Collect, Survey, ReadFile, Observe, CommitFails, RecordCommit, EnsureStat,
         EnsureOverlap, EnsureFast, EnsureText, storeVars
(* A call announces the files it observes, and they stay its files. *)
LEMMA AnnouncedFiles ==
  ASSUME IndexTypeOK, NEW p \in Threads, IndexStep(p), ~Finish(p), Announced(p)'
  PROVE  task'[p].paths = task[p].paths /\ (Announced(p) \/ Observe(p))
<1> USE DEF IndexTypeOK, Tasks, Announced, Goto
<1>1. CASE Collect(p)
  BY <1>1 DEF Collect
<1>2. CASE Survey(p)
  BY <1>2 DEF Survey
<1>3. ASSUME NEW f \in Paths, ReadFile(p, f)
      PROVE  task'[p].paths = task[p].paths /\ Announced(p)
  BY <1>3 DEF ReadFile
<1>4. CASE Observe(p)
  BY <1>4 DEF Observe
<1>5. CASE CommitIndex(p)
  BY <1>5 DEF CommitIndex, Leave, AllRead
<1>6. CASE CommitRemove(p)
  BY <1>6 DEF CommitRemove, Leave
<1>7. CASE CommitRefresh(p)
  BY <1>7, RefreshMoves
<1>8. CASE CommitFails(p)
  BY <1>8 DEF CommitFails, AllRead
<1>9. CASE RecordCommit(p)
  BY <1>9 DEF RecordCommit
<1>10. CASE EnsureStat(p)
  BY <1>10 DEF EnsureStat
<1>11. CASE EnsureOverlap(p)
  BY <1>11 DEF EnsureOverlap
<1>12. CASE EnsureFast(p)
  BY <1>12 DEF EnsureFast
<1>13. CASE EnsureText(p)
  BY <1>13 DEF EnsureText
<1>14. CASE CommitEnsure(p)
  BY <1>14 DEF CommitEnsure, Leave
<1> QED BY <1>1, <1>2, <1>3, <1>4, <1>5, <1>6, <1>7, <1>8, <1>9, <1>10, <1>11, <1>12, <1>13,
          <1>14 DEF IndexStep

LEMMA StepKeepsAnnounced ==
  ASSUME IndexInv, NEW p \in Threads, IndexStep(p), ~Finish(p)
  PROVE  AnnouncedRemembered'
<1> SUFFICES ASSUME NEW u \in Threads, Announced(u)', NEW h \in inFlight', h < task'[u].gen,
                    NEW f \in task'[u].paths
             PROVE  task'[u].gen <= observed'[f].gen
  BY DEF AnnouncedRemembered
<1>1. IndexTypeOK /\ IndexTypeOK'
  BY CallReadsType, CallWritesType DEF IndexInv, IndexStep
<1>2. f \in Paths /\ inFlight' = inFlight
  BY <1>1, StepMovesOneCall DEF IndexTypeOK, Tasks
<1>3. /\ observed[f].gen <= observed'[f].gen
      /\ observed[f].gen \in Nat /\ observed'[f].gen \in Nat /\ task'[u].gen \in Nat
  BY <1>1, <1>2, StepKeepsEntries DEF IndexTypeOK, Tasks
<1>4. CASE u # p
  <2>1. task'[u] = task[u]
    BY <1>1, <1>4, StepMovesOneCall
  <2>2. task[u].gen <= observed[f].gen
    BY <1>2, <2>1 DEF IndexInv, AnnouncedRemembered, Announced
  <2> QED BY <1>3, <2>1, <2>2
<1>5. CASE u = p
  <2>1. task'[p].paths = task[p].paths /\ (Announced(p) \/ Observe(p)) /\ task'[p].gen = task[p].gen
    BY <1>1, <1>5, AnnouncedFiles, StepMovesOneCall
  <2>2. CASE Observe(p)
    BY <1>2, <1>5, <2>1, <2>2, StepKeepsEntries
  <2>3. CASE Announced(p)
    <3>1. task[p].gen <= observed[f].gen
      BY <1>2, <1>5, <2>1, <2>3 DEF IndexInv, AnnouncedRemembered
    <3> QED BY <1>3, <1>5, <2>1, <3>1
  <2> QED BY <2>1, <2>2, <2>3
<1> QED BY <1>4, <1>5

LEMMA StepKeepsTextBeforeTime ==
  ASSUME IndexInv, NEW p \in Threads, IndexStep(p), ~Finish(p)
  PROVE  TextBeforeTime'
<1> DEFINE Indexing(u) == task[u].op \in {"index", "refresh"} =>
             \A f \in Paths : task[u].mtime[f] # Unread => task[u].text[f] # Unread
           Placed(u) == task[u].at \in {"stat", "overlap", "fast", "text"} => task[u].op = "ensure"
           Ensuring(u) == Working(u) /\ task[u].op = "ensure" =>
             /\ task[u].paths # {}
             /\ task[u].at \in {"overlap", "fast", "text", "commit"} =>
                  task[u].mtime[TheFile(u)] # Unread
             /\ task[u].at = "commit" \/ (task[u].at = "fast" /\ task[u].overlap) =>
                  task[u].text[TheFile(u)] # Unread
<1>1. /\ task \in [Threads -> Tasks] /\ Indexing(p) /\ Ensuring(p) /\ Placed(p)
      /\ \A f \in Paths : disk[f].mtime # Unread /\ disk[f].text # Unread
  BY DEF IndexInv, IndexTypeOK, FileStates, Unread, TextBeforeTime
<1>2. ASSUME Working(p), task[p].op = "ensure" PROVE TheFile(p) \in Paths
  BY <1>2, EnsuredFile DEF IndexInv
<1>3. Indexing(p)' /\ Ensuring(p)' /\ Placed(p)'
  <2> USE DEF Tasks, Working, TheFile, Goto
  <2>1. CASE Collect(p)
    BY <1>1, <2>1 DEF Collect
  <2>2. CASE Survey(p)
    BY <1>1, <2>2 DEF Survey
  <2>3. ASSUME NEW f \in Paths, ReadFile(p, f) PROVE Indexing(p)' /\ Ensuring(p)' /\ Placed(p)'
    <3>1. /\ task'[p].at = "read" /\ task[p].at = "read" /\ task'[p].op = task[p].op
          /\ task'[p].paths = task[p].paths
      BY <1>1, <2>3 DEF ReadFile
    <3>2. CASE /\ task[p].text[f] = Unread
               /\ task' = [task EXCEPT ![p].text[f] = disk[f].text]
      BY <1>1, <3>1, <3>2
    <3>3. CASE /\ task[p].text[f] \notin {Unread, 0}
               /\ task' = [task EXCEPT ![p].text[f] = IF disk[f] = Absent THEN 0 ELSE @,
                                       ![p].mtime[f] = disk[f].mtime]
      <4>1. \A x \in Paths : task'[p].text[x] = IF x = f /\ disk[f] = Absent THEN 0
                                               ELSE task[p].text[x]
        BY <1>1, <3>3
      <4>2. \A x \in Paths \ {f} : task'[p].mtime[x] = task[p].mtime[x]
        BY <1>1, <3>3
      <4>3. Indexing(p)'
        BY <1>1, <3>1, <3>3, <4>1, <4>2 DEF Unread
      <4> QED BY <1>1, <3>1, <4>3
    <3> QED BY <2>3, <3>2, <3>3 DEF ReadFile
  <2>4. CASE Observe(p)
    BY <1>1, <2>4 DEF Observe
  <2>5. ASSUME NEW place \in TaskSteps \ {"idle", "stat", "overlap", "fast", "text", "commit"},
               Working(p), Goto(p, place)
        PROVE  Indexing(p)' /\ Ensuring(p)' /\ Placed(p)'
    BY <1>1, <2>5
  <2>6. CASE CommitIndex(p)
    BY <2>5, <2>6 DEF CommitIndex, Leave, AllRead, TaskSteps
  <2>7. CASE CommitRemove(p)
    BY <2>5, <2>7 DEF CommitRemove, Leave, TaskSteps
  <2>8. CASE CommitRefresh(p)
    BY <2>5, <2>8, RefreshMoves DEF TaskSteps
  <2>9. CASE CommitFails(p) \/ RecordCommit(p)
    BY <2>5, <2>9 DEF CommitFails, RecordCommit, AllRead, TaskSteps
  <2>10. CASE EnsureStat(p)
    <3>1. Working(p) /\ task[p].at = "stat"
      BY <2>10 DEF EnsureStat
    <3>2. /\ task'[p].op = task[p].op /\ task'[p].paths = task[p].paths
          /\ task'[p].text = task[p].text /\ task'[p].at \in {"finish", "overlap"}
          /\ task'[p].mtime = [task[p].mtime EXCEPT ![TheFile(p)] = disk[TheFile(p)].mtime]
      BY <1>1, <2>10 DEF EnsureStat
    <3>3. task'[p].op = "ensure" => task'[p].mtime[TheFile(p)] # Unread
      BY <1>1, <1>2, <3>1, <3>2
    <3> QED BY <1>1, <3>1, <3>2, <3>3
  <2>11. CASE EnsureOverlap(p)
    BY <1>1, <1>2, <2>11 DEF EnsureOverlap
  <2>12. CASE EnsureFast(p)
    BY <1>1, <1>2, <2>12 DEF EnsureFast
  <2>13. CASE EnsureText(p)
    <3> DEFINE f == TheFile(p)
               place == IF disk[f] = Absent THEN "finish" ELSE IF task[p].overlap THEN "fast" ELSE "commit"
    <3>1. task[p].at = "text" /\ task' = [task EXCEPT ![p].text[f] = disk[f].text, ![p].at = place]
      BY <2>13 DEF EnsureText
    <3>2. f \in Paths /\ task[p].op = "ensure" /\ task[p].mtime[f] # Unread
      BY <1>1, <1>2, <3>1
    <3>3. place \in {"finish", "fast", "commit"}
      OBVIOUS
    <3> HIDE DEF place
    <3>4. /\ task'[p].op = "ensure" /\ task'[p].paths = task[p].paths
          /\ task'[p].mtime = task[p].mtime /\ task'[p].at = place
          /\ task'[p].text = [task[p].text EXCEPT ![f] = disk[f].text]
      BY <1>1, <3>1, <3>2
    <3>5. task'[p].text[f] # Unread
      BY <1>1, <3>2, <3>4
    <3>6. task[p].paths # {}
      BY <1>1, <3>1, <3>2
    <3>7. TheFile(p)' = f
      BY <3>4
    <3> HIDE DEF f
    <3>8. Indexing(p)' /\ Placed(p)'
      BY <3>4
    <3>9. Ensuring(p)'
      BY <3>2, <3>4, <3>5, <3>6, <3>7
    <3> QED BY <3>8, <3>9
  <2>14. CASE CommitEnsure(p)
    BY <2>5, <2>14 DEF CommitEnsure, Leave, TaskSteps
  <2> QED BY <2>1, <2>2, <2>3, <2>4, <2>5, <2>6, <2>7, <2>8, <2>9, <2>10, <2>11, <2>12, <2>13,
            <2>14 DEF IndexStep
<1>4. ASSUME NEW u \in Threads \ {p} PROVE Indexing(u)' /\ Ensuring(u)' /\ Placed(u)'
  <2>1. task'[u] = task[u]
    BY StepMovesOneCall DEF IndexInv
  <2>2. Indexing(u) /\ Ensuring(u) /\ Placed(u)
    BY DEF IndexInv, TextBeforeTime
  <2> QED BY <2>1, <2>2 DEF Working, TheFile
<1> QED BY <1>3, <1>4 DEF TextBeforeTime

-----------------------------------------------------------------------------
(* The inductive invariant is kept *)

LEMMA StepKeepsInv ==
  ASSUME IndexInv, NEW p \in Threads, IndexStep(p), ~Finish(p)
  PROVE  IndexInv'
<1>1. IndexTypeOK /\ IndexTypeOK'
  BY CallReadsType, CallWritesType DEF IndexInv, IndexStep
<1>2. /\ \A u \in Threads \ {p} : task'[u] = task[u]
      /\ task'[p].gen = task[p].gen /\ Working(p) /\ (Uncommitted(p)' => Uncommitted(p))
      /\ inFlight' = inFlight
  BY <1>1, StepMovesOneCall
<1>3. TicketsInFlight'
  <2>1. \A u \in Threads : task'[u].gen = task[u].gen /\ (Working(u)' => Working(u))
    BY <1>2 DEF Working
  <2> QED BY <1>2, <2>1 DEF IndexInv, TicketsInFlight
<1>4. WritesFollowCommits'
  <2> SUFFICES ASSUME NEW u \in Threads, Uncommitted(u)', NEW f \in Paths
               PROVE  rowGen'[f] # task'[u].gen
    BY DEF WritesFollowCommits
  <2>1. Uncommitted(u) /\ task'[u].gen = task[u].gen /\ rowGen[f] # task[u].gen
    BY <1>2 DEF Uncommitted, IndexInv, WritesFollowCommits
  <2>2. CASE Keeps(f)
    BY <2>1, <2>2 DEF Keeps
  <2>3. CASE Writes(p, f)
    <3>1. u # p
      BY <2>3 DEF Writes
    <3>2. task[u].gen # task[p].gen
      BY <1>2, <2>1, <3>1 DEF IndexInv, TicketsInFlight, Uncommitted, Working
    <3> QED BY <2>1, <2>3, <3>2 DEF Writes
  <2> QED BY <2>2, <2>3, CommitShape
<1>5. NewestRemembered'
  <2> SUFFICES ASSUME NEW f \in Paths, NEW g \in inFlight', g < rowGen'[f]
               PROVE  rowGen'[f] <= observed'[f].gen
    BY DEF NewestRemembered
  <2>1. /\ observed[f].gen <= observed'[f].gen /\ observed[f].gen \in Nat
        /\ observed'[f].gen \in Nat /\ rowGen[f] \in Nat
    BY <1>1, StepKeepsEntries DEF IndexTypeOK
  <2>2. CASE Keeps(f)
    BY <1>2, <2>1, <2>2 DEF Keeps, IndexInv, NewestRemembered
  <2>3. CASE Writes(p, f)
    BY <1>2, <2>3 DEF Writes
  <2> QED BY <2>2, <2>3, CommitShape
<1>6. LatestIsLatest'
  BY StepKeepsEntries DEF LatestIsLatest
<1> QED BY <1>1, <1>3, <1>4, <1>5, <1>6, StepKeepsAnnounced, StepKeepsTextBeforeTime DEF IndexInv

LEMMA NewCallKeepsInv ==
  ASSUME IndexInv, WatcherStart \/ \E p \in Callers : CallStart(p)
  PROVE  IndexInv'
<1>1. IndexTypeOK /\ IndexTypeOK'
  BY NewCallType DEF IndexInv
<1>2. PICK p \in Threads, op \in IndexOps, S \in SUBSET Paths :
        Start(p, op, S) /\ (op = "ensure" => S # {})
  BY <1>1, NewCallStarts
<1>3. UNCHANGED <<rowGen, observed, latestObserved>>
  BY DEF WatcherStart, CallStart, storeVars
<1>4. /\ nextGeneration \in Nat /\ inFlight' = inFlight \cup {nextGeneration + 1}
      /\ \A u \in Threads \ {p} : task'[u] = task[u] /\ task[u].gen \in 0..nextGeneration
      /\ \A f \in Paths : rowGen[f] \in 0..nextGeneration
      /\ \A h \in inFlight : h \in 1..nextGeneration
  BY <1>1, <1>2 DEF Start, IndexTypeOK, Tasks
<1>5. /\ task'[p].at = "begun" /\ task'[p].op = op /\ task'[p].gen = nextGeneration + 1
      /\ task'[p].paths = S /\ \A f \in Paths : task'[p].mtime[f] = Unread
  BY <1>1, <1>2 DEF Start, IndexTypeOK, NoTask
<1>6. TicketsInFlight'
  BY <1>4, <1>5 DEF IndexInv, TicketsInFlight, Working
<1>7. TextBeforeTime'
  <2>1. \A u \in Threads \ {p} : TheFile(u)' = TheFile(u) /\ Working(u)' = Working(u)
    BY <1>4 DEF TheFile, Working
  <2> QED BY <1>2, <1>4, <1>5, <2>1 DEF IndexInv, TextBeforeTime
<1>8. WritesFollowCommits'
  BY <1>3, <1>4, <1>5 DEF IndexInv, WritesFollowCommits, Uncommitted
<1>9. AnnouncedRemembered'
  <2> SUFFICES ASSUME NEW u \in Threads, Announced(u)', NEW h \in inFlight', h < task'[u].gen,
                      NEW f \in task'[u].paths
               PROVE  task'[u].gen <= observed'[f].gen
    BY DEF AnnouncedRemembered
  <2>1. u # p /\ task'[u] = task[u] /\ Announced(u)
    BY <1>4, <1>5 DEF Announced
  <2>2. h \in inFlight
    BY <1>4, <2>1
  <2> QED BY <1>3, <2>1, <2>2 DEF IndexInv, AnnouncedRemembered
<1>10. LatestIsLatest'
  BY <1>3 DEF IndexInv, LatestIsLatest
<1>11. NewestRemembered'
  BY <1>3, <1>4 DEF IndexInv, NewestRemembered
<1> QED BY <1>1, <1>6, <1>7, <1>8, <1>9, <1>10, <1>11 DEF IndexInv

(* The tracker forgets only what no ticket in flight could overwrite. *)
LEMMA PruningKeepsNeeded ==
  ASSUME IndexTypeOK, NEW flight \in SUBSET inFlight, NEW h \in flight, NEW f \in Paths
  PROVE  h < observed[f].gen => Pruned(observed, flight)[f] = observed[f]
<1>1. flight \in SUBSET (Nat \ {0}) /\ h \in Nat /\ observed[f].gen \in Nat
  BY DEF IndexTypeOK
<1>2. Min(flight) <= h /\ Min(flight) \in Nat
  BY <1>1, MinInFlight
<1> QED BY <1>1, <1>2 DEF Pruned

LEMMA FinishKeepsInv ==
  ASSUME IndexInv, NEW p \in Threads, Finish(p)
  PROVE  IndexInv'
<1>1. IndexTypeOK /\ IndexTypeOK'
  BY FinishType DEF IndexInv
<1>2. /\ inFlight' = inFlight \ {task[p].gen} /\ observed' = Pruned(observed, inFlight')
      /\ UNCHANGED <<rowGen, latestObserved>>
      /\ task'[p] = NoTask /\ \A u \in Threads \ {p} : task'[u] = task[u]
      /\ Working(p)
  BY <1>1 DEF Finish, storeVars, IndexTypeOK, Working
<1>3. ~Working(p)' /\ ~Uncommitted(p)' /\ ~Announced(p)' /\ task'[p].op = "none"
      /\ task'[p].at = "idle"
  BY <1>2 DEF NoTask, Working, Uncommitted, Announced
<1>4. TicketsInFlight'
  BY <1>2, <1>3 DEF IndexInv, TicketsInFlight, Working
<1>5. TextBeforeTime'
  <2>1. \A u \in Threads \ {p} : TheFile(u)' = TheFile(u) /\ Working(u)' = Working(u)
    BY <1>2 DEF TheFile, Working
  <2> QED BY <1>2, <1>3, <2>1 DEF IndexInv, TextBeforeTime
<1>6. WritesFollowCommits'
  BY <1>2, <1>3 DEF IndexInv, WritesFollowCommits, Uncommitted
<1>7. AnnouncedRemembered'
  <2> SUFFICES ASSUME NEW u \in Threads, Announced(u)', NEW h \in inFlight', h < task'[u].gen,
                      NEW f \in task'[u].paths
               PROVE  task'[u].gen <= observed'[f].gen
    BY DEF AnnouncedRemembered
  <2>1. u # p /\ task'[u] = task[u] /\ Announced(u) /\ h \in inFlight /\ f \in Paths
    BY <1>1, <1>2, <1>3 DEF Announced, IndexTypeOK, Tasks
  <2>2. task[u].gen <= observed[f].gen
    BY <2>1 DEF IndexInv, AnnouncedRemembered
  <2>3. h < observed[f].gen
    BY <1>1, <2>1, <2>2 DEF IndexTypeOK, Tasks
  <2>4. observed'[f] = observed[f]
    BY <1>1, <1>2, <2>1, <2>3, PruningKeepsNeeded
  <2> QED BY <2>1, <2>2, <2>4
<1>8. LatestIsLatest'
  BY <1>1, <1>2 DEF IndexInv, IndexTypeOK, LatestIsLatest, Pruned, NoEntry
<1>9. NewestRemembered'
  <2> SUFFICES ASSUME NEW f \in Paths, NEW g \in inFlight', g < rowGen'[f]
               PROVE  rowGen'[f] <= observed'[f].gen
    BY DEF NewestRemembered
  <2>1. g \in inFlight /\ rowGen[f] <= observed[f].gen
    BY <1>2 DEF IndexInv, NewestRemembered
  <2>2. g < observed[f].gen
    BY <1>1, <1>2, <2>1 DEF IndexTypeOK
  <2>3. observed'[f] = observed[f]
    BY <1>1, <1>2, <2>1, <2>2, PruningKeepsNeeded
  <2> QED BY <1>2, <2>1, <2>3
<1> QED BY <1>1, <1>4, <1>5, <1>6, <1>7, <1>8, <1>9 DEF IndexInv

LEMMA OthersKeepInv ==
  ASSUME IndexInv,
         \/ \E f \in Paths : ChangeFile(f)
         \/ TakeEvents \/ FencedRead \/ UNCHANGED indexVars
  PROVE  IndexInv'
<1>1. IndexTypeOK'
  <2>1. CASE UNCHANGED indexVars
    BY <2>1 DEF indexVars, trackerVars, storeVars, worldVars, IndexInv, IndexTypeOK, Tasks, Reads,
                NoRead
  <2> QED BY <2>1, WorldType DEF IndexInv
<1>2. UNCHANGED <<inFlight, observed, latestObserved, rowGen, task>>
  BY DEF ChangeFile, TakeEvents, FencedRead, indexVars, trackerVars, storeVars
<1> QED BY <1>1, <1>2
     DEF IndexInv, TicketsInFlight, TextBeforeTime, WritesFollowCommits, AnnouncedRemembered,
         LatestIsLatest, NewestRemembered, Working, Uncommitted, Announced, TheFile

LEMMA IndexNextInv == IndexInv /\ [IndexNext]_indexVars => IndexInv'
BY StepKeepsInv, FinishKeepsInv, NewCallKeepsInv, OthersKeepInv DEF IndexNext, IndexAtRest

LEMMA IndexInvariant == IndexSpec => []IndexInv
BY IndexInitInv, IndexNextInv, PTL DEF IndexSpec

(* Every variable of the index keeps its kind: no row is a file half read. *)
THEOREM IndexTypeCorrect == IndexSpec => []IndexTypeOK
<1>1. IndexInv => IndexTypeOK
  BY DEF IndexInv
<1> QED BY <1>1, IndexInvariant, PTL

(* The tracker remembers the newest writer of a row as long as an older ticket is
   in flight, although it forgets announcements when tickets are dropped. *)
THEOREM WriterRemembered == IndexSpec => []NewestRemembered
<1>1. IndexInv => NewestRemembered
  BY DEF IndexInv
<1> QED BY <1>1, IndexInvariant, PTL

(* No row ever goes back to what an older ticket saw. *)
THEOREM RowsForward == IndexSpec => RowsMoveForward
<1>1. IndexInv /\ [IndexNext]_indexVars
        => [\A f \in Paths : rows'[f] # rows[f] => rowGen[f] < rowGen'[f]]_indexVars
  <2> SUFFICES ASSUME IndexInv, IndexNext, NEW f \in Paths, rows'[f] # rows[f]
               PROVE  rowGen[f] < rowGen'[f]
    OBVIOUS
  <2>1. PICK p \in Threads : IndexStep(p) /\ ~Finish(p)
    BY DEF IndexNext, ChangeFile, TakeEvents, WatcherStart, CallStart, FencedRead, IndexAtRest,
           Finish, indexVars, storeVars
  <2> QED BY <2>1, CommitShape DEF Keeps, Writes
<1> QED BY <1>1, IndexInvariant, PTL DEF IndexSpec, RowsMoveForward
-----------------------------------------------------------------------------
(* Rows change only when the lock is taken, and the lock is given back only
   when the commit is counted. *)
LEMMA RowsChangeUnderLock ==
  ASSUME IndexInv, IndexNext, ~FencedRead
  PROVE  /\ reader' = reader
         /\ committed' = committed \/ committed' = committed + 1
         /\ \/ committed' = committed + 1 /\ rows' = rows
            \/ committed' = committed /\ rows' = rows /\ trackerLock' = trackerLock
            \/ committed' = committed /\ trackerLock' \in Threads
<1> USE DEF indexVars, trackerVars, storeVars, worldVars
<1>1. ASSUME NEW p \in Threads, IndexStep(p)
      PROVE  /\ reader' = reader
             /\ \/ committed' = committed + 1 /\ rows' = rows
                \/ committed' = committed /\ rows' = rows /\ trackerLock' = trackerLock
                \/ committed' = committed /\ trackerLock' \in Threads
  <2>1. ASSUME NEW S, NEW new, Store(task[p].gen, S, new), Leave(p, S # {})
        PROVE  \/ rows' = rows /\ trackerLock' = trackerLock
               \/ trackerLock' \in Threads
    <3>1. CASE S = {}
      <4>1. rows' = [f \in Paths |-> rows[f]] /\ trackerLock' = trackerLock
        BY <2>1, <3>1 DEF Store, Leave
      <4> QED BY <4>1 DEF IndexInv, IndexTypeOK
    <3>2. CASE S # {}
      BY <2>1, <3>2 DEF Leave
    <3> QED BY <3>1, <3>2
  <2>2. CASE CommitIndex(p)
    BY <2>1, <2>2 DEF CommitIndex
  <2>3. CASE CommitRemove(p)
    BY <2>1, <2>3 DEF CommitRemove
  <2>4. CASE CommitRefresh(p)
    BY <2>1, <2>4 DEF CommitRefresh
  <2>5. CASE CommitEnsure(p)
    <3> DEFINE ok == Allows(observed, task[p].gen, TheFile(p))
               S == IF ok THEN {TheFile(p)} ELSE {}
    <3>1. (S # {}) = ok
      BY DEF Allows
    <3>2. /\ Store(task[p].gen, S, [x \in {TheFile(p)} |-> Found(p, x)]) /\ Leave(p, ok)
          /\ reader' = reader /\ committed' = committed
      BY <2>5 DEF CommitEnsure
    <3> HIDE DEF S, ok
    <3>3. Leave(p, S # {})
      BY <3>1, <3>2
    <3> QED BY <2>1, <3>2, <3>3
  <2> QED BY <1>1, <2>2, <2>3, <2>4, <2>5
       DEF IndexStep, Collect, Survey, ReadFile, Observe, CommitFails, RecordCommit, EnsureStat,
           EnsureOverlap, EnsureFast, EnsureText, Finish
<1> QED BY <1>1 DEF IndexNext, ChangeFile, TakeEvents, WatcherStart, CallStart, IndexAtRest

(* A payload the fence lets through shows one generation, or a commit was under
   way that was not counted yet. *)
THEOREM FencedReads == IndexSpec => []FencedReadIsOneGeneration
<1> DEFINE Inv == FenceSeesCommits /\ FencedReadIsOneGeneration
<1>1. IndexInit => Inv
  BY IndexInitInv DEF IndexInit, NoRead, FencedReadIsOneGeneration
<1>2. IndexInv /\ Inv /\ [IndexNext]_indexVars => Inv'
  <2> SUFFICES ASSUME IndexInv, Inv, [IndexNext]_indexVars PROVE Inv'
    OBVIOUS
  <2> USE DEF FenceSeesCommits, FencedReadIsOneGeneration
  <2>1. /\ committed \in Nat /\ reader \in Reads /\ reader.before \in Nat
        /\ trackerLock \in Threads \cup {Nobody} /\ Nobody \notin Threads
    BY IndexAssumption DEF IndexInv, IndexTypeOK, Reads, Threads
  <2>2. CASE FencedRead
    <3>1. UNCHANGED <<rows, committed, trackerLock>>
      BY <2>2 DEF FencedRead, storeVars
    <3>2. CASE FenceCapture
      <4>1. reader'.at = "first" /\ reader'.before = committed
        BY <2>1, <3>2, RecordTypes DEF FenceCapture, Reads
      <4> QED BY <2>1, <3>1, <4>1
    <3>3. CASE FencedQuery
      <4>1. CASE reader.at = "first"
        <5>1. reader' = [reader EXCEPT !.first = rows[reader.path].text, !.at = "second"]
          BY <3>3, <4>1 DEF FencedQuery
        <5> QED BY <2>1, <3>1, <5>1 DEF Reads
      <4>2. CASE reader.at = "second"
        <5>1. reader' = [reader EXCEPT !.second = rows[reader.path].text, !.at = "compare"]
          BY <3>3, <4>2 DEF FencedQuery
        <5> QED BY <2>1, <3>1, <4>2, <5>1 DEF Reads
      <4> QED BY <3>3, <4>1, <4>2 DEF FencedQuery
    <3>4. CASE FenceFinish
      BY <2>1, <3>1, <3>4 DEF FenceFinish, Reads
    <3> QED BY <2>2, <3>2, <3>3, <3>4 DEF FencedRead
  <2>3. CASE IndexNext /\ ~FencedRead
    BY <2>1, <2>3, RowsChangeUnderLock
  <2>4. CASE UNCHANGED indexVars
    BY <2>4 DEF indexVars, storeVars
  <2> QED BY <2>2, <2>3, <2>4
<1>3. Inv => FencedReadIsOneGeneration
  OBVIOUS
<1> QED BY <1>1, <1>2, <1>3, IndexInvariant, PTL DEF IndexSpec
-----------------------------------------------------------------------------
(***************************************************************************)
(* Who will still look at a file                                           *)
(***************************************************************************)
FilesHaveText == \A f \in Paths : disk[f] # Absent => disk[f].text # 0

(* A change the watcher has not taken up yet. *)
Awaited(f) == f \in events \/ f \in (batch.changed \cup batch.removed) \ task[Watcher].paths

(* The watcher has taken it up, with a ticket newer than g. *)
Handling(f, g) == f \in task[Watcher].paths /\ Working(Watcher) /\ g < task[Watcher].gen

(* What is_file said of the files of a batch is so, or they changed again. *)
BatchIsTrue ==
  /\ batch.changed \cap batch.removed = {}
  /\ \A f \in batch.changed : disk[f] # Absent \/ f \in events
  /\ \A f \in batch.removed : disk[f] = Absent \/ f \in events

WatcherFitsBatch ==
  /\ task[Watcher].op \in {"none", "index", "remove"}
  /\ task[Watcher].op = "index" => task[Watcher].paths = batch.changed
  /\ task[Watcher].op = "remove" => task[Watcher].paths = batch.removed /\ batch.changed = {}
  /\ Working(Watcher) => task[Watcher].op # "none"
  /\ ~Working(Watcher) => task[Watcher].op = "none" /\ task[Watcher].paths = {}
  /\ \A p \in Callers : task[p].op # "remove"

(* What p has read of f so far is what the disk holds. *)
AsOnDisk(p, f) ==
  /\ task[p].text[f] \in {Unread, disk[f].text}
  /\ task[p].mtime[f] \in {Unread, disk[f].mtime}
  /\ task[p].op = "refresh" /\ task[p].at # "begun" /\ f \notin task[p].paths
       => disk[f] = Absent

(* A caller's outdated reading of a file is overtaken: the watcher has the change still
   to handle, handles it with a newer ticket, or a newer ticket has announced the file. *)
ReadingsHold ==
  \A p \in Callers : \A f \in Paths \ skipped : Uncommitted(p) =>
    AsOnDisk(p, f) \/ Awaited(f) \/ Handling(f, task[p].gen) \/ task[p].gen < observed[f].gen

WatcherReads == \A f \in task[Watcher].paths : AsOnDisk(Watcher, f) \/ f \in events

(* The fingerprints a refresh compares with are those of the rows it may write. *)
KnownRows ==
  \A p \in Threads : \A f \in Paths : task[p].op = "refresh" =>
    /\ task[p].at = "read" /\ ~task[p].bulk /\ f \in task[p].paths =>
         task[p].known[f] = rows[f] \/ task[p].gen < rowGen[f]
    /\ task[p].at \in {"begun", "collected", "survey"} \/ (task[p].at = "read" /\ task[p].bulk) =>
         task[p].known[f] = Absent

RowHolds(f) ==
  \/ rows[f] = disk[f] \/ Awaited(f)
  \/ Handling(f, seenBy[f]) /\ task[Watcher].at \notin {"count", "finish"}
  \/ seenBy[f] < owed[f]

RowsHold == \A f \in Paths \ skipped : RowHolds(f)

MatchInv ==
  /\ FilesHaveText /\ BatchIsTrue /\ WatcherFitsBatch /\ ReadingsHold /\ WatcherReads
  /\ KnownRows /\ RowsHold
-----------------------------------------------------------------------------
(* What a step of a call leaves alone, and what it does to its readings. *)
LEMMA StepFrame ==
  ASSUME IndexTypeOK, NEW p \in Threads, IndexStep(p), ~Finish(p)
  PROVE  /\ UNCHANGED <<disk, events, batch, skipped>>
         /\ task[p].op # "refresh" => task'[p].paths = task[p].paths
<1>1. UNCHANGED <<disk, events, batch, skipped>>
  BY DEF IndexStep, Collect, Survey, ReadFile, Observe, CommitIndex, CommitRemove, CommitRefresh,
         CommitFails, RecordCommit, EnsureStat, EnsureOverlap, EnsureFast, EnsureText,
         CommitEnsure, worldVars
<1>2. ASSUME task[p].op # "refresh" PROVE task'[p].paths = task[p].paths
  <2>1. ~Collect(p) /\ ~CommitRefresh(p)
    BY <1>2 DEF Collect, CommitRefresh
  <2>2. ASSUME NEW place, Goto(p, place) PROVE task'[p].paths = task[p].paths
    BY <2>2 DEF Goto, IndexTypeOK, Tasks
  <2>3. CASE Survey(p) \/ \E f \in Paths : ReadFile(p, f)
    <3>1. CASE Survey(p)
      BY <3>1 DEF Survey, IndexTypeOK, Tasks
    <3>2. ASSUME NEW f \in Paths, ReadFile(p, f) PROVE task'[p].paths = task[p].paths
      BY <3>2 DEF ReadFile, IndexTypeOK, Tasks
    <3> QED BY <2>3, <3>1, <3>2
  <2>4. CASE EnsureStat(p) \/ EnsureOverlap(p) \/ EnsureText(p)
    BY <2>4 DEF EnsureStat, EnsureOverlap, EnsureText, IndexTypeOK, Tasks
  <2>5. CASE \/ Observe(p) \/ CommitIndex(p) \/ CommitRemove(p) \/ CommitFails(p)
             \/ RecordCommit(p) \/ EnsureFast(p) \/ CommitEnsure(p)
    BY <2>2, <2>5 DEF Observe, CommitIndex, CommitRemove, CommitFails, RecordCommit, EnsureFast,
                      CommitEnsure, Leave
  <2> QED BY <2>1, <2>3, <2>4, <2>5 DEF IndexStep
<1> QED BY <1>1, <1>2

LEMMA ReadingsStay ==
  ASSUME IndexTypeOK, NEW p \in Threads, IndexStep(p), ~Finish(p), NEW f \in Paths,
         AsOnDisk(p, f)
  PROVE  AsOnDisk(p, f)'
<1>1. /\ task \in [Threads -> Tasks] /\ task[p] \in Tasks /\ disk' = disk
      /\ disk \in [Paths -> FileStates] /\ disk[f].text \in Nat /\ disk[f].mtime \in Nat
  BY StepFrame DEF IndexTypeOK, FileStates
<1> DEFINE Moved == \E place \in TaskSteps \ {"begun"} : Goto(p, place)
<1>2. ASSUME Moved, task[p].op = "refresh" => task[p].at # "begun" PROVE AsOnDisk(p, f)'
  BY <1>1, <1>2 DEF Goto, AsOnDisk, Tasks
<1>3. CASE Collect(p)
  BY <1>1, <1>3 DEF Collect, AsOnDisk, Tasks
<1>4. CASE Survey(p)
  BY <1>1, <1>4 DEF Survey, AsOnDisk, Tasks
<1>5. ASSUME NEW x \in Paths, ReadFile(p, x) PROVE AsOnDisk(p, f)'
  BY <1>1, <1>5 DEF ReadFile, AsOnDisk, Tasks, Absent
<1>6. CASE Observe(p)
  BY <1>1, <1>6 DEF Observe, AsOnDisk, Tasks, Goto
<1>7. CASE CommitIndex(p) \/ CommitRemove(p) \/ CommitEnsure(p)
  <2>1. Moved /\ task[p].at # "begun"
    BY <1>7 DEF CommitIndex, CommitRemove, CommitEnsure, Leave, TaskSteps, AllRead
  <2> QED BY <1>2, <2>1
<1>8. CASE CommitRefresh(p)
  <2>1. Moved /\ task[p].at # "begun"
    BY <1>8, RefreshMoves DEF TaskSteps
  <2> QED BY <1>2, <2>1
<1>9. CASE CommitFails(p) \/ RecordCommit(p) \/ EnsureFast(p)
  <2>1. Moved /\ task[p].at # "begun"
    BY <1>9 DEF CommitFails, RecordCommit, EnsureFast, TaskSteps, AllRead
  <2> QED BY <1>2, <2>1
<1>10. CASE EnsureStat(p) \/ EnsureText(p) \/ EnsureOverlap(p)
  BY <1>1, <1>10 DEF EnsureStat, EnsureText, EnsureOverlap, AsOnDisk, Tasks
<1> QED BY <1>3, <1>4, <1>5, <1>6, <1>7, <1>8, <1>9, <1>10 DEF IndexStep

-----------------------------------------------------------------------------
(***************************************************************************)
(* What a commit does to a row, the history included.                      *)
(***************************************************************************)
(* It gives way to a newer ticket. *)
GivesWay(p, f) ==
  /\ Keeps(f) /\ seenBy'[f] = seenBy[f]
  /\ task[p].gen < observed[f].gen /\ observed[f].gen <= owed'[f] /\ owed[f] <= owed'[f]

(* It writes what its call has read, or finds it written. *)
Settles(p, f) ==
  /\ seenBy'[f] = task[p].gen /\ owed'[f] = owed[f] /\ observed[f].gen <= task[p].gen
  /\ f \in task[p].paths \/ task[p].op = "refresh"
  /\ IF task[p].op = "remove" THEN rows'[f] = Absent
                              ELSE AsOnDisk(p, f) => rows'[f] = disk[f]

(* It has nothing to say of the file. *)
PassesBy(p, f) ==
  /\ Keeps(f) /\ seenBy'[f] = seenBy[f] /\ owed'[f] = owed[f]
  /\ f \in task[p].paths =>
       task[p].op # "remove" /\ (task[p].op = "index" => task[p].text[f] = 0)

Commits(p) ==
  CommitIndex(p) \/ CommitRemove(p) \/ CommitRefresh(p) \/ CommitEnsure(p) \/ EnsureFast(p)

LEMMA SettleShape ==
  ASSUME IndexTypeOK, NEW g \in 0..nextGeneration, NEW S, NEW B, Settle(g, S, B), NEW f \in Paths
  PROVE  /\ seenBy'[f] = IF f \in S THEN g ELSE seenBy[f]
         /\ f \notin B => owed'[f] = owed[f]
         /\ f \in B => observed[f].gen <= owed'[f] /\ owed[f] <= owed'[f]
BY DEF Settle, IndexTypeOK

LEMMA StoreShape ==
  ASSUME IndexTypeOK, NEW g \in 0..nextGeneration, NEW S, NEW new, Store(g, S, new), NEW f \in Paths
  PROVE  /\ f \in S => rows'[f] = new[f] /\ rowGen'[f] = g
         /\ f \notin S => Keeps(f)
BY DEF Store, IndexTypeOK, Keeps

(* A file read to its end is the file of the disk, if what was read of it is. *)
LEMMA FoundIsDisk ==
  ASSUME IndexTypeOK, NEW p \in Threads, NEW f \in Paths, AsOnDisk(p, f),
         task[p].text[f] # Unread, task[p].mtime[f] # Unread
  PROVE  Found(p, f) = disk[f]
<1>1. disk[f] \in FileStates
  BY DEF IndexTypeOK
<1>2. task[p].text[f] = disk[f].text /\ task[p].mtime[f] = disk[f].mtime
  BY DEF AsOnDisk
<1> QED BY <1>1, <1>2 DEF Found, FileStates

LEMMA IndexOutcome ==
  ASSUME IndexInv, NEW p \in Threads, CommitIndex(p), NEW f \in Paths
  PROVE  GivesWay(p, f) \/ Settles(p, f) \/ PassesBy(p, f)
<1> DEFINE g == task[p].gen
           allowed == {x \in Analyzed(p) : Allows(observed, g, x)}
           stale == {x \in allowed : rows[x] # Found(p, x)}
           new == [x \in stale |-> Found(p, x)]
<1>1. /\ task[p].op = "index" /\ AllRead(p) /\ Store(g, stale, new)
      /\ Settle(g, allowed, Analyzed(p) \ allowed)
  BY DEF CommitIndex
<1>2. /\ IndexTypeOK /\ g \in 0..nextGeneration /\ g \in Nat /\ observed[f].gen \in Nat
  BY DEF IndexInv, IndexTypeOK, Tasks
<1>3. /\ f \in stale => rows'[f] = new[f]
      /\ f \notin stale => Keeps(f)
  <2> HIDE DEF stale, new, g
  <2> QED BY <1>1, <1>2, StoreShape
<1>4. /\ seenBy'[f] = IF f \in allowed THEN g ELSE seenBy[f]
      /\ f \notin Analyzed(p) \ allowed => owed'[f] = owed[f]
      /\ f \in Analyzed(p) \ allowed => observed[f].gen <= owed'[f] /\ owed[f] <= owed'[f]
  <2> HIDE DEF allowed, g
  <2> QED BY <1>1, <1>2, SettleShape
<1>5. CASE f \in allowed
  <2>1. rows'[f] = Found(p, f)
    BY <1>3, <1>5 DEF Keeps
  <2>2. task[p].text[f] # Unread /\ task[p].mtime[f] # Unread /\ f \in task[p].paths
    BY <1>1, <1>5 DEF AllRead, Analyzed, IndexInv, TextBeforeTime
  <2> QED BY <1>1, <1>2, <1>4, <1>5, <2>1, <2>2, FoundIsDisk DEF Settles, Allows
<1>6. CASE f \in Analyzed(p) \ allowed
  BY <1>2, <1>3, <1>4, <1>6 DEF GivesWay, Allows
<1>7. CASE f \notin Analyzed(p)
  BY <1>1, <1>3, <1>4, <1>7 DEF PassesBy, Analyzed
<1> QED BY <1>5, <1>6, <1>7

LEMMA RemoveOutcome ==
  ASSUME IndexInv, NEW p \in Threads, CommitRemove(p), NEW f \in Paths
  PROVE  GivesWay(p, f) \/ Settles(p, f) \/ PassesBy(p, f)
<1> DEFINE g == task[p].gen
           allowed == {x \in task[p].paths : Allows(observed, g, x)}
           existing == {x \in allowed : rows[x] # Absent}
           new == [x \in existing |-> Absent]
<1>1. /\ task[p].op = "remove" /\ Store(g, existing, new)
      /\ Settle(g, allowed, task[p].paths \ allowed)
  BY DEF CommitRemove
<1>2. /\ IndexTypeOK /\ g \in 0..nextGeneration /\ g \in Nat /\ observed[f].gen \in Nat
  BY DEF IndexInv, IndexTypeOK, Tasks
<1>3. /\ f \in existing => rows'[f] = new[f]
      /\ f \notin existing => Keeps(f)
  <2> HIDE DEF existing, new, g
  <2> QED BY <1>1, <1>2, StoreShape
<1>4. /\ seenBy'[f] = IF f \in allowed THEN g ELSE seenBy[f]
      /\ f \notin task[p].paths \ allowed => owed'[f] = owed[f]
      /\ f \in task[p].paths \ allowed => observed[f].gen <= owed'[f] /\ owed[f] <= owed'[f]
  <2> HIDE DEF allowed, g
  <2> QED BY <1>1, <1>2, SettleShape
<1>5. CASE f \in allowed
  <2>1. rows'[f] = Absent
    BY <1>3, <1>5 DEF Keeps
  <2> QED BY <1>1, <1>4, <1>5, <2>1 DEF Settles, Allows
<1>6. CASE f \in task[p].paths \ allowed
  BY <1>2, <1>3, <1>4, <1>6 DEF GivesWay, Allows
<1>7. CASE f \notin task[p].paths
  BY <1>1, <1>3, <1>4, <1>7 DEF PassesBy
<1> QED BY <1>5, <1>6, <1>7

LEMMA EnsureOutcome ==
  ASSUME IndexInv, NEW p \in Threads, CommitEnsure(p), NEW f \in Paths
  PROVE  GivesWay(p, f) \/ Settles(p, f) \/ PassesBy(p, f)
<1> DEFINE g == task[p].gen
           e == TheFile(p)
           ok == Allows(observed, g, e)
           S == IF ok THEN {e} ELSE {}
           B == IF ok THEN {} ELSE {e}
           new == [x \in {e} |-> Found(p, e)]
<1>1. /\ task[p].op = "ensure" /\ task[p].at = "commit" /\ Store(g, S, new)
      /\ Settle(g, S, B)
  BY DEF CommitEnsure
<1>2. /\ IndexTypeOK /\ g \in 0..nextGeneration /\ g \in Nat /\ observed[f].gen \in Nat
  BY DEF IndexInv, IndexTypeOK, Tasks
<1>3. /\ f \in S => rows'[f] = new[f]
      /\ f \notin S => Keeps(f)
  <2> HIDE DEF S, new, g
  <2> QED BY <1>1, <1>2, StoreShape
<1>4. /\ seenBy'[f] = IF f \in S THEN g ELSE seenBy[f]
      /\ f \notin B => owed'[f] = owed[f]
      /\ f \in B => observed[f].gen <= owed'[f] /\ owed[f] <= owed'[f]
  <2> HIDE DEF S, B, g
  <2> QED BY <1>1, <1>2, SettleShape
<1>5. /\ e \in task[p].paths /\ e \in Paths
      /\ task[p].text[e] # Unread /\ task[p].mtime[e] # Unread
  BY <1>1, EnsuredFile DEF IndexInv, Working, TextBeforeTime
<1>6. CASE f = e /\ ok
  <2>1. rows'[f] = Found(p, f)
    BY <1>3, <1>6
  <2>2. AsOnDisk(p, f) => rows'[f] = disk[f]
    <3> HIDE DEF e
    <3> QED BY <1>2, <1>5, <1>6, <2>1, FoundIsDisk
  <2>3. seenBy'[f] = g /\ owed'[f] = owed[f]
    <3> HIDE DEF ok, e
    <3> QED BY <1>4, <1>6
  <2>4. observed[f].gen <= g /\ f \in task[p].paths
    BY <1>5, <1>6 DEF Allows
  <2> QED BY <1>1, <2>2, <2>3, <2>4 DEF Settles
<1>7. CASE f = e /\ ~ok
  <2>1. f \notin S /\ f \in B
    BY <1>7
  <2>2. g < observed[f].gen
    BY <1>2, <1>7 DEF Allows
  <2> HIDE DEF S, B
  <2> QED BY <1>3, <1>4, <2>1, <2>2 DEF GivesWay
<1>8. CASE f # e
  <2>1. f \notin S /\ f \notin B
    BY <1>8
  <2> HIDE DEF S, B
  <2> QED BY <1>1, <1>3, <1>4, <2>1 DEF PassesBy
<1> QED BY <1>6, <1>7, <1>8

(* The answer from the row alone: it is compared with the file if an older ticket is
   in flight. *)
LEMMA FastOutcome ==
  ASSUME IndexInv, NEW p \in Threads, EnsureFast(p), NEW f \in Paths
  PROVE  Settles(p, f) \/ PassesBy(p, f)
<1> DEFINE g == task[p].gen
           e == TheFile(p)
           hit == /\ Allows(observed, g, e)
                  /\ rows[e].mtime = task[p].mtime[e]
                  /\ task[p].overlap => rows[e].text = task[p].text[e]
           S == IF hit /\ task[p].overlap THEN {e} ELSE {}
<1>1. task[p].at = "fast" /\ Settle(g, S, {}) /\ UNCHANGED <<rows, rowGen>>
  BY DEF EnsureFast
<1>2. /\ IndexTypeOK /\ g \in 0..nextGeneration /\ g \in Nat /\ rows[f] \in FileStates
  BY DEF IndexInv, IndexTypeOK, Tasks
<1>3. seenBy'[f] = (IF f \in S THEN g ELSE seenBy[f]) /\ owed'[f] = owed[f]
  <2> HIDE DEF S, g
  <2> QED BY <1>1, <1>2, SettleShape
<1>4. task[p].op = "ensure" /\ e \in task[p].paths /\ e \in Paths /\ task[p].mtime[e] # Unread
  BY <1>1, EnsuredFile DEF IndexInv, Working, TextBeforeTime
<1>5. CASE f \in S
  <2>1. f = e /\ hit /\ task[p].overlap
    BY <1>5
  <2>2. task[p].text[e] # Unread
    BY <1>1, <1>4, <2>1 DEF IndexInv, TextBeforeTime, Working
  <2>3. rows[f].text = task[p].text[f] /\ rows[f].mtime = task[p].mtime[f]
    BY <2>1
  <2>4. rows'[f] = Found(p, f)
    BY <1>1, <1>2, <2>3 DEF Found, FileStates
  <2>5. AsOnDisk(p, f) => rows'[f] = disk[f]
    <3> HIDE DEF e
    <3> QED BY <1>2, <1>4, <2>1, <2>2, <2>4, FoundIsDisk
  <2>6. observed[f].gen <= g /\ f \in task[p].paths
    BY <1>4, <2>1 DEF Allows
  <2> HIDE DEF S
  <2> QED BY <1>3, <1>4, <1>5, <2>5, <2>6 DEF Settles
<1>6. CASE f \notin S
  <2> HIDE DEF S
  <2> QED BY <1>1, <1>3, <1>4, <1>6 DEF PassesBy, Keeps
<1> QED BY <1>5, <1>6

LEMMA RefreshOutcome ==
  ASSUME IndexInv, KnownRows, NEW p \in Threads, CommitRefresh(p), NEW f \in Paths
  PROVE  GivesWay(p, f) \/ Settles(p, f) \/ PassesBy(p, f)
<1> DEFINE g == task[p].gen
           known == task[p].known
           bulk == task[p].bulk /\ Analyzed(p) = task[p].paths /\ latestObserved <= g
           seen == TombstonedBySnapshot(p)
           allowed == {x \in Paths : Allows(seen, g, x)}
           retimed == {x \in Analyzed(p) :
                         known[x].text = Found(p, x).text /\ known[x] # Found(p, x)}
           parsed == {x \in Analyzed(p) : known[x].text # Found(p, x).text}
           missing == {x \in Paths \ task[p].paths : rows[x] # Absent}
           upserts == {x \in parsed \cap allowed : bulk \/ rows[x] # Found(p, x)}
           retimes == {x \in retimed \cap allowed : rows[x].text = Found(p, x).text}
           deletes == IF bulk THEN missing ELSE missing \cap allowed
           written == upserts \cup retimes \cup deletes
           new == [x \in written |-> IF x \in deletes THEN Absent ELSE Found(p, x)]
           settled == (Analyzed(p) \cup (Paths \ task[p].paths)) \cap allowed
           blocked == (Analyzed(p) \cup missing) \ allowed
<1>1. /\ task[p].op = "refresh" /\ AllRead(p)
      /\ Store(g, written, new) /\ Settle(g, settled, blocked)
  BY DEF CommitRefresh
<1>2. /\ IndexTypeOK /\ g \in 0..nextGeneration /\ g \in Nat /\ observed[f].gen \in Nat
      /\ seen[f].gen \in Nat /\ latestObserved \in Nat /\ observed[f].gen <= latestObserved
  BY TombstonesType DEF IndexInv, IndexTypeOK, Tasks, LatestIsLatest, Entries
<1>3. /\ f \in written => rows'[f] = new[f]
      /\ f \notin written => Keeps(f)
  <2> HIDE DEF written, new, g
  <2> QED BY <1>1, <1>2, StoreShape
<1>4. /\ seenBy'[f] = IF f \in settled THEN g ELSE seenBy[f]
      /\ f \notin blocked => owed'[f] = owed[f]
      /\ f \in blocked => observed[f].gen <= owed'[f] /\ owed[f] <= owed'[f]
  <2> HIDE DEF settled, blocked, g
  <2> QED BY <1>1, <1>2, SettleShape
<1>5. IF f \in allowed THEN observed[f].gen <= g ELSE g < observed[f].gen
  <2>1. observed[f].gen <= seen[f].gen /\ (seen[f].gen = observed[f].gen \/ seen[f].gen = g)
    BY <1>2, TombstonesGrow
  <2>2. f \in allowed <=> seen[f].gen <= g
    BY DEF Allows
  <2> HIDE DEF seen, allowed, g
  <2> QED BY <1>2, <2>1, <2>2
<1>6. task[p].at = "read" /\ Analyzed(p) \subseteq task[p].paths
  BY <1>1 DEF AllRead, Analyzed
<1>7. CASE f \in Analyzed(p) /\ f \in allowed
  <2>1. task[p].text[f] \notin {Unread, 0} /\ task[p].mtime[f] # Unread /\ f \in task[p].paths
    BY <1>1, <1>7 DEF AllRead, Analyzed, IndexInv, TextBeforeTime
  <2>2. f \notin deletes
    BY <2>1
  <2>3. f \in written => rows'[f] = Found(p, f)
    BY <1>3, <2>2
  <2>4. f \notin written => rows[f] = Found(p, f)
    <3>1. CASE task[p].bulk
      <4>1. known[f] = Absent
        BY <1>1, <1>6, <3>1 DEF KnownRows
      <4>2. f \in parsed
        BY <1>7, <2>1, <4>1 DEF Absent, Found
      <4> QED BY <1>7, <4>2
    <3>2. CASE ~task[p].bulk
      <4>1. Uncommitted(p)
        BY <1>6 DEF Uncommitted
      <4>2. rowGen[f] < g
        BY <1>5, <1>7, <4>1, AllowedIsNewer
      <4>3. rowGen[f] \in Nat
        BY <1>2 DEF IndexTypeOK
      <4>4. known[f] = rows[f]
        <5>1. known[f] = rows[f] \/ g < rowGen[f]
          BY <1>1, <1>6, <2>1, <3>2 DEF KnownRows
        <5> HIDE DEF g, known
        <5> QED BY <1>2, <4>2, <4>3, <5>1
      <4> QED BY <1>7, <4>4
    <3> QED BY <3>1, <3>2
  <2>5. rows'[f] = Found(p, f)
    <3> HIDE DEF written
    <3> QED BY <1>3, <2>3, <2>4 DEF Keeps
  <2>6. AsOnDisk(p, f) => rows'[f] = disk[f]
    BY <1>2, <2>1, <2>5, FoundIsDisk
  <2>7. seenBy'[f] = g /\ owed'[f] = owed[f]
    <3>1. f \in settled /\ f \notin blocked
      BY <1>7
    <3> HIDE DEF settled, blocked
    <3> QED BY <1>4, <3>1
  <2>8. observed[f].gen <= g
    BY <1>5, <1>7
  <2> QED BY <1>1, <2>1, <2>6, <2>7, <2>8 DEF Settles
<1>8. CASE f \in Analyzed(p) /\ f \notin allowed
  <2>1. f \notin written /\ f \in blocked /\ f \notin settled
    BY <1>6, <1>8
  <2>2. g < observed[f].gen
    BY <1>5, <1>8
  <2> HIDE DEF written, settled, blocked, g
  <2> QED BY <1>3, <1>4, <2>1, <2>2 DEF GivesWay, g
<1>9. CASE f \in task[p].paths \ Analyzed(p)
  <2>1. f \notin written /\ f \notin blocked /\ f \notin settled
    BY <1>9
  <2> HIDE DEF written, settled, blocked, g
  <2> QED BY <1>1, <1>3, <1>4, <2>1 DEF PassesBy
<1>10. CASE f \notin task[p].paths /\ f \in allowed
  <2>1. f \in settled /\ f \notin blocked
    BY <1>6, <1>10
  <2>2. rows'[f] = Absent
    <3>1. CASE rows[f] # Absent
      <4>1. f \in deletes
        BY <1>10, <3>1
      <4>2. new[f] = Absent /\ f \in written
        BY <4>1
      <4> HIDE DEF written, new
      <4> QED BY <1>3, <4>2
    <3>2. CASE rows[f] = Absent
      <4>1. f \notin written
        BY <1>6, <1>10, <3>2
      <4> HIDE DEF written
      <4> QED BY <1>3, <3>2, <4>1 DEF Keeps
    <3> QED BY <3>1, <3>2
  <2>3. AsOnDisk(p, f) => rows'[f] = disk[f]
    BY <1>1, <1>6, <1>10, <2>2 DEF AsOnDisk
  <2>4. observed[f].gen <= g
    BY <1>5, <1>10
  <2> HIDE DEF settled, blocked
  <2> QED BY <1>1, <1>4, <2>1, <2>3, <2>4 DEF Settles
<1>11. CASE f \notin task[p].paths /\ f \notin allowed
  <2>1. g < observed[f].gen
    BY <1>5, <1>11
  <2>2. ~bulk
    <3> HIDE DEF g
    <3> QED BY <1>2, <2>1
  <2>3. f \notin written /\ f \notin settled
    BY <1>6, <1>11, <2>2
  <2>4. Keeps(f) /\ seenBy'[f] = seenBy[f]
    <3> HIDE DEF written, settled
    <3> QED BY <1>3, <1>4, <2>3
  <2>5. CASE f \in blocked
    <3> HIDE DEF blocked
    <3> QED BY <1>4, <2>1, <2>4, <2>5 DEF GivesWay
  <2>6. CASE f \notin blocked
    <3> HIDE DEF blocked
    <3> QED BY <1>4, <1>11, <2>4, <2>6 DEF PassesBy
  <2> QED BY <2>5, <2>6
<1> QED BY <1>7, <1>8, <1>9, <1>10, <1>11

LEMMA CommitOutcome ==
  ASSUME IndexInv, KnownRows, NEW p \in Threads, Commits(p), NEW f \in Paths
  PROVE  GivesWay(p, f) \/ Settles(p, f) \/ PassesBy(p, f)
BY IndexOutcome, RemoveOutcome, EnsureOutcome, FastOutcome, RefreshOutcome DEF Commits

-----------------------------------------------------------------------------
(***************************************************************************)
(* Each row is, or will be, the file: the inductive invariant is kept      *)
(***************************************************************************)
LEMMA MatchInit == IndexInit => MatchInv
<1> SUFFICES ASSUME IndexInit PROVE MatchInv
  OBVIOUS
<1>1. Watcher \in Threads /\ Callers \subseteq Threads
  BY DEF Threads
<1>2. \A p \in Threads : /\ task[p].at = "idle" /\ task[p].op = "none" /\ task[p].paths = {}
                         /\ ~Working(p) /\ ~Uncommitted(p)
  BY DEF IndexInit, NoTask, Working, Uncommitted
<1>3. batch.changed = {} /\ batch.removed = {}
  BY DEF IndexInit, NoBatch
<1>4. FilesHaveText
  BY DEF IndexInit, FilesHaveText
<1>5. RowsHold
  BY DEF IndexInit, RowsHold, RowHolds
<1> QED BY <1>1, <1>2, <1>3, <1>4, <1>5
     DEF MatchInv, BatchIsTrue, WatcherFitsBatch, ReadingsHold, WatcherReads, KnownRows

(* A step of a call, if each row still holds after it. *)
LEMMA StepKeepsReadings ==
  ASSUME IndexInv, MatchInv, NEW p \in Threads, IndexStep(p), ~Finish(p)
  PROVE  /\ FilesHaveText' /\ BatchIsTrue' /\ WatcherFitsBatch' /\ ReadingsHold' /\ WatcherReads'
         /\ \A f \in Paths : Awaited(f) => Awaited(f)'
         /\ \A f \in Paths, g \in Nat : Handling(f, g) => Handling(f, g)'
<1>1. IndexTypeOK /\ Watcher \in Threads /\ Callers \subseteq Threads
  BY DEF IndexInv, Threads
<1>2. /\ UNCHANGED <<disk, events, batch, skipped>>
      /\ task[p].op # "refresh" => task'[p].paths = task[p].paths
      /\ \A u \in Threads \ {p} : task'[u] = task[u]
      /\ task'[p].gen = task[p].gen /\ task'[p].op = task[p].op
      /\ Working(p) /\ Working(p)' /\ (Uncommitted(p)' => Uncommitted(p))
  BY <1>1, StepFrame, StepMovesOneCall
<1>3. FilesHaveText' /\ BatchIsTrue'
  BY <1>2 DEF MatchInv, FilesHaveText, BatchIsTrue
<1>4. /\ task'[Watcher].paths = task[Watcher].paths /\ task'[Watcher].gen = task[Watcher].gen
      /\ task'[Watcher].op = task[Watcher].op /\ Working(Watcher)' = Working(Watcher)
  <2>1. task[Watcher].op # "refresh"
    BY DEF MatchInv, WatcherFitsBatch
  <2>2. CASE p = Watcher
    BY <1>2, <2>1, <2>2 DEF Working
  <2>3. CASE p # Watcher
    BY <1>1, <1>2, <2>3 DEF Working
  <2> QED BY <2>2, <2>3
<1>5. WatcherFitsBatch'
  <2>1. \A u \in Threads : task'[u].op = task[u].op
    BY <1>2
  <2> QED BY <1>1, <1>2, <1>4, <2>1 DEF MatchInv, WatcherFitsBatch
<1>6. \A f \in Paths : Awaited(f) => Awaited(f)'
  BY <1>2, <1>4 DEF Awaited
<1>7. \A f \in Paths, g \in Nat : Handling(f, g) => Handling(f, g)'
  BY <1>4 DEF Handling
<1>8. ASSUME NEW u \in Threads, NEW f \in Paths, AsOnDisk(u, f) PROVE AsOnDisk(u, f)'
  <2>1. CASE u = p
    BY <1>1, <1>8, <2>1, ReadingsStay
  <2>2. CASE u # p
    BY <1>2, <1>8, <2>2 DEF AsOnDisk
  <2> QED BY <2>1, <2>2
<1>9. WatcherReads'
  <2>1. task[Watcher].paths \subseteq Paths
    BY <1>1 DEF IndexTypeOK, Tasks
  <2> QED BY <1>1, <1>2, <1>4, <1>8, <2>1 DEF MatchInv, WatcherReads
<1>10. ReadingsHold'
  <2> SUFFICES ASSUME NEW u \in Callers, NEW f \in Paths \ skipped, Uncommitted(u)'
               PROVE  \/ AsOnDisk(u, f)' \/ Awaited(f)' \/ Handling(f, task[u].gen)'
                      \/ task'[u].gen < observed'[f].gen
    BY <1>2 DEF ReadingsHold
  <2>1. u \in Threads /\ Uncommitted(u) /\ task'[u].gen = task[u].gen
    BY <1>1, <1>2 DEF Uncommitted
  <2>2. task[u].gen \in Nat /\ observed[f].gen \in Nat /\ observed'[f].gen \in Nat
    <3>1. IndexTypeOK'
      BY StepKeepsInv DEF IndexInv
    <3> QED BY <1>1, <2>1, <3>1 DEF IndexTypeOK, Tasks
  <2>3. observed[f].gen <= observed'[f].gen
    BY StepKeepsEntries
  <2>4. AsOnDisk(u, f) \/ Awaited(f) \/ Handling(f, task[u].gen) \/ task[u].gen < observed[f].gen
    BY <2>1 DEF MatchInv, ReadingsHold
  <2>5. CASE AsOnDisk(u, f)
    BY <1>8, <2>1, <2>5
  <2>6. CASE Awaited(f)
    BY <1>6, <2>6
  <2>7. CASE Handling(f, task[u].gen)
    BY <1>7, <2>1, <2>2, <2>7
  <2>8. CASE task[u].gen < observed[f].gen
    BY <2>1, <2>2, <2>3, <2>8
  <2> QED BY <2>4, <2>5, <2>6, <2>7, <2>8
<1> QED BY <1>3, <1>5, <1>6, <1>7, <1>9, <1>10

(* Only the first steps of a refresh touch the fingerprints, and what older tickets
   write they may not write after the refresh has announced its files. *)
LEMMA OwnFingerprints ==
  ASSUME IndexInv, KnownRows, NEW p \in Threads, IndexStep(p), ~Finish(p), NEW f \in Paths,
         task[p].op = "refresh"
  PROVE  /\ task'[p].at = "read" /\ ~task'[p].bulk /\ f \in task'[p].paths =>
              task'[p].known[f] = rows'[f] \/ task[p].gen < rowGen'[f]
         /\ task'[p].at \in {"begun", "collected", "survey"} \/ (task'[p].at = "read" /\ task'[p].bulk)
              => task'[p].known[f] = Absent
<1>1. /\ task \in [Threads -> Tasks] /\ task[p] \in Tasks
      /\ task[p].at = "read" /\ ~task[p].bulk /\ f \in task[p].paths =>
           task[p].known[f] = rows[f] \/ task[p].gen < rowGen[f]
      /\ task[p].at \in {"begun", "collected", "survey"} \/ (task[p].at = "read" /\ task[p].bulk)
           => task[p].known[f] = Absent
  BY DEF KnownRows, IndexInv, IndexTypeOK
<1>2. CASE Collect(p)
  BY <1>1, <1>2 DEF Collect, Tasks
<1>3. CASE Survey(p)
  <2> DEFINE isLarge == Cardinality({x \in Paths : rows[x] # Absent})
                          > Cardinality(task[p].paths) + BulkOverhang
  <2>1. PICK bulk \in {FALSE, isLarge} :
          task' = [task EXCEPT ![p].at = "read", ![p].bulk = bulk,
                               ![p].known = IF bulk THEN @ ELSE rows]
    BY <1>3 DEF Survey
  <2>2. isLarge \in BOOLEAN
    OBVIOUS
  <2> HIDE DEF isLarge
  <2>3. bulk \in BOOLEAN
    BY <2>2
  <2>4. /\ task'[p].at = "read" /\ task'[p].bulk = bulk
        /\ task'[p].known = IF bulk THEN task[p].known ELSE rows
    BY <1>1, <2>1 DEF Tasks
  <2>5. task[p].at = "survey" /\ rows' = rows
    BY <1>3 DEF Survey, storeVars
  <2> QED BY <1>1, <2>3, <2>4, <2>5
<1>4. ASSUME NEW x \in Paths, ReadFile(p, x)
      PROVE  /\ UNCHANGED <<rows, rowGen>> /\ task'[p].at = task[p].at /\ task'[p].paths = task[p].paths
             /\ task'[p].known = task[p].known /\ task'[p].bulk = task[p].bulk
  BY <1>1, <1>4 DEF ReadFile, Tasks, storeVars
<1>5. CASE Observe(p)
  <2>1. Goto(p, "survey") /\ task[p].at = "collected"
    BY <1>5 DEF Observe
  <2> QED BY <1>1, <2>1 DEF Goto, Tasks
<1>6. ASSUME NEW place \in {"count", "finish", "failed", "broken"}, Goto(p, place)
      PROVE  task'[p].at = place
  BY <1>1, <1>6 DEF Goto, Tasks
<1>7. CASE CommitRefresh(p)
  BY <1>6, <1>7, RefreshMoves
<1>8. CASE CommitFails(p) \/ RecordCommit(p)
  BY <1>6, <1>8 DEF CommitFails, RecordCommit
<1>9. ~(CommitIndex(p) \/ CommitRemove(p) \/ CommitEnsure(p))
  BY DEF CommitIndex, CommitRemove, CommitEnsure
<1>10. ~(EnsureStat(p) \/ EnsureOverlap(p) \/ EnsureFast(p) \/ EnsureText(p))
  BY DEF EnsureStat, EnsureOverlap, EnsureFast, EnsureText, IndexInv, TextBeforeTime
<1>11. CASE \E x \in Paths : ReadFile(p, x)
  BY <1>1, <1>4, <1>11
<1> QED BY <1>2, <1>3, <1>5, <1>7, <1>8, <1>9, <1>10, <1>11 DEF IndexStep

LEMMA StepKeepsFingerprints ==
  ASSUME IndexInv, KnownRows, NEW p \in Threads, IndexStep(p), ~Finish(p)
  PROVE  KnownRows'
<1>1. /\ IndexTypeOK /\ IndexTypeOK'
      /\ \A u \in Threads \ {p} : task'[u] = task[u]
      /\ task'[p].gen = task[p].gen /\ task'[p].op = task[p].op /\ Working(p)
  BY StepMovesOneCall, StepKeepsInv DEF IndexInv
<1>2. ASSUME NEW f \in Paths, task[p].op = "refresh"
      PROVE  /\ task'[p].at = "read" /\ ~task'[p].bulk /\ f \in task'[p].paths =>
                  task'[p].known[f] = rows'[f] \/ task'[p].gen < rowGen'[f]
             /\ \/ task'[p].at \in {"begun", "collected", "survey"}
                \/ task'[p].at = "read" /\ task'[p].bulk
                => task'[p].known[f] = Absent
  BY <1>1, <1>2, OwnFingerprints
<1>3. ASSUME NEW u \in Threads \ {p}, NEW f \in task[u].paths, task[u].at = "read",
             task[u].known[f] = rows[f] \/ task[u].gen < rowGen[f]
      PROVE  task[u].known[f] = rows'[f] \/ task[u].gen < rowGen'[f]
  <2>1. /\ f \in Paths /\ task[u].gen \in Nat /\ task[p].gen \in Nat /\ rowGen[f] \in Nat
        /\ observed[f].gen \in Nat /\ rowGen'[f] \in Nat
    BY <1>1 DEF IndexTypeOK, Tasks
  <2>2. CASE Keeps(f)
    BY <1>3, <2>2 DEF Keeps
  <2>3. CASE Writes(p, f)
    <3>1. rowGen'[f] = task[p].gen /\ rowGen[f] < task[p].gen
      BY <2>3 DEF Writes
    <3>2. ~Keeps(f)
      BY <2>1, <3>1 DEF Keeps
    <3>3. Commits(p)
      BY <3>2 DEF IndexStep, Commits, Collect, Survey, ReadFile, Observe, CommitFails, RecordCommit,
                  EnsureStat, EnsureOverlap, EnsureText, storeVars, Keeps
    <3>4. observed[f].gen <= task[p].gen
      BY <2>1, <3>2, <3>3, CommitOutcome DEF GivesWay, Settles, PassesBy
    <3>5. task[u].gen # task[p].gen /\ task[p].gen \in inFlight
      BY <1>1, <1>3 DEF IndexInv, TicketsInFlight, Working
    <3>6. task[p].gen < task[u].gen => task[u].gen <= observed[f].gen
      BY <1>3, <3>5 DEF IndexInv, AnnouncedRemembered, Announced
    <3> QED BY <2>1, <3>1, <3>4, <3>5, <3>6
  <2> QED BY <2>1, <2>2, <2>3, CommitShape
<1>4. ASSUME NEW u \in Threads \ {p}, NEW f \in Paths, task[u].op = "refresh"
      PROVE  /\ task'[u].at = "read" /\ ~task'[u].bulk /\ f \in task'[u].paths =>
                  task'[u].known[f] = rows'[f] \/ task'[u].gen < rowGen'[f]
             /\ \/ task'[u].at \in {"begun", "collected", "survey"}
                \/ task'[u].at = "read" /\ task'[u].bulk
                => task'[u].known[f] = Absent
  BY <1>1, <1>3, <1>4 DEF KnownRows
<1> QED BY <1>1, <1>2, <1>4 DEF KnownRows

(* A commit leaves a row that holds.  If it is the watcher's, what it read is on the disk
   or changed again; what a newer ticket overtook, that ticket has settled or is noted. *)
LEMMA CommitKeepsRows ==
  ASSUME IndexInv, MatchInv, NEW p \in Threads, IndexStep(p), ~Finish(p), Commits(p)
  PROVE  RowsHold'
<1>1. IndexTypeOK /\ IndexTypeOK' /\ Watcher \in Threads /\ p \in Callers \cup {Watcher}
  BY StepKeepsInv DEF IndexInv, Threads
<1>2. /\ UNCHANGED <<disk, events, batch, skipped>>
      /\ \A u \in Threads \ {p} : task'[u] = task[u]
      /\ task'[p].gen = task[p].gen /\ Working(p)
      /\ \A f \in Paths : Awaited(f) => Awaited(f)'
      /\ \A f \in Paths, g \in Nat : Handling(f, g) => Handling(f, g)'
  BY <1>1, StepFrame, StepMovesOneCall, StepKeepsReadings
<1>3. Uncommitted(p) /\ (task[p].op = "remove" => p = Watcher)
  <2>1. task[p].at \in {"read", "commit", "fast"}
    BY RefreshMoves
       DEF Commits, CommitIndex, CommitRemove, CommitEnsure, EnsureFast, AllRead
  <2> QED BY <1>1, <2>1 DEF Uncommitted, MatchInv, WatcherFitsBatch
<1> SUFFICES ASSUME NEW f \in Paths \ skipped PROVE RowHolds(f)'
  BY <1>2 DEF RowsHold
<1>4. /\ seenBy[f] \in Nat /\ owed[f] \in Nat /\ task[p].gen \in Nat /\ observed[f].gen \in Nat
      /\ seenBy'[f] \in Nat /\ owed'[f] \in Nat /\ task[Watcher].gen \in Nat
  BY <1>1 DEF IndexTypeOK, Tasks
<1>5. RowHolds(f)
  BY DEF MatchInv, RowsHold
<1>6. ASSUME Handling(f, seenBy[f]), task[Watcher].at \notin {"count", "finish"}, p # Watcher,
             seenBy'[f] = seenBy[f]
      PROVE  RowHolds(f)'
  <2>1. task'[Watcher] = task[Watcher]
    BY <1>1, <1>2, <1>6
  <2> QED BY <1>2, <1>4, <1>6, <2>1 DEF RowHolds, Handling, Working
<1>7. CASE GivesWay(p, f)
  <2>1. CASE rows[f] = disk[f] \/ Awaited(f)
    BY <1>2, <1>7, <2>1 DEF RowHolds, GivesWay, Keeps
  <2>2. CASE Handling(f, seenBy[f]) /\ task[Watcher].at \notin {"count", "finish"}
    <3>1. CASE p = Watcher
      <4>1. seenBy'[f] < owed'[f]
        BY <1>4, <1>7, <2>2, <3>1 DEF Handling, GivesWay
      <4> QED BY <4>1 DEF RowHolds
    <3>2. CASE p # Watcher
      BY <1>6, <1>7, <2>2, <3>2 DEF GivesWay
    <3> QED BY <3>1, <3>2
  <2>3. CASE seenBy[f] < owed[f]
    BY <1>4, <1>7, <2>3 DEF RowHolds, GivesWay
  <2> QED BY <1>5, <2>1, <2>2, <2>3 DEF RowHolds
<1>8. CASE Settles(p, f)
  <2>1. CASE task[p].op = "remove"
    <3>1. f \in batch.removed /\ rows'[f] = Absent
      BY <1>3, <1>8, <2>1 DEF Settles, MatchInv, WatcherFitsBatch
    <3> QED BY <1>2, <3>1 DEF MatchInv, BatchIsTrue, RowHolds, Awaited
  <2>2. CASE task[p].op # "remove" /\ AsOnDisk(p, f)
    BY <1>2, <1>8, <2>2 DEF Settles, RowHolds
  <2>3. CASE task[p].op # "remove" /\ ~AsOnDisk(p, f) /\ p = Watcher
    <3>1. f \in task[Watcher].paths
      BY <1>8, <2>3 DEF Settles, MatchInv, WatcherFitsBatch
    <3>2. f \in events
      BY <2>3, <3>1 DEF MatchInv, WatcherReads
    <3> QED BY <1>2, <3>2 DEF RowHolds, Awaited
  <2>4. CASE ~AsOnDisk(p, f) /\ p # Watcher
    <3>1. Awaited(f) \/ Handling(f, task[p].gen) \/ task[p].gen < observed[f].gen
      BY <1>1, <1>3, <2>4 DEF MatchInv, ReadingsHold
    <3>2. CASE Awaited(f)
      BY <1>2, <3>2 DEF RowHolds
    <3>3. CASE Handling(f, task[p].gen)
      <4>1. task[Watcher].at \notin {"count", "finish"}
        <5> SUFFICES ASSUME task[Watcher].at \in {"count", "finish"} PROVE FALSE
          OBVIOUS
        <5>1. Announced(Watcher) /\ task[p].gen \in inFlight
          BY <1>2 DEF Announced, IndexInv, TicketsInFlight
        <5>2. task[Watcher].gen <= observed[f].gen
          BY <1>1, <3>3, <5>1 DEF Handling, IndexInv, AnnouncedRemembered
        <5> QED BY <1>4, <1>8, <3>3, <5>2 DEF Handling, Settles
      <4>2. task'[Watcher] = task[Watcher]
        BY <1>1, <1>2, <2>4
      <4> QED BY <1>8, <3>3, <4>1, <4>2 DEF RowHolds, Handling, Working, Settles
    <3>4. ~(task[p].gen < observed[f].gen)
      BY <1>4, <1>8 DEF Settles
    <3> QED BY <3>1, <3>2, <3>3, <3>4
  <2> QED BY <2>1, <2>2, <2>3, <2>4
<1>9. CASE PassesBy(p, f)
  <2>1. CASE rows[f] = disk[f] \/ Awaited(f)
    BY <1>2, <1>9, <2>1 DEF RowHolds, PassesBy, Keeps
  <2>2. CASE Handling(f, seenBy[f]) /\ task[Watcher].at \notin {"count", "finish"}
    <3>1. CASE p = Watcher
      <4>1. f \in task[Watcher].paths /\ task[Watcher].op = "index" /\ task[Watcher].text[f] = 0
        BY <1>2, <1>9, <2>2, <3>1 DEF Handling, PassesBy, MatchInv, WatcherFitsBatch
      <4>2. f \in batch.changed
        BY <4>1 DEF MatchInv, WatcherFitsBatch
      <4>3. AsOnDisk(Watcher, f) => disk[f].text = 0
        BY <4>1 DEF AsOnDisk, Unread
      <4>4. f \in events
        BY <4>1, <4>2, <4>3 DEF MatchInv, WatcherReads, BatchIsTrue, FilesHaveText
      <4> QED BY <1>2, <4>4 DEF RowHolds, Awaited
    <3>2. CASE p # Watcher
      BY <1>6, <1>9, <2>2, <3>2 DEF PassesBy
    <3> QED BY <3>1, <3>2
  <2>3. CASE seenBy[f] < owed[f]
    BY <1>9, <2>3 DEF RowHolds, PassesBy
  <2> QED BY <1>5, <2>1, <2>2, <2>3 DEF RowHolds
<1> QED BY <1>7, <1>8, <1>9, CommitOutcome DEF MatchInv

(* The other steps leave the rows alone, and a call that has not committed stays so. *)
LEMMA StepKeepsMatch ==
  ASSUME IndexInv, MatchInv, NEW p \in Threads, IndexStep(p), ~Finish(p)
  PROVE  MatchInv'
<1>1. CASE Commits(p)
  BY <1>1, CommitKeepsRows, StepKeepsReadings, StepKeepsFingerprints DEF MatchInv
<1>2. CASE ~Commits(p)
  <2>1. /\ UNCHANGED <<rows, seenBy, owed, disk, skipped>>
        /\ \A f \in Paths : Awaited(f) => Awaited(f)'
        /\ \A f \in Paths, g \in Nat : Handling(f, g) => Handling(f, g)'
    <3>1. UNCHANGED <<rows, seenBy, owed>>
      BY <1>2 DEF IndexStep, Commits, Collect, Survey, ReadFile, Observe, CommitFails, RecordCommit,
                  EnsureStat, EnsureOverlap, EnsureText, storeVars
    <3> QED BY <3>1, StepFrame, StepKeepsReadings DEF IndexInv
  <2>2. task[Watcher].at \notin {"count", "finish"} => task'[Watcher].at \notin {"count", "finish"}
    <3>1. /\ task \in [Threads -> Tasks] /\ Watcher \in Threads
          /\ task[Watcher].op \in {"none", "index", "remove"}
      BY DEF IndexInv, IndexTypeOK, Threads, MatchInv, WatcherFitsBatch
    <3>2. ASSUME NEW place \in TaskSteps \ {"count", "finish"}, Goto(p, place)
          PROVE  task'[p].at \notin {"count", "finish"}
      BY <3>1, <3>2 DEF Goto, Tasks
    <3>3. ASSUME p = Watcher
          PROVE  task[p].at \notin {"count", "finish"} => task'[p].at \notin {"count", "finish"}
      <4>1. CASE Observe(p)
        <5>1. (CASE task[p].op = "ensure" -> "stat" [] task[p].op = "remove" -> "commit"
                 [] task[p].op = "refresh" -> "survey" [] OTHER -> "read")
                \in TaskSteps \ {"count", "finish"}
          BY DEF TaskSteps
        <5> QED BY <3>2, <4>1, <5>1 DEF Observe
      <4>2. CASE CommitFails(p)
        BY <3>2, <4>2 DEF CommitFails, TaskSteps
      <4>3. CASE RecordCommit(p)
        BY <4>3 DEF RecordCommit
      <4>4. ASSUME NEW f \in Paths, ReadFile(p, f)
            PROVE  task'[p].at = task[p].at
        BY <3>1, <4>4 DEF ReadFile, Tasks
      <4>5. ~Collect(p) /\ ~(EnsureStat(p) \/ EnsureOverlap(p) \/ EnsureText(p))
        BY <3>1, <3>3 DEF Collect, EnsureStat, EnsureOverlap, EnsureText, IndexInv, TextBeforeTime
      <4>6. CASE Survey(p)
        BY <3>1, <4>6 DEF Survey, Tasks
      <4> QED BY <1>2, <4>1, <4>2, <4>3, <4>4, <4>5, <4>6 DEF IndexStep, Commits
    <3>4. CASE p # Watcher
      BY <3>1, <3>4, StepMovesOneCall DEF IndexInv
    <3> QED BY <3>3, <3>4
  <2>3. \A f \in Paths : seenBy[f] \in Nat
    BY DEF IndexInv, IndexTypeOK
  <2>4. RowsHold'
    <3> SUFFICES ASSUME NEW f \in Paths \ skipped PROVE RowHolds(f)'
      BY <2>1 DEF RowsHold
    <3>1. RowHolds(f)
      BY DEF MatchInv, RowsHold
    <3>2. CASE Handling(f, seenBy[f]) /\ task[Watcher].at \notin {"count", "finish"}
      <4>1. Handling(f, seenBy[f])'
        BY <2>1, <2>3, <3>2 DEF Handling
      <4> QED BY <2>2, <3>2, <4>1 DEF RowHolds
    <3>3. CASE rows[f] = disk[f] \/ Awaited(f) \/ seenBy[f] < owed[f]
      BY <2>1, <3>3 DEF RowHolds
    <3> QED BY <3>1, <3>2, <3>3 DEF RowHolds
  <2> QED BY <2>4, StepKeepsReadings, StepKeepsFingerprints DEF MatchInv
<1> QED BY <1>1, <1>2

(* The watcher leaves a batch: what it did not get to is still in it, or was given up. *)
LEMMA BatchEnds ==
  ASSUME MatchInv, Finish(Watcher)
  PROVE  /\ batch'.changed \subseteq batch.changed /\ batch'.removed \subseteq batch.removed
         /\ \A f \in (batch.changed \cup batch.removed) \ skipped' :
              f \notin task[Watcher].paths \/ task[Watcher].at # "finish" =>
                f \in batch'.changed \cup batch'.removed
<1> DEFINE W == task[Watcher]
           locked == W.at = "failed" /\ W.op = "index"
           again == locked /\ batch.tries < IndexRetries
           over == W.op = "remove" \/ (locked /\ ~again)
           left == IF over THEN batch.changed \cup batch.removed ELSE batch.changed
<1>1. /\ W.at \in {"finish", "failed", "broken"}
      /\ batch' = IF again THEN [batch EXCEPT !.tries = @ + 1]
                  ELSE IF over THEN NoBatch
                  ELSE [NoBatch EXCEPT !.removed = batch.removed]
      /\ skipped' = IF again \/ W.at = "finish" THEN skipped ELSE skipped \cup left
  BY DEF Finish
<1>2. /\ W.op \in {"index", "remove"}
      /\ W.op = "index" => W.paths = batch.changed
      /\ W.op = "remove" => W.paths = batch.removed /\ batch.changed = {}
  BY <1>1 DEF MatchInv, WatcherFitsBatch, Working
<1>3. CASE again
  <2>1. batch'.changed = batch.changed /\ batch'.removed = batch.removed
    BY <1>1, <1>3
  <2> QED BY <2>1
<1>4. CASE ~again /\ over
  <2>1. batch'.changed = {} /\ batch'.removed = {}
    BY <1>1, <1>4 DEF NoBatch
  <2>2. W.at # "finish" => skipped' = skipped \cup batch.changed \cup batch.removed
    BY <1>1, <1>4
  <2>3. W.at = "finish" => W.op = "remove"
    BY <1>4
  <2> QED BY <1>2, <2>1, <2>2, <2>3
<1>5. CASE ~again /\ ~over
  <2>1. batch'.changed = {} /\ batch'.removed = batch.removed
    BY <1>1, <1>5 DEF NoBatch
  <2>2. W.at # "finish" => skipped' = skipped \cup batch.changed
    BY <1>1, <1>5
  <2> QED BY <1>2, <1>5, <2>1, <2>2
<1> QED BY <1>3, <1>4, <1>5

LEMMA FinishKeepsMatch ==
  ASSUME IndexInv, MatchInv, NEW p \in Threads, Finish(p)
  PROVE  MatchInv'
<1>1. /\ IndexTypeOK /\ IndexTypeOK' /\ Watcher \in Threads /\ Callers \subseteq Threads
      /\ Watcher \notin Callers
  BY FinishType, IndexAssumption DEF IndexInv, Threads
<1>2. /\ UNCHANGED <<disk, events, rows, rowGen, seenBy, owed>> /\ skipped \subseteq skipped'
      /\ task'[p] = NoTask /\ \A u \in Threads \ {p} : task'[u] = task[u]
      /\ inFlight' = inFlight \ {task[p].gen} /\ observed' = Pruned(observed, inFlight')
      /\ p # Watcher => batch' = batch /\ skipped' = skipped
      /\ task[p].at \in {"finish", "failed", "broken"}
  BY <1>1 DEF Finish, storeVars, worldVars, IndexTypeOK
<1>3. NoTask.at = "idle" /\ NoTask.op = "none" /\ NoTask.paths = {}
  BY DEF NoTask
<1>4. ASSUME NEW f \in Paths \ skipped', Awaited(f) PROVE Awaited(f)'
  <2>1. CASE f \in events
    BY <1>2, <2>1 DEF Awaited
  <2>2. CASE f \in (batch.changed \cup batch.removed) \ task[Watcher].paths
    <3>1. CASE p = Watcher
      <4>1. f \in batch'.changed \cup batch'.removed
        BY <2>2, <3>1, BatchEnds
      <4> QED BY <1>2, <1>3, <3>1, <4>1 DEF Awaited
    <3>2. CASE p # Watcher
      BY <1>1, <1>2, <2>2, <3>2 DEF Awaited
    <3> QED BY <3>1, <3>2
  <2> QED BY <1>4, <2>1, <2>2 DEF Awaited
<1>5. FilesHaveText'
  BY <1>2 DEF MatchInv, FilesHaveText
<1>6. BatchIsTrue'
  <2>1. batch'.changed \subseteq batch.changed /\ batch'.removed \subseteq batch.removed
    BY <1>2, BatchEnds
  <2> QED BY <1>2, <2>1 DEF MatchInv, BatchIsTrue
<1>7. WatcherFitsBatch'
  <2>1. CASE p = Watcher
    BY <1>1, <1>2, <1>3, <2>1 DEF MatchInv, WatcherFitsBatch, Working
  <2>2. CASE p # Watcher
    BY <1>1, <1>2, <1>3, <2>2 DEF MatchInv, WatcherFitsBatch, Working
  <2> QED BY <2>1, <2>2
<1>8. WatcherReads'
  BY <1>1, <1>2, <1>3 DEF MatchInv, WatcherReads, AsOnDisk
<1>9. KnownRows'
  BY <1>1, <1>2, <1>3 DEF MatchInv, KnownRows
<1>10. ReadingsHold'
  <2> SUFFICES ASSUME NEW u \in Callers, NEW f \in Paths \ skipped', Uncommitted(u)'
               PROVE  \/ AsOnDisk(u, f)' \/ Awaited(f)' \/ Handling(f, task[u].gen)'
                      \/ task'[u].gen < observed'[f].gen
    BY DEF ReadingsHold
  <2>1. u # p /\ u \in Threads /\ task'[u] = task[u] /\ Uncommitted(u)
    BY <1>1, <1>2, <1>3 DEF Uncommitted
  <2>2. /\ task[u].gen \in inFlight' /\ task[u].gen \in Nat
        /\ observed[f].gen \in Nat /\ task[Watcher].gen \in Nat
    <3>1. Working(u) /\ Working(p)
      BY <1>2, <2>1 DEF Working, Uncommitted
    <3>2. task[u].gen \in inFlight /\ task[u].gen # task[p].gen
      BY <2>1, <3>1 DEF IndexInv, TicketsInFlight
    <3> QED BY <1>1, <1>2, <2>1, <3>2 DEF IndexTypeOK, Tasks
  <2>3. task[u].gen < observed[f].gen => task'[u].gen < observed'[f].gen
    BY <1>1, <1>2, <2>1, <2>2, PruningKeepsNeeded
  <2>4. CASE AsOnDisk(u, f)
    BY <1>2, <2>1, <2>4 DEF AsOnDisk
  <2>5. CASE Handling(f, task[u].gen) /\ p = Watcher
    <3>1. Announced(Watcher) /\ task[u].gen \in inFlight
      BY <1>2, <2>2, <2>5 DEF Announced
    <3>2. task[Watcher].gen <= observed[f].gen
      BY <1>1, <2>5, <3>1 DEF Handling, IndexInv, AnnouncedRemembered
    <3> QED BY <2>2, <2>3, <2>5, <3>2 DEF Handling
  <2>6. CASE Handling(f, task[u].gen) /\ p # Watcher
    BY <1>1, <1>2, <2>1, <2>6 DEF Handling, Working
  <2>7. CASE Awaited(f)
    BY <1>4, <2>7
  <2> QED BY <1>2, <2>1, <2>3, <2>4, <2>5, <2>6, <2>7 DEF MatchInv, ReadingsHold
<1>11. RowsHold'
  <2> SUFFICES ASSUME NEW f \in Paths \ skipped' PROVE RowHolds(f)'
    BY DEF RowsHold
  <2>1. RowHolds(f)
    BY <1>2 DEF MatchInv, RowsHold
  <2>2. CASE rows[f] = disk[f] \/ seenBy[f] < owed[f]
    BY <1>2, <2>2 DEF RowHolds
  <2>3. CASE Awaited(f)
    BY <1>4, <2>3 DEF RowHolds
  <2>4. CASE Handling(f, seenBy[f]) /\ task[Watcher].at \notin {"count", "finish"}
    <3>1. CASE p = Watcher
      <4>1. f \in batch.changed \cup batch.removed
        BY <1>2, <2>4, <3>1 DEF Handling, MatchInv, WatcherFitsBatch, Working
      <4>2. f \in batch'.changed \cup batch'.removed
        BY <2>4, <3>1, <4>1, BatchEnds
      <4> QED BY <1>2, <1>3, <3>1, <4>2 DEF RowHolds, Awaited
    <3>2. CASE p # Watcher
      BY <1>1, <1>2, <2>4, <3>2 DEF RowHolds, Handling, Working
    <3> QED BY <3>1, <3>2
  <2> QED BY <2>1, <2>2, <2>3, <2>4 DEF RowHolds
<1> QED BY <1>5, <1>6, <1>7, <1>8, <1>9, <1>10, <1>11 DEF MatchInv

(* A call that begins has read nothing; the watcher's has the newest ticket. *)
LEMMA NewCallKeepsMatch ==
  ASSUME IndexInv, MatchInv, WatcherStart \/ \E p \in Callers : CallStart(p)
  PROVE  MatchInv'
<1>1. /\ IndexTypeOK /\ Watcher \in Threads /\ Callers \subseteq Threads
      /\ Watcher \notin Callers
  BY IndexAssumption DEF IndexInv, Threads
<1>2. UNCHANGED <<disk, events, batch, skipped, rows, rowGen, seenBy, owed, observed>>
  BY DEF WatcherStart, CallStart, storeVars, worldVars
<1>3. PICK p \in Threads, op \in IndexOps, S \in SUBSET Paths :
        /\ Start(p, op, S)
        /\ p = Watcher => \/ op = "index" /\ S = batch.changed
                          \/ op = "remove" /\ S = batch.removed /\ batch.changed = {}
        /\ p # Watcher => op \in {"ensure", "index", "refresh"}
  <2>1. batch.changed \in SUBSET Paths /\ batch.removed \in SUBSET Paths
    BY <1>1 DEF IndexTypeOK
  <2>2. CASE WatcherStart
    BY <1>1, <2>1, <2>2 DEF WatcherStart, IndexOps
  <2>3. ASSUME NEW u \in Callers, CallStart(u)
        PROVE  \E v \in Threads, op \in IndexOps, S \in SUBSET Paths :
                 /\ Start(v, op, S) /\ v # Watcher /\ op \in {"ensure", "index", "refresh"}
    <3>1. u \in Threads /\ u # Watcher
      BY <1>1
    <3>2. ASSUME NEW f \in Paths, NEW op \in {"ensure", "index"}, Start(u, op, {f})
          PROVE  \E S \in SUBSET Paths : Start(u, op, S) /\ op \in IndexOps
      BY <3>2 DEF IndexOps
    <3>3. ASSUME Start(u, "refresh", {})
          PROVE  \E S \in SUBSET Paths : Start(u, "refresh", S) /\ "refresh" \in IndexOps
      <4>1. {} \in SUBSET Paths
        OBVIOUS
      <4> QED BY <3>3, <4>1 DEF IndexOps
    <3>4. \/ \E f \in Paths, op \in {"ensure", "index"} : Start(u, op, {f})
          \/ Start(u, "refresh", {})
      BY <2>3 DEF CallStart
    <3> QED BY <3>1, <3>2, <3>3, <3>4, Zenon
  <2> QED BY <2>2, <2>3
<1>4. /\ \A u \in Threads \ {p} : task'[u] = task[u] /\ task[u].gen \in 0..nextGeneration
      /\ task'[p].at = "begun" /\ task'[p].op = op /\ task'[p].paths = S
      /\ task'[p].gen = nextGeneration + 1 /\ nextGeneration \in Nat /\ ~Working(p)
      /\ \A f \in Paths : /\ task'[p].text[f] = Unread /\ task'[p].mtime[f] = Unread
                          /\ task'[p].known[f] = Absent
  BY <1>1, <1>3 DEF Start, IndexTypeOK, NoTask, Tasks, Working
<1>5. ASSUME NEW f \in Paths, NEW g \in 0..nextGeneration, Awaited(f)
      PROVE  Awaited(f)' \/ (p = Watcher /\ Handling(f, g)' /\ task'[Watcher].at = "begun")
  <2>1. CASE p = Watcher
    BY <1>2, <1>4, <1>5, <2>1 DEF Awaited, Handling, Working
  <2>2. CASE p # Watcher
    BY <1>1, <1>2, <1>4, <1>5, <2>2 DEF Awaited
  <2> QED BY <2>1, <2>2
<1>6. ASSUME NEW f \in Paths, NEW g \in 0..nextGeneration, Handling(f, g)
      PROVE  Handling(f, g)' /\ task'[Watcher] = task[Watcher]
  <2>1. p # Watcher
    BY <1>4, <1>6 DEF Handling
  <2> QED BY <1>1, <1>4, <1>6, <2>1 DEF Handling, Working
<1>7. FilesHaveText' /\ BatchIsTrue'
  BY <1>2 DEF MatchInv, FilesHaveText, BatchIsTrue
<1>8. WatcherFitsBatch'
  <2>1. CASE p = Watcher
    BY <1>1, <1>2, <1>3, <1>4, <2>1 DEF MatchInv, WatcherFitsBatch, Working
  <2>2. CASE p # Watcher
    BY <1>1, <1>2, <1>3, <1>4, <2>2 DEF MatchInv, WatcherFitsBatch, Working
  <2> QED BY <2>1, <2>2
<1>9. ASSUME NEW u \in Threads, NEW f \in Paths, u = p \/ AsOnDisk(u, f) PROVE AsOnDisk(u, f)'
  BY <1>2, <1>4, <1>9 DEF AsOnDisk
<1>10. WatcherReads'
  <2>1. CASE p = Watcher
    BY <1>1, <1>4, <1>9, <2>1 DEF WatcherReads
  <2>2. CASE p # Watcher
    <3>1. task[Watcher].paths \subseteq Paths /\ task'[Watcher] = task[Watcher]
      BY <1>1, <1>4, <2>2 DEF IndexTypeOK, Tasks
    <3> QED BY <1>1, <1>2, <1>9, <3>1 DEF MatchInv, WatcherReads
  <2> QED BY <2>1, <2>2
<1>11. KnownRows'
  BY <1>2, <1>4 DEF MatchInv, KnownRows
<1>12. ReadingsHold'
  <2> SUFFICES ASSUME NEW u \in Callers, NEW f \in Paths \ skipped, Uncommitted(u)'
               PROVE  \/ AsOnDisk(u, f)' \/ Awaited(f)' \/ Handling(f, task[u].gen)'
                      \/ task'[u].gen < observed'[f].gen
    BY <1>2 DEF ReadingsHold
  <2>1. CASE u = p
    BY <1>1, <1>9, <2>1
  <2>2. CASE u # p
    <3>1. /\ task'[u] = task[u] /\ Uncommitted(u) /\ u \in Threads /\ task[u].gen \in 0..nextGeneration
          /\ task'[u].gen = task[u].gen
      BY <1>1, <1>4, <2>2 DEF Uncommitted
    <3>2. AsOnDisk(u, f) \/ Awaited(f) \/ Handling(f, task[u].gen) \/ task[u].gen < observed[f].gen
      BY <3>1 DEF MatchInv, ReadingsHold
    <3>3. ASSUME NEW g \in 0..nextGeneration, g = task[u].gen, Handling(f, g)'
          PROVE  Handling(f, task[u].gen)'
      BY <3>1, <3>3 DEF Handling
    <3>4. CASE AsOnDisk(u, f)
      BY <1>9, <3>1, <3>4
    <3>5. CASE Awaited(f)
      BY <1>5, <3>1, <3>3, <3>5
    <3>6. CASE Handling(f, task[u].gen)
      BY <1>6, <3>1, <3>3, <3>6
    <3> QED BY <1>2, <3>1, <3>2, <3>4, <3>5, <3>6
  <2> QED BY <2>1, <2>2
<1>13. RowsHold'
  <2> SUFFICES ASSUME NEW f \in Paths \ skipped PROVE RowHolds(f)'
    BY <1>2 DEF RowsHold
  <2>1. RowHolds(f) /\ seenBy[f] \in 0..nextGeneration /\ seenBy'[f] = seenBy[f]
    BY <1>1, <1>2 DEF MatchInv, RowsHold, IndexTypeOK
  <2>2. CASE rows[f] = disk[f] \/ seenBy[f] < owed[f]
    BY <1>2, <2>2 DEF RowHolds
  <2>3. CASE Awaited(f)
    <3>1. Awaited(f)' \/ (Handling(f, seenBy[f])' /\ task'[Watcher].at = "begun")
      <4>1. ASSUME NEW g \in 0..nextGeneration, g = seenBy[f], Handling(f, g)'
            PROVE  Handling(f, seenBy[f])'
        BY <2>1, <4>1 DEF Handling
      <4> QED BY <1>5, <2>1, <2>3, <4>1
    <3> QED BY <3>1 DEF RowHolds
  <2>4. CASE Handling(f, seenBy[f]) /\ task[Watcher].at \notin {"count", "finish"}
    <3>1. task'[Watcher] = task[Watcher]
      BY <1>6, <2>1, <2>4
    <3> QED BY <2>1, <2>4, <3>1 DEF RowHolds, Handling, Working
  <2> QED BY <2>1, <2>2, <2>3, <2>4 DEF RowHolds
<1> QED BY <1>7, <1>8, <1>10, <1>11, <1>12, <1>13 DEF MatchInv

(* A file that changes has an event, whoever reads it meanwhile. *)
LEMMA ChangeKeepsMatch ==
  ASSUME IndexInv, MatchInv, NEW x \in Paths, ChangeFile(x)
  PROVE  MatchInv'
<1>1. /\ UNCHANGED <<observed, rows, rowGen, seenBy, owed, batch, task, skipped>>
      /\ events' = events \cup {x}
      /\ disk \in [Paths -> FileStates] /\ lastVersion \in Nat
  BY DEF ChangeFile, trackerVars, storeVars, IndexInv, IndexTypeOK
<1>2. \A f \in Paths \ {x} : disk'[f] = disk[f]
  BY <1>1 DEF ChangeFile
<1>3. disk'[x] # Absent => disk'[x].text # 0
  <2> DEFINE v == lastVersion + 1
  <2>1. /\ disk' \in {[disk EXCEPT ![x] = new] :
                       new \in {[text |-> v, mtime |-> v]} \cup
                               (IF disk[x] = Absent THEN {}
                                ELSE {Absent, [disk[x] EXCEPT !.text = v],
                                              [disk[x] EXCEPT !.mtime = v]})}
    BY DEF ChangeFile
  <2>2. disk'[x] \in {[text |-> v, mtime |-> v]} \cup
                       (IF disk[x] = Absent THEN {}
                        ELSE {Absent, [disk[x] EXCEPT !.text = v], [disk[x] EXCEPT !.mtime = v]})
    BY <1>1, <2>1
  <2>3. v # 0
    BY <1>1
  <2>4. disk[x] # Absent => disk[x].text # 0
    BY DEF MatchInv, FilesHaveText
  <2>5. disk[x] \in [text : Nat, mtime : Nat]
    BY <1>1 DEF FileStates
  <2> HIDE DEF v
  <2> QED BY <2>2, <2>3, <2>4, <2>5
<1>4. \A f \in Paths : Awaited(f) \/ f = x => Awaited(f)'
  BY <1>1 DEF Awaited
<1>5. \A f \in Paths : \A g : Handling(f, g)' <=> Handling(f, g)
  BY <1>1 DEF Handling, Working
<1>6. \A f \in Paths \ {x}, p \in Threads : AsOnDisk(p, f)' <=> AsOnDisk(p, f)
  BY <1>1, <1>2 DEF AsOnDisk
<1>7. Watcher \in Threads /\ Callers \subseteq Threads /\ task[Watcher].paths \subseteq Paths
  BY DEF Threads, IndexInv, IndexTypeOK, Tasks
<1>8. FilesHaveText'
  BY <1>1, <1>2, <1>3 DEF MatchInv, FilesHaveText
<1>9. BatchIsTrue'
  BY <1>1, <1>2 DEF MatchInv, BatchIsTrue, IndexInv, IndexTypeOK
<1>10. WatcherFitsBatch' /\ KnownRows'
  BY <1>1 DEF MatchInv, WatcherFitsBatch, KnownRows, Working
<1>11. WatcherReads'
  BY <1>1, <1>6, <1>7 DEF MatchInv, WatcherReads
<1>12. ReadingsHold'
  <2> SUFFICES ASSUME NEW u \in Callers, NEW f \in Paths \ skipped, Uncommitted(u)'
               PROVE  \/ AsOnDisk(u, f)' \/ Awaited(f)' \/ Handling(f, task[u].gen)'
                      \/ task'[u].gen < observed'[f].gen
    BY <1>1 DEF ReadingsHold
  <2>1. \/ AsOnDisk(u, f) \/ Awaited(f) \/ Handling(f, task[u].gen)
        \/ task[u].gen < observed[f].gen
    BY <1>1 DEF MatchInv, ReadingsHold, Uncommitted
  <2>2. Handling(f, task[u].gen) => Handling(f, task[u].gen)'
    BY <1>1 DEF Handling, Working
  <2> QED BY <1>1, <1>4, <1>6, <1>7, <2>1, <2>2
<1>13. RowsHold'
  <2> SUFFICES ASSUME NEW f \in Paths \ skipped PROVE RowHolds(f)'
    BY <1>1 DEF RowsHold
  <2>1. RowHolds(f)
    BY DEF MatchInv, RowsHold
  <2>2. Handling(f, seenBy[f]) => Handling(f, seenBy[f])'
    BY <1>1 DEF Handling, Working
  <2> QED BY <1>1, <1>2, <1>4, <2>1, <2>2 DEF RowHolds
<1> QED BY <1>8, <1>9, <1>10, <1>11, <1>12, <1>13 DEF MatchInv

LEMMA EventsKeepMatch ==
  ASSUME IndexInv, MatchInv, TakeEvents
  PROVE  MatchInv'
<1>1. /\ UNCHANGED <<disk, observed, rows, rowGen, seenBy, owed, task, skipped>>
      /\ batch = NoBatch /\ ~Working(Watcher) /\ events' = {}
      /\ batch'.changed = {f \in events : disk[f] # Absent}
      /\ batch'.removed = {f \in events : disk[f] = Absent}
  BY DEF TakeEvents, trackerVars, storeVars, Working
<1>2. task[Watcher].paths = {} /\ batch.changed = {} /\ batch.removed = {}
  BY <1>1 DEF MatchInv, WatcherFitsBatch, NoBatch
<1>3. \A f \in Paths : Awaited(f) => Awaited(f)'
  BY <1>1, <1>2 DEF Awaited
<1>4. \A f \in Paths : \A g : ~Handling(f, g)
  BY <1>1 DEF Handling
<1>5. FilesHaveText' /\ BatchIsTrue' /\ KnownRows' /\ WatcherReads'
  BY <1>1, <1>2 DEF MatchInv, FilesHaveText, BatchIsTrue, KnownRows, WatcherReads
<1>6. WatcherFitsBatch'
  BY <1>1, <1>2 DEF MatchInv, WatcherFitsBatch, Working
<1>7. ReadingsHold'
  BY <1>1, <1>3, <1>4 DEF MatchInv, ReadingsHold, Uncommitted, AsOnDisk
<1>8. RowsHold'
  BY <1>1, <1>3, <1>4 DEF MatchInv, RowsHold, RowHolds
<1> QED BY <1>5, <1>6, <1>7, <1>8 DEF MatchInv

LEMMA MatchNext == IndexInv /\ MatchInv /\ [IndexNext]_indexVars => MatchInv'
<1> SUFFICES ASSUME IndexInv, MatchInv, [IndexNext]_indexVars PROVE MatchInv'
  OBVIOUS
<1>1. CASE FencedRead \/ IndexAtRest \/ UNCHANGED indexVars
  <2>1. UNCHANGED <<disk, events, batch, observed, rows, rowGen, seenBy, owed, task, skipped>>
    BY <1>1 DEF FencedRead, IndexAtRest, indexVars, trackerVars, storeVars, worldVars
  <2> QED BY <2>1
       DEF MatchInv, FilesHaveText, BatchIsTrue, WatcherFitsBatch, ReadingsHold, WatcherReads,
           KnownRows, RowsHold, RowHolds, AsOnDisk, Awaited, Handling, Working, Uncommitted
<1> QED BY <1>1, StepKeepsMatch, FinishKeepsMatch, NewCallKeepsMatch, ChangeKeepsMatch,
           EventsKeepMatch DEF IndexNext

(* Whatever order changes, readings, commits and retries come in, for any number of
   files and callers: when every change is handled and no writer is left, each row is
   the file on the disk, but for the two kinds of files the code gives up. *)
THEOREM RowsMatchDisk == IndexSpec => []IndexMatchesDisk
<1>1. IndexTypeOK /\ IndexInv /\ MatchInv => IndexMatchesDisk
  <2> SUFFICES ASSUME IndexTypeOK, IndexInv, MatchInv, IndexQuiet, NEW f \in Paths \ skipped
               PROVE  rows[f] = disk[f] \/ seenBy[f] < owed[f]
    BY DEF IndexMatchesDisk
  <2>1. RowHolds(f) /\ events = {} /\ batch.changed = {} /\ batch.removed = {}
    BY DEF MatchInv, RowsHold, IndexQuiet, NoBatch
  <2>2. ~Working(Watcher)
    BY DEF IndexInv, TicketsInFlight, IndexQuiet, Threads
  <2> QED BY <2>1, <2>2 DEF RowHolds, Awaited, Handling
<1>2. IndexInv => IndexTypeOK
  BY DEF IndexInv
<1>3. IndexSpec => []MatchInv
  BY IndexInvariant, MatchInit, MatchNext, PTL DEF IndexSpec
<1> QED BY <1>1, <1>2, <1>3, IndexInvariant, PTL
=============================================================================
