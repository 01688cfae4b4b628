------------------------- MODULE AnalysisJobsProofs -------------------------
(***************************************************************************)
(* Proofs about the life of analysis jobs, for any number of request       *)
(* threads, workers, jobs and projects, any cap of the store, any number   *)
(* of attempts, and any clock.                                             *)
(***************************************************************************)
EXTENDS AnalysisJobs, SequenceLemmas

(***************************************************************************)
(* What one thread may be doing.                                           *)
(***************************************************************************)
ClientOps == {"status", "cancel", "store", "refuse"}

Fits(t, k) ==
  /\ k \in Task
  /\ k.op = "idle" <=> k.job = NoJob
  /\ IF t \in Clients THEN k.op \in ClientOps \cup {"idle"} ELSE k.op \notin ClientOps
  /\ k.phase \in {"memo", "write", "save"} <=> k.copy # None
  /\ CASE k.op \in Reads -> k.phase \in {"load", "memo"}
       [] k.op \in Updates -> k.phase # "enqueue"
       [] k.op = "store" -> k.phase \in {"write", "save", "enqueue"}
       [] OTHER -> k.phase = "load"
  /\ k.op = "store" /\ k.copy # None => k.copy.status = "Queued" /\ ~k.copy.result

TasksFit == \A t \in Threads : Fits(t, task[t])

(* A client in charge of j: it stores the record of j, or turns it into an error. *)
Starts(k) == k.op \in {"store", "refuse"}

(* A job is in the hands of one thread, or in the queue. *)
Placed ==
  /\ pending \in Seq(Jobs) /\ IsInjective(pending)
  /\ holding \in [Workers -> Jobs \cup {NoJob}]
  /\ \A w \in Workers : holding[w] = task[w].job
  /\ \A v, w \in Workers : holding[v] = holding[w] /\ holding[v] # NoJob => v = w
  /\ \A w \in Workers : holding[w] \notin Range(pending)
  /\ IsFiniteSet(created) /\ Range(pending) \subseteq created
  /\ \A t \in Threads : task[t].job \in created \cup {NoJob}
  /\ \A c \in Clients : Starts(task[c]) =>
       /\ task[c].job \notin Range(pending)
       /\ \A w \in Workers : holding[w] # task[c].job
       /\ \A d \in Clients : Starts(task[d]) /\ task[d].job = task[c].job => d = c

(***************************************************************************)
(* The records of a job: the files, the map and the copies of the threads. *)
(***************************************************************************)
(* Wherever a record of j is kept. *)
RecordsOf(j) ==
  ({disk[p][j] : p \in Projects} \cup {mem[j]}
     \cup {task[t].copy : t \in {u \in Threads : task[u].job = j}}) \ {None}

(* A result is shown by completed records only. *)
Honest == \A j \in Jobs : \A r \in RecordsOf(j) : r.result => r.status = "Completed"

(* Nobody is going to change the record of j, save by a cancellation. *)
Over(j) ==
  /\ j \in created
  /\ j \notin Range(pending)
  /\ \A t \in Threads : task[t].job = j =>
       \/ task[t].op \in {"status", "cancel", "finish"}
       \/ task[t].op = "complete" /\ task[t].phase = "save"

CompletedIsOver == \A j \in Jobs : \A r \in RecordsOf(j) : r.status = "Completed" => Over(j)

(* Records are kept of jobs that were created only. *)
Known == \A j \in Jobs : RecordsOf(j) # {} => j \in created

Inv == TypeOK /\ TasksFit /\ Placed /\ Known /\ Honest /\ CompletedIsOver

(***************************************************************************)
(* While the store keeps the directory it starts with.                     *)
(***************************************************************************)
AtHome == jobsDir = Home

OnlyHome == \A p \in Projects \ {Home} : \A j \in Jobs : disk[p][j] = None

Answered(j) ==
  \/ Settled(disk[Home][j])
  \/ j \in inherited
  \/ Responsible(j)

(* The threads that are about to leave a job have settled its record, and one that has
   read a settled record has read what the file says. *)
Concludes(k) ==
  \/ k.op = "finish"
  \/ k.op \in {"complete", "fail", "giveUp", "refuse"} /\ k.phase = "save"
  \/ k.phase = "memo" /\ Settled(k.copy)

Concluded ==
  \A t \in Threads :
    task[t].job # NoJob /\ task[t].op \notin {"status", "cancel"} /\ Concludes(task[t])
      => Settled(disk[Home][task[t].job])

HomeInv == OnlyHome /\ (\A j \in Jobs : Answered(j)) /\ Concluded

(***************************************************************************)
(* While no record is removed either.                                      *)
(***************************************************************************)
RecordsStay == \A j \in Jobs : disk[Home][j] # None => disk'[Home][j] # None

Recorded ==
  /\ \A j \in Range(pending) : disk[Home][j] # None
  /\ \A w \in Workers : holding[w] # NoJob => disk[Home][holding[w]] # None
  /\ \A c \in Clients : task[c].op = "store" /\ task[c].phase # "write"
                          => disk[Home][task[c].job] # None

Exact ==
  \A j \in Jobs : \A r \in RecordsOf(j) :
    r.result <=> r.status = "Completed" /\ j \in Reports

(* A worker that has read a cancellation has read what the file says. *)
CancelSeen ==
  \A w \in Workers : Cancelled(task[w].copy) /\ task[w].phase = "memo"
    => Cancelled(disk[Home][task[w].job])

(* An empty payload is the mark of a cancelled job, and nothing else is published. *)
EmptyIsCancelled ==
  \A w \in Workers :
    /\ task[w].op \in {"publish", "complete"} => task[w].payload = "full"
    /\ task[w].payload = "empty" =>
         /\ task[w].op = "verdict"
         /\ Cancelled(disk[Home][task[w].job])
         /\ task[w].phase = "memo" => Cancelled(task[w].copy)

(* What is asked of a job once it was cancelled in the queue. *)
Dropped(j) ==
  /\ Cancelled(disk[Home][j])
  /\ \A r \in RecordsOf(j) : r.status # "Completed"
  /\ \A t \in Threads : task[t].job = j =>
       \/ task[t].op \in {"status", "cancel", "finish"}
       \/ task[t].op = "dequeue" /\ (task[t].phase = "memo" => Cancelled(task[t].copy))

DroppedStays == \A j \in dropped : Dropped(j)

KeptInv == OnlyHome /\ Recorded /\ Exact /\ CancelSeen /\ EmptyIsCancelled /\ DroppedStays

(***************************************************************************)
(* What a thread may do next.                                              *)
(***************************************************************************)
Ops == Reads \cup Updates \cup {"idle", "store", "work", "finish"}

Payloads == {"none", "empty", "full"}

LEMMA Bounds ==
  /\ MaxPolls \in Nat /\ MaxAdvances \in Nat /\ MaxClock \in Nat /\ MaxRestarts \in Nat
  /\ MaxSwitches \in Nat /\ MaxAttempts \in Nat /\ MaxAttempts > 0 /\ MaxJobs \in Nat
  /\ Home \in Projects /\ NoJob \notin Jobs /\ Workers \cap Clients = {}
BY JobsAssumption, QueueOfJobs DEF JobsAssumption, Queue!QueueAssumption

(* A task with other fields, as the steps below make them. *)
LEMMA IdleShape ==
  /\ Idle \in Task /\ Idle.op = "idle" /\ Idle.phase = "load" /\ Idle.job = NoJob
  /\ Idle.copy = None /\ Idle.payload = "none" /\ Idle.left = 0 /\ Idle.tries = 0
BY Bounds DEF Idle, Task

LEMMA ThenShape ==
  ASSUME NEW k \in Task, NEW op \in Ops
  PROVE  LET n == Then(k, op)
         IN  /\ n \in Task /\ n.op = op /\ n.phase = "load" /\ n.copy = None
             /\ n.job = k.job /\ n.payload = k.payload
<1> DEFINE n == [k EXCEPT !.op = op, !.phase = "load", !.copy = None, !.dir = Home]
<1>1. n \in Task
  BY Bounds DEF Task, Ops
<1>2. /\ n.op = op /\ n.phase = "load" /\ n.copy = None
      /\ n.job = k.job /\ n.payload = k.payload
  BY DEF Task
<1> QED BY <1>1, <1>2 DEF Then

LEMMA OnwardShape ==
  ASSUME NEW k \in Task, NEW op \in Ops, NEW payload \in Payloads
  PROVE  LET n == Onward(k, op, payload)
         IN  /\ n \in Task /\ n.op = op /\ n.phase = "load" /\ n.copy = None
             /\ n.job = k.job /\ n.payload = payload
<1> DEFINE n == [Idle EXCEPT !.op = op, !.job = k.job, !.payload = payload]
<1>1. n \in Task
  <2>1. k.job \in Jobs \cup {NoJob}
    BY DEF Task
  <2>2. Idle \in Task
    BY IdleShape
  <2> QED BY <2>1, <2>2 DEF Task, Ops, Payloads
<1>2. /\ n.op = op /\ n.phase = "load" /\ n.copy = None
      /\ n.job = k.job /\ n.payload = payload
  BY IdleShape DEF Task
<1> QED BY <1>1, <1>2 DEF Onward

(* The bounds on polls, reports and attempts leave a task a task. *)
LEMMA LeftShape ==
  ASSUME NEW k \in Task, NEW n \in {0, MaxPolls, MaxAdvances, k.left - 1},
         n = k.left - 1 => k.left > 0 \/ n \in {0, MaxPolls, MaxAdvances}
  PROVE  LET m == [k EXCEPT !.left = n]
         IN  /\ m \in Task /\ m.op = k.op /\ m.phase = k.phase /\ m.copy = k.copy
             /\ m.job = k.job /\ m.payload = k.payload /\ m.left = n
<1>1. n \in 0..MaxPolls + MaxAdvances
  <2>1. k.left \in 0..MaxPolls + MaxAdvances
    BY DEF Task
  <2> QED BY <2>1, Bounds
<1> QED BY <1>1 DEF Task

LEMMA TriesShape ==
  ASSUME NEW k \in Task, ~LastAttempt(k)
  PROVE  LET m == [k EXCEPT !.tries = @ + 1, !.left = MaxAdvances]
         IN  /\ m \in Task /\ m.op = k.op /\ m.phase = k.phase /\ m.copy = k.copy
             /\ m.job = k.job /\ m.payload = k.payload
<1>1. k.tries + 1 \in 0..MaxAttempts - 1
  <2>1. k.tries \in 0..MaxAttempts - 1
    BY DEF Task
  <2> QED BY <2>1, Bounds DEF LastAttempt
<1>2. MaxAdvances \in 0..MaxPolls + MaxAdvances
  BY Bounds
<1> QED BY <1>1, <1>2 DEF Task

(* The memory gate starts the job or polls again. *)
LEMMA GateShape ==
  ASSUME NEW k \in Task, NEW n \in Gate(k)
  PROVE  /\ n \in Task /\ n.op \in {"start", "poll"} /\ n.phase = "load" /\ n.copy = None
         /\ n.job = k.job /\ n.payload \in {"none", k.payload}
<1>1. CASE n = [Onward(k, "start", "none") EXCEPT !.left = MaxAdvances]
  <2> DEFINE m == Onward(k, "start", "none")
  <2>1. /\ m \in Task /\ m.op = "start" /\ m.phase = "load" /\ m.copy = None
        /\ m.job = k.job /\ m.payload = "none"
    BY OnwardShape DEF Ops, Payloads, Updates
  <2> HIDE DEF m
  <2>2. /\ n \in Task /\ n.op = m.op /\ n.phase = m.phase /\ n.copy = m.copy
        /\ n.job = m.job /\ n.payload = m.payload
    BY <1>1, <2>1, LeftShape DEF m
  <2> QED BY <2>1, <2>2
<1>2. CASE k.left > 0 /\ n = Then([k EXCEPT !.left = @ - 1], "poll")
  <2> DEFINE m == [k EXCEPT !.left = k.left - 1]
  <2>1. m \in Task /\ m.job = k.job /\ m.payload = k.payload
    BY <1>2, LeftShape
  <2>2. n = Then(m, "poll")
    BY <1>2
  <2> HIDE DEF m
  <2> QED BY <2>1, <2>2, ThenShape DEF Ops, Reads, Checks
<1> QED BY <1>1, <1>2 DEF Gate

(* What follows a read. *)
LEMMA AfterReadShape ==
  ASSUME NEW t \in Threads, NEW k, Fits(t, k), k.op \in Reads, NEW r \in Record \cup {None},
         NEW n \in AfterRead(k, r)
  PROVE  /\ Fits(t, n) /\ n.phase = "load" /\ n.copy = None
         /\ t \in Clients => n = Idle
         /\ t \notin Clients => n.job = k.job /\ n.op # "dequeue"
         /\ n.op = "finish" => k.op \in Checks /\ Cancelled(r)
         /\ k.op \in Checks /\ Cancelled(r) => n.op = "finish" /\ n.payload = "none"
         /\ n.op \in {"publish", "complete"} => n.payload = k.payload
         /\ n.op = "publish" => k.op = "verdict" /\ k.payload # "none"
         /\ n.op = "complete" => k.op = "publish"
         /\ n.payload = "empty" => \/ k.payload = "empty"
                                   \/ k.op = "advance" /\ Cancelled(r) /\ n.op = "verdict"
<1> DEFINE Good(m) ==
             /\ m \in Task /\ m.phase = "load" /\ m.copy = None /\ m.job = k.job
             /\ m.op \in Ops \ (ClientOps \cup {"idle", "dequeue"})
             /\ m.op = "finish" => k.op \in Checks /\ Cancelled(r)
             /\ k.op \in Checks /\ Cancelled(r) => m.op = "finish" /\ m.payload = "none"
             /\ m.op \in {"publish", "complete"} => m.payload = k.payload
             /\ m.op = "publish" => k.op = "verdict" /\ k.payload # "none"
             /\ m.op = "complete" => k.op = "publish"
             /\ m.payload = "empty" => \/ k.payload = "empty"
                                       \/ k.op = "advance" /\ Cancelled(r) /\ m.op = "verdict"
<1>0. k \in Task /\ k.payload \in Payloads
  BY DEF Fits, Task, Payloads
<1>1. ASSUME NEW op \in Ops \ (ClientOps \cup {"idle", "dequeue", "finish"}),
             ~(k.op \in Checks /\ Cancelled(r)),
             op = "publish" => k.op = "verdict" /\ k.payload # "none",
             op = "complete" => k.op = "publish"
      PROVE  Good(Then(k, op))
  <2> DEFINE m == Then(k, op)
  <2>1. /\ m \in Task /\ m.op = op /\ m.phase = "load" /\ m.copy = None
        /\ m.job = k.job /\ m.payload = k.payload
    BY <1>0, <1>1, ThenShape
  <2> HIDE DEF m
  <2>2. Good(m)
    BY <1>1, <2>1
  <2> QED BY <2>2 DEF m
<1>2. ASSUME NEW op \in Ops \ (ClientOps \cup {"idle", "dequeue", "publish", "complete"}),
             NEW payload \in Payloads,
             payload = "empty" => k.op = "advance" /\ Cancelled(r) /\ op = "verdict",
             op = "finish" => k.op \in Checks /\ Cancelled(r) /\ payload = "none",
             k.op \in Checks /\ Cancelled(r) => op = "finish"
      PROVE  Good(Onward(k, op, payload))
  <2> DEFINE m == Onward(k, op, payload)
  <2>1. /\ m \in Task /\ m.op = op /\ m.phase = "load" /\ m.copy = None
        /\ m.job = k.job /\ m.payload = payload
    BY <1>0, <1>2, OnwardShape
  <2> HIDE DEF m
  <2>2. Good(m)
    BY <1>2, <2>1
  <2> QED BY <2>2 DEF m
<1>3. k.op \in {"dequeue", "begin", "poll", "check", "verdict", "publish"} <=> k.op \in Checks
  BY DEF Checks
<1>4. CASE k.op = "status"
  <2>1. n = Idle
    BY <1>4 DEF AfterRead, Checks
  <2>2. t \in Clients
    BY <1>4 DEF Fits, ClientOps
  <2> QED BY <1>4, <2>1, <2>2, IdleShape DEF Fits, Reads, Checks, Updates
<1>5. ASSUME Good(n), k.op # "status"
      PROVE  Fits(t, n) /\ t \notin Clients
  <2>1. t \notin Clients /\ k.job # NoJob
    BY <1>5 DEF Fits, ClientOps, Reads, Checks
  <2> QED BY <1>5, <2>1 DEF Fits, ClientOps, Ops, Reads, Checks, Updates
<1>6. CASE k.op = "advance"
  <2>1. n \in Advance(k, r)
    BY <1>6 DEF AfterRead, Checks
  <2>2. ~(k.op \in Checks /\ Cancelled(r))
    BY <1>6 DEF Checks
  <2>3. Good(Then(k, "retry")) /\ Good(Then(k, "deadline")) /\ Good(Then(k, "progress"))
        /\ Good(Then(k, "work"))
    <3> HIDE DEF Good
    <3> QED BY <1>1, <2>2 DEF Ops, Reads, Checks, Updates, ClientOps
  <2>4. Cancelled(r) => Good(Onward(k, "verdict", "empty"))
    <3> HIDE DEF Good
    <3> QED BY <1>2, <1>6, <2>2 DEF Ops, Reads, Checks, Updates, ClientOps, Payloads
  <2>5. Good(n)
    <3> HIDE DEF Good
    <3> QED BY <2>1, <2>3, <2>4 DEF Advance, Failed
  <2> QED BY <1>5, <1>6, <2>5
<1>7. CASE k.op = "retry"
  <2>1. n = Retry(k, r)
    BY <1>7 DEF AfterRead, Checks
  <2>2. ~(k.op \in Checks /\ Cancelled(r))
    BY <1>7 DEF Checks
  <2>3. Good(Onward(k, "verdict", "none"))
    <3> HIDE DEF Good
    <3> QED BY <1>2, <2>2 DEF Ops, Reads, Checks, Updates, ClientOps, Payloads
  <2>4. ASSUME ~LastAttempt(k)
        PROVE  Good(Then([k EXCEPT !.tries = @ + 1, !.left = MaxAdvances], "work"))
    <3> DEFINE m == [k EXCEPT !.tries = @ + 1, !.left = MaxAdvances]
               q == Then(m, "work")
    <3>1. m \in Task /\ m.job = k.job /\ m.payload = k.payload
      BY <1>0, <2>4, TriesShape
    <3> HIDE DEF m
    <3>2. /\ q \in Task /\ q.op = "work" /\ q.phase = "load" /\ q.copy = None
          /\ q.job = k.job /\ q.payload = k.payload
      BY <3>1, ThenShape DEF Ops
    <3> HIDE DEF q
    <3>3. Good(q)
      BY <1>7, <2>2, <3>2 DEF Ops, Reads, Checks, Updates, ClientOps
    <3> QED BY <3>3 DEF q, m
  <2>5. Good(n)
    <3> HIDE DEF Good
    <3> QED BY <2>1, <2>3, <2>4 DEF Retry
  <2> QED BY <1>5, <1>7, <2>5
<1>8. CASE k.op \in Checks /\ Cancelled(r)
  <2>1. n = Onward(k, "finish", "none")
    BY <1>8 DEF AfterRead, Checks, Done
  <2>2. Good(Onward(k, "finish", "none"))
    <3> HIDE DEF Good
    <3> QED BY <1>2, <1>8 DEF Ops, Reads, Checks, Updates, ClientOps, Payloads
  <2> QED BY <1>5, <1>8, <2>1, <2>2 DEF Checks
<1>9. CASE k.op \in Checks /\ ~Cancelled(r)
  <2>1. Good(Then(k, "begin")) /\ Good(Then(k, "giveUp")) /\ Good(Then(k, "defer"))
        /\ Good(Then(k, "work")) /\ Good(Then(k, "fail"))
        /\ (k.op = "verdict" /\ k.payload # "none" => Good(Then(k, "publish")))
        /\ (k.op = "publish" => Good(Then(k, "complete")))
    <3> HIDE DEF Good
    <3> QED BY <1>1, <1>9 DEF Ops, Reads, Checks, Updates, ClientOps
  <2>2. CASE k.op = "begin"
    <3> DEFINE m == [k EXCEPT !.left = IF k.job \in Heavy THEN MaxPolls ELSE 0]
    <3>1. n = Then(k, "giveUp") \/ n \in Gate(m)
      BY <1>9, <2>2 DEF AfterRead, Checks
    <3>2. m \in Task /\ m.job = k.job /\ m.payload = k.payload
      BY <1>0, LeftShape
    <3> HIDE DEF m
    <3>3. ASSUME n \in Gate(m) PROVE Good(n)
      <4>1. /\ n \in Task /\ n.op \in {"start", "poll"} /\ n.phase = "load" /\ n.copy = None
            /\ n.job = m.job /\ n.payload \in {"none", m.payload}
        BY <3>2, <3>3, GateShape
      <4> QED BY <1>9, <3>2, <4>1 DEF Ops, Reads, Checks, Updates, ClientOps
    <3>4. Good(n)
      <4> HIDE DEF Good
      <4> QED BY <2>1, <3>1, <3>3
    <3> QED BY <1>5, <2>2, <3>4
  <2>3. CASE k.op # "begin"
    <3>1. \/ n \in {Then(k, "begin"), Then(k, "defer"), Then(k, "work"), Then(k, "fail")}
          \/ k.op = "verdict" /\ k.payload # "none" /\ n = Then(k, "publish")
          \/ k.op = "publish" /\ n = Then(k, "complete")
      BY <1>9, <2>3 DEF AfterRead, Checks
    <3>2. Good(n)
      <4> HIDE DEF Good
      <4> QED BY <2>1, <3>1
    <3>3. k.op # "status"
      BY <1>9 DEF Checks
    <3> QED BY <1>5, <3>2, <3>3
  <2> QED BY <2>2, <2>3
<1> QED BY <1>4, <1>6, <1>7, <1>8, <1>9 DEF Reads

(* What follows an update. *)
LEMMA AfterUpdateShape ==
  ASSUME NEW t \in Threads, NEW k, Fits(t, k), k.op \in Updates \cup {"store"},
         NEW success \in BOOLEAN, NEW n \in AfterUpdate(k, success)
  PROVE  /\ Fits(t, n) /\ n.phase = "load" /\ n.copy = None
         /\ t \in Clients => n = Idle
         /\ t \notin Clients => n.job = k.job /\ n.op \notin {"dequeue", "publish", "complete"}
         /\ n.op = "finish" => k.op = "giveUp" \/ (k.op \in {"complete", "fail"} /\ success)
         /\ k.op = "complete" /\ success => n.op = "finish"
         /\ n.payload = "empty" => k.payload = "empty"
<1> DEFINE Good(m) ==
             /\ m \in Task /\ m.phase = "load" /\ m.copy = None /\ m.job = k.job
             /\ m.op \in Ops \ (ClientOps \cup {"idle", "dequeue", "publish", "complete"})
             /\ m.op = "finish" => k.op = "giveUp" \/ (k.op \in {"complete", "fail"} /\ success)
             /\ k.op = "complete" /\ success => m.op = "finish"
             /\ m.payload = "empty" => k.payload = "empty"
<1>0. k \in Task
  BY DEF Fits
<1>1. ASSUME k.op \in ClientOps PROVE n = Idle /\ t \in Clients
  <2>1. k.op \in {"cancel", "refuse", "store"}
    BY <1>1 DEF Updates, ClientOps
  <2>2. n = Idle
    BY <2>1 DEF AfterUpdate, Done
  <2> QED BY <1>1, <2>2 DEF Fits
<1>2. CASE k.op \in ClientOps
  BY <1>1, <1>2, IdleShape DEF Fits, Reads, Checks, Updates, ClientOps
<1>3. CASE k.op \notin ClientOps
  <2>0. /\ t \notin Clients /\ k.job # NoJob
        /\ k.op \in {"defer", "start", "progress", "deadline", "complete", "fail", "giveUp"}
    BY <1>3 DEF Fits, ClientOps, Updates
  <2>1. ASSUME NEW op \in {"check", "work", "retry"}, k.op # "complete"
        PROVE  Good(Then(k, op))
    <3> DEFINE m == Then(k, op)
    <3>1. /\ m \in Task /\ m.op = op /\ m.phase = "load" /\ m.copy = None
          /\ m.job = k.job /\ m.payload = k.payload
      BY <1>0, ThenShape DEF Ops, Reads, Checks
    <3> HIDE DEF m
    <3>2. Good(m)
      BY <2>1, <3>1 DEF Ops, Reads, Checks, ClientOps
    <3> QED BY <3>2 DEF m
  <2>2. ASSUME NEW op \in {"giveUp", "finish"},
               op = "finish" => k.op = "giveUp" \/ (k.op \in {"complete", "fail"} /\ success),
               k.op = "complete" /\ success => op = "finish"
        PROVE  Good(Onward(k, op, "none"))
    <3> DEFINE m == Onward(k, op, "none")
    <3>1. /\ m \in Task /\ m.op = op /\ m.phase = "load" /\ m.copy = None
          /\ m.job = k.job /\ m.payload = "none"
      BY <1>0, OnwardShape DEF Ops, Updates, Payloads
    <3> HIDE DEF m
    <3>2. Good(m)
      BY <2>2, <3>1 DEF Ops, Updates, ClientOps
    <3> QED BY <3>2 DEF m
  <2>3. Good(n)
    <3>1. CASE k.op = "defer"
      <4>1. n \in Gate(k)
        BY <3>1 DEF AfterUpdate
      <4>2. /\ n \in Task /\ n.op \in {"start", "poll"} /\ n.phase = "load" /\ n.copy = None
            /\ n.job = k.job /\ n.payload \in {"none", k.payload}
        BY <1>0, <4>1, GateShape
      <4> QED BY <3>1, <4>2 DEF Ops, Reads, Checks, Updates, ClientOps
    <3>2. CASE k.op # "defer"
      <4>1. \/ k.op # "complete" /\ n \in {Then(k, "check"), Then(k, "work"), Then(k, "retry")}
            \/ /\ n = Onward(k, "finish", "none")
               /\ k.op = "giveUp" \/ (k.op \in {"complete", "fail"} /\ success)
            \/ ~success /\ n = Onward(k, "giveUp", "none")
        BY <2>0, <3>2 DEF AfterUpdate, Done, Failed
      <4> HIDE DEF Good
      <4> QED BY <2>1, <2>2, <4>1
    <3> QED BY <3>1, <3>2
  <2> QED BY <2>0, <2>3 DEF Fits, ClientOps, Ops, Reads, Checks, Updates
<1> QED BY <1>2, <1>3

(* What an update makes of the copy it holds. *)
LEMMA PatchedShape ==
  ASSUME NEW t \in Threads, NEW k, Fits(t, k), k.phase = "write", now \in 0..MaxClock
  PROVE  LET r == Patched(k)
         IN  /\ r \in Record /\ r # None
             /\ k.op \in {"complete", "fail", "giveUp", "refuse", "cancel"}
                  => r.status \in Terminal
             /\ k.op = "cancel" => (r = k.copy /\ r.status = "Completed") \/ Cancelled(r)
             /\ k.op = "cancel" /\ k.copy.status = "Completed" => r = k.copy
             /\ r.status = "Completed" => k.op = "complete" \/ k.copy.status = "Completed"
             /\ k.op = "complete" => r.status = "Completed" /\ r.result = HasHandle(k)
             /\ k.op = "store" => r.status = "Queued" /\ ~r.result
             /\ k.op # "complete" => (r.result => k.copy.result)
<1> DEFINE c == k.copy
           r == [c EXCEPT !.at = now]
           p == Patched(k)
<1>1. k \in Task /\ c \in Record /\ c # None
  BY DEF Fits, Task
<1>2. /\ r \in Record /\ r.status = c.status /\ r.result = c.result
  BY <1>1 DEF Record
<1>3. k.op \in {"cancel", "defer", "start", "progress", "refuse", "deadline", "fail",
                "giveUp", "complete", "store"}
  BY DEF Fits, Reads, Checks, Updates
<1>4. /\ k.op = "cancel" => p = IF c.status = "Completed" THEN c
                                ELSE [r EXCEPT !.status = "Cancelled"]
      /\ k.op = "defer" => p = r
      /\ k.op \in {"start", "progress"} => p = [r EXCEPT !.status = "Running"]
      /\ k.op \in {"refuse", "deadline"} => p = [r EXCEPT !.status = "Error"]
      /\ k.op \in {"fail", "giveUp"} => p = [r EXCEPT !.status = "Error", !.result = FALSE]
      /\ k.op = "complete" =>
           p = [r EXCEPT !.status = "Completed", !.result = HasHandle(k)]
      /\ k.op = "store" => p = c
  BY DEF Patched, CancelSpares
<1>5. k.op = "store" => c.status = "Queued" /\ ~c.result
  BY <1>1 DEF Fits
<1> HIDE DEF r, p, c
<1>6. HasHandle(k) \in BOOLEAN
  BY DEF HasHandle
<1>7. p \in Record
  BY <1>6, <1>1, <1>2, <1>3, <1>4, <1>5 DEF Record, Active, Terminal
<1> QED BY <1>1, <1>2, <1>3, <1>4, <1>5, <1>7, NoneIsNoRecord
        DEF p, c, Record, Active, Terminal, Cancelled

(***************************************************************************)
(* The steps of the store.                                                 *)
(***************************************************************************)
Moves(t, k) == task' = [task EXCEPT ![t] = k]

(* What any step of a call or of an attempt does to the thread's task. *)
Goes(a, b) ==
  /\ a.op \notin {"idle", "finish"}
  /\ b.job = a.job \/ (b = Idle /\ a.op \in ClientOps)
  /\ Starts(b) => Starts(a)
  /\ a.op \in {"status", "cancel"} => b.op \in {a.op, "idle"}
  /\ a.op = "complete" /\ a.phase = "save" => b.op = "finish"

LEMMA MoveShape ==
  ASSUME TypeOK, TasksFit, NEW t \in Threads, NEW k, Fits(t, k), Moves(t, k)
  PROVE  /\ task' \in [Threads -> Task] /\ TasksFit'
         /\ \A u \in Threads : task'[u] = IF u = t THEN k ELSE task[u]
<1>1. task \in [Threads -> Task] /\ k \in Task
  BY DEF TypeOK, Fits
<1>2. task' \in [Threads -> Task]
      /\ \A u \in Threads : task'[u] = IF u = t THEN k ELSE task[u]
  BY <1>1 DEF Moves
<1>3. ASSUME NEW u \in Threads PROVE Fits(u, task[u])' <=> Fits(u, task'[u])
  BY DEF Fits
<1>4. TasksFit'
  BY <1>2, <1>3 DEF TasksFit
<1> QED BY <1>2, <1>4

(* prune removes records, of the files of the current directory and of the map. *)
LEMMA PruneShape ==
  ASSUME TypeOK, NEW s \in Seq(Jobs), NEW m \in [Jobs -> Record \cup {None}], Prune(s, m)
  PROVE  /\ disk' \in [Projects -> [Jobs -> Record \cup {None}]]
         /\ mem' \in [Jobs -> Record \cup {None}]
         /\ order' \in Seq(Jobs)
         /\ \A p \in Projects : \A j \in Jobs : disk'[p][j] \in {None, disk[p][j]}
         /\ \A p \in Projects \ {jobsDir} : disk'[p] = disk[p]
         /\ \A j \in Jobs : mem'[j] \in {None, m[j]}
<1> DEFINE gone == Forgotten(s, m)
           files == [j \in Jobs |-> IF j \in gone THEN None ELSE Fresh(disk[jobsDir])[j]]
<1>1. /\ disk \in [Projects -> [Jobs -> Record \cup {None}]] /\ jobsDir \in Projects
      /\ disk' = [disk EXCEPT ![jobsDir] = files]
      /\ mem' = [j \in Jobs |-> IF j \in gone THEN None ELSE m[j]]
      /\ order' = Dropping(s, gone)
  BY DEF Prune, TypeOK
<1> HIDE DEF gone
<1>2. /\ files \in [Jobs -> Record \cup {None}]
      /\ \A j \in Jobs : files[j] \in {None, disk[jobsDir][j]}
  BY <1>1 DEF Fresh
<1> HIDE DEF files
<1>3. order' \in Seq(Jobs \ gone)
  BY <1>1, DroppingProperties
<1>4. order' \in Seq(Jobs)
  <2>1. \A i \in 1..Len(order') : order'[i] \in Jobs
    BY <1>3, ElementOfSeq
  <2>2. Len(order') \in Nat /\ order' = [i \in 1..Len(order') |-> order'[i]]
    BY <1>3
  <2> QED BY <2>1, <2>2, IsASeq
<1> QED BY <1>1, <1>2, <1>4

LEMMA LoadShape ==
  ASSUME TypeOK, TasksFit, NEW t \in Threads, Load(t)
  PROVE  \E k \in Task :
           /\ Moves(t, k) /\ Fits(t, k) /\ Goes(task[t], k)
           /\ \/ /\ k.phase = "memo" /\ k.op = task[t].op /\ k.job = task[t].job
                 /\ k.payload = task[t].payload
                 /\ k.copy = Latest(disk'[jobsDir], mem', task[t].job)
              \/ /\ k.phase = "load" /\ k.copy = None
                 /\ disk'[jobsDir][task[t].job] = None
                 /\ \/ task[t].op \in Reads /\ k \in AfterRead(task[t], None)
                    \/ task[t].op \in Updates /\ k \in AfterUpdate(task[t], FALSE)
<1> DEFINE a == task[t]
           r == Latest(disk'[jobsDir], mem', a.job)
<1>1. /\ Fits(t, a) /\ a \in Task /\ a.job \in Jobs /\ jobsDir \in Projects
      /\ a.op \in Reads \cup Updates /\ a.phase = "load"
  <2>1. Fits(t, a) /\ jobsDir \in Projects
    BY DEF TasksFit, TypeOK
  <2>2. a.op \in Reads \cup Updates /\ a.phase = "load"
    BY DEF Load
  <2>3. a.op # "idle"
    BY <2>2 DEF Reads, Checks, Updates
  <2> QED BY <2>1, <2>2, <2>3 DEF Fits, Task
<1>2. r \in Record \cup {None} /\ (r = None => disk'[jobsDir][a.job] = None)
  <2>1. order \in Seq(Jobs) /\ mem \in [Jobs -> Record \cup {None}] /\ Prune(order, mem)
    BY DEF Load, TypeOK
  <2>2. disk'[jobsDir][a.job] \in Record \cup {None} /\ mem'[a.job] \in Record \cup {None}
    BY <1>1, <2>1, PruneShape
  <2> QED BY <2>2 DEF Latest
<1>3. PICK k \in (IF r # None THEN {[a EXCEPT !.phase = "memo", !.copy = r, !.dir = jobsDir]}
                  ELSE IF a.op \in Reads THEN AfterRead(a, None) ELSE AfterUpdate(a, FALSE)) :
        Moves(t, k)
  BY DEF Load, Becomes, Moves
<1> HIDE DEF r, a
<1>4. CASE r # None
  <2>1. k = [a EXCEPT !.phase = "memo", !.copy = r, !.dir = jobsDir]
    BY <1>3, <1>4
  <2>2. /\ k \in Task /\ k.op = a.op /\ k.job = a.job /\ k.phase = "memo" /\ k.copy = r
        /\ k.payload = a.payload
    BY <1>1, <1>2, <2>1 DEF Task
  <2>3. Fits(t, k)
    BY <1>1, <1>4, <2>2 DEF Fits, Reads, Checks, Updates
  <2>4. Goes(a, k)
    BY <1>1, <2>2 DEF Goes, Starts, Reads, Checks, Updates
  <2> QED BY <1>3, <2>2, <2>3, <2>4 DEF a, r
<1>5. CASE r = None /\ a.op \in Reads
  <2>1. k \in AfterRead(a, None)
    BY <1>3, <1>5
  <2>2. /\ Fits(t, k) /\ k.phase = "load" /\ k.copy = None
        /\ t \in Clients => k = Idle
        /\ t \notin Clients => k.job = a.job
    <3>1. None \in Record \cup {None}
      OBVIOUS
    <3> QED BY <1>1, <1>5, <2>1, <3>1, AfterReadShape
  <2>3. Goes(a, k)
    BY <1>1, <1>5, <2>2, IdleShape DEF Fits, Goes, Starts, Reads, Checks, ClientOps
  <2> QED BY <1>2, <1>3, <1>5, <2>1, <2>2, <2>3 DEF Fits, a, r
<1>6. CASE r = None /\ a.op \notin Reads
  <2>1. k \in AfterUpdate(a, FALSE) /\ a.op \in Updates
    BY <1>1, <1>3, <1>6
  <2>2. /\ Fits(t, k) /\ k.phase = "load" /\ k.copy = None
        /\ t \in Clients => k = Idle
        /\ t \notin Clients => k.job = a.job
    <3> DEFINE no == FALSE
    <3>1. no \in BOOLEAN /\ a.op \in Updates \cup {"store"} /\ k \in AfterUpdate(a, no)
      BY <2>1
    <3> HIDE DEF no
    <3> QED BY <1>1, <3>1, AfterUpdateShape
  <2>3. Goes(a, k)
    BY <1>1, <2>1, <2>2, IdleShape DEF Fits, Goes, Starts, Updates, ClientOps
  <2> QED BY <1>2, <1>3, <1>6, <2>1, <2>2, <2>3 DEF Fits, a, r
<1> QED BY <1>4, <1>5, <1>6

LEMMA MemoShape ==
  ASSUME TypeOK, TasksFit, NEW t \in Threads, Memo(t)
  PROVE  \E k \in Task :
           /\ Moves(t, k) /\ Fits(t, k) /\ Goes(task[t], k)
           /\ task[t].job \in Jobs /\ task[t].copy \in Record
           /\ \/ task[t].op \in Reads /\ k \in AfterRead(task[t], task[t].copy)
                 /\ k.phase = "load" /\ k.copy = None
              \/ /\ task[t].op \in Updates /\ k.phase = "write" /\ k.op = task[t].op
                 /\ k.job = task[t].job /\ k.copy = task[t].copy
                 /\ k.payload = task[t].payload
<1> DEFINE a == task[t]
<1>1. /\ Fits(t, a) /\ a \in Task /\ a.job \in Jobs /\ a.copy \in Record /\ a.phase = "memo"
      /\ a.op \in Reads \cup Updates
  <2>1. Fits(t, a)
    BY DEF TasksFit
  <2>2. a.phase = "memo"
    BY DEF Memo
  <2>3. a.op \in Reads \cup Updates
    BY <2>1, <2>2 DEF Fits, Task
  <2>4. a.op # "idle"
    BY <2>3 DEF Reads, Checks, Updates
  <2> QED BY <2>1, <2>2, <2>3, <2>4 DEF Fits, Task
<1>2. PICK k \in (IF a.op \in Reads THEN AfterRead(a, a.copy) ELSE {[a EXCEPT !.phase = "write"]}) :
        Moves(t, k)
  BY DEF Memo, Becomes, Moves
<1> HIDE DEF a
<1>3. CASE a.op \in Reads
  <2>1. k \in AfterRead(a, a.copy)
    BY <1>2, <1>3
  <2>2. /\ Fits(t, k) /\ k.phase = "load" /\ k.copy = None
        /\ t \in Clients => k = Idle
        /\ t \notin Clients => k.job = a.job
    <3>1. a.copy \in Record \cup {None}
      BY <1>1
    <3> QED BY <1>1, <1>3, <2>1, <3>1, AfterReadShape
  <2>3. Goes(a, k)
    BY <1>1, <1>3, <2>2, IdleShape DEF Fits, Goes, Starts, Reads, Checks, ClientOps
  <2> QED BY <1>1, <1>2, <1>3, <2>1, <2>2, <2>3 DEF Fits, a
<1>4. CASE a.op \notin Reads
  <2>1. k = [a EXCEPT !.phase = "write"]
    BY <1>2, <1>4
  <2>2. /\ k \in Task /\ k.op = a.op /\ k.job = a.job /\ k.phase = "write" /\ k.copy = a.copy
        /\ k.payload = a.payload
    BY <1>1, <2>1 DEF Task
  <2>3. Fits(t, k)
    BY <1>1, <1>4, <2>2 DEF Fits, Reads, Checks, Updates
  <2>4. Goes(a, k)
    BY <1>1, <2>2 DEF Goes, Starts, Reads, Checks, Updates
  <2> QED BY <1>1, <1>2, <1>4, <2>2, <2>3, <2>4 DEF a
<1> QED BY <1>3, <1>4

LEMMA WriteShape ==
  ASSUME TypeOK, TasksFit, NEW t \in Threads, Write(t)
  PROVE  \E k \in Task :
           /\ Moves(t, k) /\ Fits(t, k) /\ Goes(task[t], k)
           /\ task[t].job \in Jobs /\ task[t].phase = "write" /\ task[t].copy \in Record
           /\ k.phase = "save" /\ k.op = task[t].op /\ k.job = task[t].job
           /\ k.payload = task[t].payload
           /\ k.copy = Patched(task[t]) /\ k.copy \in Record
           /\ \A p \in Projects : \A j \in Jobs :
                disk'[p][j] = IF p = jobsDir /\ j = k.job THEN k.copy ELSE disk[p][j]
           /\ disk' \in [Projects -> [Jobs -> Record \cup {None}]]
<1> DEFINE a == task[t]
           r == Patched(a)
           k == [a EXCEPT !.phase = "save", !.copy = r]
<1>1. /\ Fits(t, a) /\ a \in Task /\ a.job \in Jobs /\ a.copy \in Record /\ a.phase = "write"
      /\ a.op \in Updates \cup {"store"}
  <2>1. Fits(t, a)
    BY DEF TasksFit
  <2>2. a.phase = "write"
    BY DEF Write
  <2>3. a.op \in Updates \cup {"store"}
    BY <2>1, <2>2 DEF Fits, Task
  <2>4. a.op # "idle"
    BY <2>3 DEF Updates
  <2> QED BY <2>1, <2>2, <2>3, <2>4 DEF Fits, Task
<1>2. Moves(t, k) /\ disk' = [disk EXCEPT ![jobsDir][a.job] = r]
  BY DEF Write, Becomes, Moves
<1>3. r \in Record /\ (a.op = "store" => r.status = "Queued" /\ ~r.result)
  <2> HIDE DEF a
  <2>1. now \in 0..MaxClock
    BY DEF TypeOK
  <2> QED BY <1>1, <2>1, PatchedShape
<1> HIDE DEF a, r
<1>4. /\ k \in Task /\ k.op = a.op /\ k.job = a.job /\ k.phase = "save" /\ k.copy = r
      /\ k.payload = a.payload
  BY <1>1, <1>3 DEF Task
<1> HIDE DEF k
<1>5. Fits(t, k)
  BY <1>1, <1>3, <1>4, NoneIsNoRecord DEF Fits, Reads, Checks, Updates
<1>6. Goes(a, k)
  BY <1>1, <1>4 DEF Goes, Starts, Updates
<1>7. /\ disk' \in [Projects -> [Jobs -> Record \cup {None}]]
      /\ \A p \in Projects : \A j \in Jobs :
           disk'[p][j] = IF p = jobsDir /\ j = k.job THEN k.copy ELSE disk[p][j]
  BY <1>1, <1>2, <1>3, <1>4 DEF TypeOK
<1> QED BY <1>1, <1>2, <1>3, <1>4, <1>5, <1>6, <1>7 DEF a, r

LEMMA WriteFailsShape ==
  ASSUME TypeOK, TasksFit, NEW t \in Threads, WriteFails(t)
  PROVE  \E k \in Task :
           /\ Moves(t, k) /\ Fits(t, k) /\ Goes(task[t], k)
           /\ task[t].phase = "write" /\ k.copy = None /\ k.phase = "load"
           /\ task[t].op \in Updates \cup {"store"} /\ k \in AfterUpdate(task[t], FALSE)
<1> DEFINE a == task[t]
           no == FALSE
<1>1. /\ Fits(t, a) /\ a \in Task /\ a.phase = "write" /\ a.op \in Updates \cup {"store"}
  <2>1. Fits(t, a)
    BY DEF TasksFit
  <2>2. a.phase = "write"
    BY DEF WriteFails
  <2> QED BY <2>1, <2>2 DEF Fits, Task
<1>2. PICK k \in AfterUpdate(a, no) : Moves(t, k)
  BY DEF WriteFails, Becomes, Moves
<1>3. no \in BOOLEAN
  OBVIOUS
<1> HIDE DEF a, no
<1>4. /\ Fits(t, k) /\ k.phase = "load" /\ k.copy = None
      /\ t \in Clients => k = Idle
      /\ t \notin Clients => k.job = a.job
  BY <1>1, <1>2, <1>3, AfterUpdateShape
<1>5. Goes(a, k)
  BY <1>1, <1>4, IdleShape DEF Fits, Goes, Starts, Updates, ClientOps
<1> QED BY <1>1, <1>2, <1>4, <1>5 DEF Fits, a, no

LEMMA SaveShape ==
  ASSUME TypeOK, TasksFit, NEW t \in Threads, Save(t)
  PROVE  \E k \in Task :
           /\ Moves(t, k) /\ Fits(t, k) /\ Goes(task[t], k)
           /\ task[t].phase = "save" /\ task[t].op \in Updates
           /\ task[t].job \in Jobs /\ task[t].copy \in Record
           /\ k.copy = None /\ k.phase = "load"
           /\ k \in AfterUpdate(task[t], TRUE)
           /\ order' \in Seq(Jobs)
<1> DEFINE a == task[t]
           yes == TRUE
<1>1. /\ Fits(t, a) /\ a \in Task /\ a.job \in Jobs /\ a.copy \in Record /\ a.phase = "save"
      /\ a.op \in Updates
  <2>1. Fits(t, a)
    BY DEF TasksFit
  <2>2. a.phase = "save" /\ a.op # "store"
    BY DEF Save
  <2>3. a.op \in Updates
    BY <2>1, <2>2 DEF Fits, Task
  <2>4. a.op # "idle"
    BY <2>3 DEF Updates
  <2> QED BY <2>1, <2>2, <2>3, <2>4 DEF Fits, Task
<1>2. PICK k \in AfterUpdate(a, yes) : Moves(t, k)
  BY DEF Save, Becomes, Moves
<1>3. yes \in BOOLEAN
  OBVIOUS
<1> HIDE DEF a, yes
<1>4. /\ Fits(t, k) /\ k.phase = "load" /\ k.copy = None
      /\ t \in Clients => k = Idle
      /\ t \notin Clients => k.job = a.job
      /\ a.op = "complete" /\ yes => k.op = "finish"
  <2>1. a.op \in Updates \cup {"store"}
    BY <1>1
  <2> QED BY <1>1, <1>2, <1>3, <2>1, AfterUpdateShape
<1>5. Goes(a, k)
  BY <1>1, <1>4, IdleShape DEF Fits, Goes, Starts, Updates, ClientOps, yes
<1>6. order' \in Seq(Jobs)
  <2>1. order \in Seq(Jobs) /\ order' \in {order, Append(order, a.job)}
    BY DEF TypeOK, Save, a
  <2> QED BY <1>1, <2>1, AppendProperties
<1> QED BY <1>1, <1>2, <1>4, <1>5, <1>6 DEF Fits, a, yes

LEMMA IndexShape ==
  ASSUME TypeOK, TasksFit, NEW t \in Threads, Index(t)
  PROVE  \E k \in Task :
           /\ Moves(t, k) /\ Fits(t, k) /\ Goes(task[t], k)
           /\ task[t].op = "store" /\ task[t].phase = "save"
           /\ task[t].job \in Jobs /\ task[t].copy \in Record
           /\ k.op = "store" /\ k.phase = "enqueue" /\ k.job = task[t].job /\ k.copy = None
           /\ k.payload = task[t].payload
           /\ disk' \in [Projects -> [Jobs -> Record \cup {None}]]
           /\ mem' \in [Jobs -> Record \cup {None}] /\ order' \in Seq(Jobs)
           /\ \A p \in Projects : \A j \in Jobs : disk'[p][j] \in {None, disk[p][j]}
           /\ \A j \in Jobs :
                mem'[j] \in {None, mem[j]} \/ (j = task[t].job /\ mem'[j] = task[t].copy)
<1> DEFINE a == task[t]
           k == [a EXCEPT !.phase = "enqueue", !.copy = None]
           s == Append(order, a.job)
           m == [mem EXCEPT ![a.job] = a.copy]
<1>1. /\ Fits(t, a) /\ a \in Task /\ a.phase = "save" /\ a.op = "store"
      /\ a.job \in Jobs /\ a.copy \in Record
  <2>1. Fits(t, a)
    BY DEF TasksFit
  <2>2. a.phase = "save" /\ a.op = "store"
    BY DEF Index
  <2> QED BY <2>1, <2>2 DEF Fits, Task
<1>2. Moves(t, k) /\ Prune(s, m)
  BY DEF Index, Becomes, Moves
<1>3. /\ s \in Seq(Jobs) /\ m \in [Jobs -> Record \cup {None}]
      /\ \A j \in Jobs : m[j] = IF j = a.job THEN a.copy ELSE mem[j]
  <2>1. order \in Seq(Jobs) /\ mem \in [Jobs -> Record \cup {None}]
    BY DEF TypeOK
  <2> HIDE DEF a
  <2> QED BY <1>1, <2>1, AppendProperties
<1> HIDE DEF a, s, m
<1>4. /\ k \in Task /\ k.op = "store" /\ k.job = a.job /\ k.phase = "enqueue" /\ k.copy = None
      /\ k.payload = a.payload
  BY <1>1 DEF Task
<1> HIDE DEF k
<1>5. Fits(t, k)
  BY <1>1, <1>4 DEF Fits, Reads, Checks, Updates
<1>6. Goes(a, k)
  BY <1>1, <1>4 DEF Goes, Starts
<1>7. /\ disk' \in [Projects -> [Jobs -> Record \cup {None}]]
      /\ mem' \in [Jobs -> Record \cup {None}] /\ order' \in Seq(Jobs)
      /\ \A p \in Projects : \A j \in Jobs : disk'[p][j] \in {None, disk[p][j]}
      /\ \A j \in Jobs : mem'[j] \in {None, m[j]}
  BY <1>2, <1>3, PruneShape
<1> QED BY <1>1, <1>2, <1>3, <1>4, <1>5, <1>6, <1>7 DEF a

LEMMA WorkShape ==
  ASSUME TypeOK, TasksFit, NEW t \in Workers, Work(t)
  PROVE  \E k \in Task :
           /\ Moves(t, k) /\ Fits(t, k) /\ Goes(task[t], k)
           /\ task[t].op = "work" /\ k.phase = "load" /\ k.copy = None /\ k.job = task[t].job
           /\ \/ k.op = "verdict" /\ k.payload = "full"
              \/ k.op \in {"retry", "giveUp", "advance"} /\ k.payload \in {"none", task[t].payload}
<1> DEFINE a == task[t]
<1>1. Fits(t, a) /\ a \in Task /\ a.op = "work" /\ t \in Threads /\ t \notin Clients
  BY Bounds DEF TasksFit, Fits, Threads, Work
<1>2. PICK k \in {Onward(a, "verdict", "full"), Failed(a), Panicked(a)} \cup
             (IF a.left > 0 THEN {Then([a EXCEPT !.left = @ - 1], "advance")} ELSE {}) :
        Moves(t, k)
  BY DEF Work, Becomes, Moves
<1> HIDE DEF a
<1>3. /\ k \in Task /\ k.phase = "load" /\ k.copy = None /\ k.job = a.job
      /\ \/ k.op = "verdict" /\ k.payload = "full"
         \/ k.op \in {"retry", "giveUp", "advance"} /\ k.payload \in {"none", a.payload}
  <2>1. CASE k = Onward(a, "verdict", "full")
    BY <1>1, <2>1, OnwardShape DEF Ops, Reads, Checks, Payloads
  <2>2. CASE k = Then(a, "retry")
    BY <1>1, <2>2, ThenShape DEF Ops, Reads, Checks
  <2>3. CASE k = Onward(a, "giveUp", "none")
    BY <1>1, <2>3, OnwardShape DEF Ops, Updates, Payloads
  <2>4. CASE a.left > 0 /\ k = Then([a EXCEPT !.left = @ - 1], "advance")
    <3> DEFINE m == [a EXCEPT !.left = a.left - 1]
    <3>1. m \in Task /\ m.job = a.job /\ m.payload = a.payload
      BY <1>1, <2>4, LeftShape
    <3>2. k = Then(m, "advance")
      BY <2>4
    <3> HIDE DEF m
    <3> QED BY <3>1, <3>2, ThenShape DEF Ops, Reads
  <2> QED BY <1>2, <2>1, <2>2, <2>3, <2>4 DEF Failed, Panicked
<1>4. Fits(t, k)
  BY <1>1, <1>3 DEF Fits, Reads, Checks, Updates, ClientOps
<1>5. Goes(a, k)
  BY <1>1, <1>3 DEF Goes, Starts
<1> QED BY <1>1, <1>2, <1>3, <1>4, <1>5 DEF a

(* A full queue refuses the job. *)
LEMMA RefusedShape ==
  ASSUME TypeOK, TasksFit, NEW t \in Clients, task[t].phase = "enqueue",
         Becomes(t, {Refused(task[t])})
  PROVE  \E k \in Task :
           /\ Moves(t, k) /\ Fits(t, k) /\ Goes(task[t], k)
           /\ k.op = "refuse" /\ k.phase = "load" /\ k.copy = None /\ k.job = task[t].job
           /\ task[t].op = "store"
<1> DEFINE a == task[t]
           k == Then(a, "refuse")
<1>1. Fits(t, a) /\ a \in Task /\ a.op = "store"
  <2>1. Fits(t, a)
    BY DEF TasksFit, Threads
  <2> QED BY <2>1 DEF Fits, Task, Updates, Reads
<1>2. Moves(t, k)
  BY DEF Becomes, Moves, Refused
<1>3. /\ k \in Task /\ k.op = "refuse" /\ k.phase = "load" /\ k.copy = None /\ k.job = a.job
  <2> HIDE DEF a
  <2> QED BY <1>1, ThenShape DEF Ops, Updates
<1> HIDE DEF k
<1>4. Fits(t, k)
  BY <1>1, <1>3 DEF Fits, Reads, Checks, Updates, ClientOps
<1>5. Goes(a, k)
  BY <1>1, <1>3 DEF Goes, Starts
<1> QED BY <1>1, <1>2, <1>3, <1>4, <1>5

(***************************************************************************)
(* Every step keeps the types and the tasks in shape.                      *)
(***************************************************************************)
LEMMA MoveType ==
  ASSUME Inv, NEW t \in Threads, NEW k, Fits(t, k), Moves(t, k),
         disk' \in [Projects -> [Jobs -> Record \cup {None}]],
         mem' \in [Jobs -> Record \cup {None}], order' \in Seq(Jobs),
         inherited' \cup dropped' \cup confirmed' \subseteq created', created' \subseteq Jobs,
         UNCHANGED <<jobsDir, bounds>>
  PROVE  TypeOK' /\ TasksFit'
<1>1. TypeOK /\ TasksFit
  BY DEF Inv
<1>2. task' \in [Threads -> Task] /\ TasksFit'
  BY <1>1, MoveShape
<1> QED BY <1>1, <1>2 DEF TypeOK, bounds

(* Restarting keeps what is on disk of records. *)
LEMMA RestartShape ==
  ASSUME Inv, Restart
  PROVE  /\ disk' \in [Projects -> [Jobs -> Record \cup {None}]]
         /\ mem' \in [Jobs -> Record \cup {None}]
         /\ order' \in Seq(Jobs)
         /\ \A p \in Projects \ {Home} : disk'[p] = disk[p]
         /\ \A j \in Jobs :
              \/ disk'[Home][j] \in {None, disk[Home][j]} /\ mem'[j] = None
              \/ /\ disk[Home][j] # None /\ disk[Home][j].status \in Active
                 /\ disk'[Home][j] # None => disk'[Home][j] = mem'[j]
                 /\ mem'[j] \in Record /\ mem'[j] # None /\ mem'[j].status = "Error"
                 /\ mem'[j].result = disk[Home][j].result
         /\ ~DiskMayFail => \A j \in Jobs : Interrupted(disk[Home][j], j) => Settled(disk'[Home][j])
<1> DEFINE failed(j) == [disk[Home][j] EXCEPT !.status = "Error", !.at = now]
<1>1. PICK repaired \in SUBSET {j \in Jobs : Interrupted(disk[Home][j], j)} :
        /\ DiskMayFail \/ repaired = {j \in Jobs : Interrupted(disk[Home][j], j)}
        /\ disk' = [disk EXCEPT ![Home] =
                      Fresh([j \in Jobs |-> IF j \in repaired THEN failed(j) ELSE @[j]])]
        /\ mem' = [j \in Jobs |-> IF j \in repaired THEN failed(j) ELSE None]
        /\ order' \in {s \in [1..Cardinality(repaired) -> repaired] : IsInjective(s)}
  BY DEF Restart
<1>2. /\ disk \in [Projects -> [Jobs -> Record \cup {None}]] /\ now \in 0..MaxClock
      /\ created \subseteq Jobs /\ IsFiniteSet(created) /\ Home \in Projects
  BY Bounds DEF Inv, TypeOK, Placed
<1>3. ASSUME NEW j \in repaired
      PROVE  /\ j \in created /\ disk[Home][j] # None /\ disk[Home][j].status \in Active
             /\ failed(j) \in Record /\ failed(j) # None /\ failed(j).status = "Error"
             /\ failed(j).result = disk[Home][j].result
  <2>1. j \in Jobs /\ disk[Home][j] # None /\ disk[Home][j].status \in Active
    BY <1>1 DEF Interrupted
  <2>2. disk[Home][j] \in RecordsOf(j)
    BY <1>2, <2>1 DEF RecordsOf
  <2>3. j \in created
    BY <2>1, <2>2 DEF Inv, Known
  <2>4. disk[Home][j] \in Record
    BY <1>2, <2>1
  <2> DEFINE r == disk[Home][j]
  <2>5. [r EXCEPT !.status = "Error", !.at = now] \in Record
        /\ [r EXCEPT !.status = "Error", !.at = now].status = "Error"
        /\ [r EXCEPT !.status = "Error", !.at = now].result = r.result
    <3> HIDE DEF r
    <3> QED BY <1>2, <2>4 DEF Record, Active, Terminal, r
  <2> QED BY <2>1, <2>3, <2>5, NoneIsNoRecord
<1> HIDE DEF failed
<1> DEFINE files == [j \in Jobs |-> IF j \in repaired THEN failed(j) ELSE disk[Home][j]]
<1>4. files \in [Jobs -> Record \cup {None}]
  BY <1>2, <1>3
<1>5. disk' = [disk EXCEPT ![Home] = Fresh(files)]
  BY <1>1, <1>2
<1>6. /\ Fresh(files) \in [Jobs -> Record \cup {None}]
      /\ \A j \in Jobs : Fresh(files)[j] \in {None, files[j]}
  <2> HIDE DEF files
  <2> QED BY <1>4 DEF Fresh
<1>7. /\ mem' \in [Jobs -> Record \cup {None}]
      /\ \A j \in Jobs : mem'[j] = IF j \in repaired THEN failed(j) ELSE None
  BY <1>1, <1>3
<1>8. order' \in Seq(Jobs)
  <2>1. IsFiniteSet(repaired)
    BY <1>2, <1>3, FS_Subset
  <2>2. Cardinality(repaired) \in Nat
    BY <2>1, FS_CardinalityType
  <2>3. order' \in [1..Cardinality(repaired) -> Jobs]
    BY <1>1
  <2> QED BY <2>2, <2>3, IsASeq
<1>9. \A j \in Jobs : files[j] = IF j \in repaired THEN failed(j) ELSE disk[Home][j]
  OBVIOUS
<1> HIDE DEF files
<1>10. /\ disk' \in [Projects -> [Jobs -> Record \cup {None}]]
       /\ \A p \in Projects \ {Home} : disk'[p] = disk[p]
       /\ disk'[Home] = Fresh(files)
  BY <1>2, <1>5, <1>6
<1>11. ASSUME NEW j \in Jobs
       PROVE  \/ disk'[Home][j] \in {None, disk[Home][j]} /\ mem'[j] = None
              \/ /\ disk[Home][j] # None /\ disk[Home][j].status \in Active
                 /\ disk'[Home][j] # None => disk'[Home][j] = mem'[j]
                 /\ mem'[j] \in Record /\ mem'[j] # None /\ mem'[j].status = "Error"
                 /\ mem'[j].result = disk[Home][j].result
  BY <1>3, <1>6, <1>7, <1>9, <1>10
<1>12. ASSUME ~DiskMayFail, NEW j \in Jobs, Interrupted(disk[Home][j], j)
       PROVE  Settled(disk'[Home][j])
  <2>1. j \in repaired
    BY <1>1, <1>12
  <2>2. disk'[Home][j] \in {None, failed(j)}
    BY <1>6, <1>9, <1>10, <2>1
  <2> QED BY <1>3, <2>1, <2>2 DEF Settled, Terminal
<1> QED BY <1>7, <1>8, <1>10, <1>11, <1>12

(* A call of the store keeps them ... *)
LEMMA CallTypes ==
  ASSUME Inv, NEW t \in Threads, StoreCall(t) \/ Index(t)
  PROVE  TypeOK' /\ TasksFit'
<1>0. /\ TypeOK /\ TasksFit
      /\ disk \in [Projects -> [Jobs -> Record \cup {None}]]
      /\ mem \in [Jobs -> Record \cup {None}] /\ order \in Seq(Jobs)
      /\ inherited \cup dropped \cup confirmed \subseteq created /\ created \subseteq Jobs
      /\ task[t].job \in created \cup {NoJob} /\ NoJob \notin Jobs
  BY Bounds DEF Inv, TypeOK, Placed
<1>1. CASE Load(t)
  <2>1. PICK k \in Task : Moves(t, k) /\ Fits(t, k)
    BY <1>0, <1>1, LoadShape
  <2>2. /\ disk' \in [Projects -> [Jobs -> Record \cup {None}]]
        /\ mem' \in [Jobs -> Record \cup {None}] /\ order' \in Seq(Jobs)
    BY <1>0, <1>1, PruneShape DEF Load
  <2> QED BY <1>0, <1>1, <2>1, <2>2, MoveType DEF Load, history
<1>2. CASE Memo(t)
  <2>1. PICK k \in Task :
          Moves(t, k) /\ Fits(t, k) /\ task[t].job \in Jobs /\ task[t].copy \in Record
    BY <1>0, <1>2, MemoShape
  <2>2. mem' \in [Jobs -> Record \cup {None}]
    BY <1>0, <1>2, <2>1 DEF Memo
  <2> QED BY <1>0, <1>2, <2>1, <2>2, MoveType DEF Memo, history
<1>3. CASE Write(t)
  <2>1. PICK k \in Task :
          /\ Moves(t, k) /\ Fits(t, k) /\ task[t].job \in Jobs
          /\ disk' \in [Projects -> [Jobs -> Record \cup {None}]]
    BY <1>0, <1>3, WriteShape
  <2>2. dropped' \subseteq created
    BY <1>0, <1>3, <2>1 DEF Write
  <2> QED BY <1>0, <1>3, <2>1, <2>2, MoveType DEF Write
<1>4. CASE WriteFails(t)
  <2>1. PICK k \in Task : Moves(t, k) /\ Fits(t, k)
    BY <1>0, <1>4, WriteFailsShape
  <2> QED BY <1>0, <1>4, <2>1, MoveType DEF WriteFails, storeVars, history
<1>5. CASE Save(t)
  <2>1. PICK k \in Task :
          /\ Moves(t, k) /\ Fits(t, k) /\ task[t].job \in Jobs /\ task[t].copy \in Record
          /\ order' \in Seq(Jobs)
    BY <1>0, <1>5, SaveShape
  <2>2. mem' \in [Jobs -> Record \cup {None}] /\ confirmed' \subseteq created
    BY <1>0, <1>5, <2>1 DEF Save
  <2> QED BY <1>0, <1>5, <2>1, <2>2, MoveType DEF Save
<1>6. CASE Index(t)
  <2>1. PICK k \in Task :
          /\ Moves(t, k) /\ Fits(t, k)
          /\ disk' \in [Projects -> [Jobs -> Record \cup {None}]]
          /\ mem' \in [Jobs -> Record \cup {None}] /\ order' \in Seq(Jobs)
    BY <1>0, <1>6, IndexShape
  <2> QED BY <1>0, <1>6, <2>1, MoveType DEF Index, history
<1> QED BY <1>1, <1>2, <1>3, <1>4, <1>5, <1>6 DEF StoreCall

(* ... and so does every other step. *)
LEMMA StartShape ==
  ASSUME TypeOK, NEW c \in Clients, NEW j \in Jobs, StartJob(c, j)
  PROVE  \E k \in Task :
           /\ Moves(c, k) /\ Fits(c, k) /\ task[c].op = "idle" /\ j \notin created
           /\ k.op = "store" /\ k.phase = "write" /\ k.job = j /\ k.payload = "none"
           /\ k.copy \in Record /\ k.copy.status = "Queued" /\ ~k.copy.result
<1> DEFINE r == [status |-> "Queued", at |-> now, born |-> now, result |-> FALSE]
           k == [Idle EXCEPT !.op = "store", !.phase = "write", !.job = j, !.copy = r]
<1>1. r \in Record /\ r.status = "Queued" /\ ~r.result /\ r # None
  <2>1. now \in 0..MaxClock
    BY DEF TypeOK
  <2>2. r \in Record
    BY <2>1 DEF Record, Active, Terminal
  <2>3. r.status = "Queued" /\ ~r.result
    OBVIOUS
  <2> QED BY <2>2, <2>3, NoneIsNoRecord
<1> HIDE DEF r
<1>2. /\ k \in Task /\ k.op = "store" /\ k.phase = "write" /\ k.job = j /\ k.copy = r
      /\ k.payload = "none"
  BY <1>1, IdleShape DEF Task
<1>3. Moves(c, k) /\ task[c].op = "idle" /\ j \notin created
  BY DEF StartJob, Becomes, Moves, r
<1> HIDE DEF k
<1>4. Fits(c, k)
  BY <1>1, <1>2, Bounds DEF Fits, ClientOps, Reads, Checks, Updates
<1> QED BY <1>1, <1>2, <1>3, <1>4

LEMMA AskShape ==
  ASSUME TypeOK, NEW c \in Clients, NEW j \in Jobs, NEW op \in {"status", "cancel"}, Ask(c, j, op)
  PROVE  \E k \in Task :
           /\ Moves(c, k) /\ Fits(c, k) /\ task[c].op = "idle" /\ j \in created
           /\ k.op = op /\ k.phase = "load" /\ k.job = j /\ k.payload = "none" /\ k.copy = None
<1> DEFINE k == [Idle EXCEPT !.op = op, !.job = j]
<1>1. /\ k \in Task /\ k.op = op /\ k.phase = "load" /\ k.job = j /\ k.copy = None
      /\ k.payload = "none"
  BY IdleShape DEF Task, Reads, Updates
<1>2. Moves(c, k) /\ task[c].op = "idle" /\ j \in created
  BY DEF Ask, Becomes, Moves
<1> HIDE DEF k
<1>3. Fits(c, k)
  BY <1>1, Bounds DEF Fits, ClientOps, Reads, Checks, Updates
<1> QED BY <1>1, <1>2, <1>3

(* What a worker takes is the one job the queue loses. *)
LEMMA TakenShape ==
  ASSUME Inv, NEW w \in Workers, TakeJob(w)
  PROVE  \E k \in Task : \E j \in Range(pending) :
           /\ Moves(w, k) /\ Fits(w, k) /\ holding[w] = NoJob
           /\ k.op = "dequeue" /\ k.phase = "load" /\ k.job = j /\ k.payload = "none"
           /\ k.copy = None
           /\ j \in Jobs /\ holding' = [holding EXCEPT ![w] = j]
           /\ pending' \in Seq(Jobs) /\ IsInjective(pending')
           /\ Range(pending') = Range(pending) \ {j}
<1>0. /\ pending \in Seq(Jobs) /\ IsInjective(pending)
      /\ holding \in [Workers -> Jobs \cup {NoJob}]
  BY DEF Inv, Placed
<1>1. PICK i \in DOMAIN pending :
        pending' = RemoveAt(pending, i) /\ holding' = [holding EXCEPT ![w] = pending[i]]
  BY DEF TakeJob, Queue!Take, Queue!Startable, Queue!Dequeue, Queue!RemoveAt, RemoveAt
<1> DEFINE j == pending[i]
           k == [Idle EXCEPT !.op = "dequeue", !.job = j]
<1>2. i \in 1..Len(pending) /\ j \in Jobs /\ j \in Range(pending) /\ DOMAIN pending = 1..Len(pending)
  BY <1>0, <1>1, LenProperties, ElementOfSeq DEF Range
<1>3. /\ pending' \in Seq(Jobs)
      /\ Len(pending') = Len(pending) - 1
      /\ \A n \in 1..Len(pending) - 1 :
           pending'[n] = IF n < i THEN pending[n] ELSE pending[n + 1]
      /\ Range(pending) = Range(pending') \cup {j}
  <2> DEFINE q == RemoveAt(pending, i)
  <2>1. /\ q \in Seq(Jobs)
        /\ Len(q) = Len(pending) - 1
        /\ \A n \in 1..Len(pending) - 1 : q[n] = IF n < i THEN pending[n] ELSE pending[n + 1]
        /\ Range(pending) = Range(q) \cup {pending[i]}
    <3>1. pending \in Seq(Jobs) /\ i \in 1..Len(pending)
      BY <1>0, <1>2
    <3> QED BY <3>1, RemoveAtProperties
  <2> HIDE DEF q
  <2>2. pending' = q
    BY <1>1 DEF q
  <2> QED BY <2>1, <2>2
<1>4. Len(pending) \in Nat /\ DOMAIN pending' = 1..Len(pending) - 1
  BY <1>0, <1>3, LenProperties
<1>5. \A m, n \in 1..Len(pending) : pending[m] = pending[n] => m = n
  BY <1>0, <1>2 DEF IsInjective
<1>6. IsInjective(pending')
  <2> SUFFICES ASSUME NEW m \in 1..Len(pending) - 1, NEW n \in 1..Len(pending) - 1,
                      pending'[m] = pending'[n]
               PROVE  m = n
    BY <1>4 DEF IsInjective
  <2>1. /\ m \in 1..Len(pending) /\ m + 1 \in 1..Len(pending)
        /\ n \in 1..Len(pending) /\ n + 1 \in 1..Len(pending)
    BY <1>4
  <2>2. (IF m < i THEN m ELSE m + 1) = (IF n < i THEN n ELSE n + 1)
    BY <1>3, <1>5, <2>1
  <2> QED BY <1>2, <2>1, <2>2
<1>7. j \notin Range(pending')
  <2> SUFFICES ASSUME NEW n \in 1..Len(pending) - 1, pending'[n] = j PROVE FALSE
    BY <1>4 DEF Range
  <2>1. n \in 1..Len(pending) /\ n + 1 \in 1..Len(pending)
    BY <1>4
  <2>2. (IF n < i THEN n ELSE n + 1) = i
    BY <1>2, <1>3, <1>5, <2>1
  <2> QED BY <1>2, <2>1, <2>2
<1>8. Moves(w, k)
  <2>1. holding'[w] = j
    BY <1>0, <1>1
  <2> QED BY <2>1 DEF TakeJob, Becomes, Moves
<1>9. holding[w] = NoJob
  BY DEF TakeJob, Queue!Take, Queue!Busy
<1> HIDE DEF j
<1>10. /\ k \in Task /\ k.op = "dequeue" /\ k.phase = "load" /\ k.job = j /\ k.copy = None
       /\ k.payload = "none"
  BY <1>2, IdleShape DEF Task, Reads, Checks
<1> HIDE DEF k
<1>11. Fits(w, k)
  BY <1>2, <1>10, Bounds DEF Fits, ClientOps, Reads, Checks, Updates
<1>12. holding' = [holding EXCEPT ![w] = j] /\ Range(pending') = Range(pending) \ {j}
  BY <1>1, <1>3, <1>7 DEF j
<1> QED BY <1>2, <1>3, <1>6, <1>8, <1>9, <1>10, <1>11, <1>12

LEMMA IdleFits == \A t \in Threads : Fits(t, Idle)
BY IdleShape DEF Fits, ClientOps, Reads, Checks, Updates

LEMMA NextTypes ==
  ASSUME Inv, [Next]_vars
  PROVE  TypeOK' /\ TasksFit'
<1>0. /\ TypeOK /\ TasksFit /\ Clients \subseteq Threads /\ Workers \subseteq Threads
      /\ disk \in [Projects -> [Jobs -> Record \cup {None}]] /\ task \in [Threads -> Task]
      /\ mem \in [Jobs -> Record \cup {None}] /\ order \in Seq(Jobs) /\ jobsDir \in Projects
      /\ inherited \cup dropped \cup confirmed \subseteq created /\ created \subseteq Jobs
  BY DEF Inv, TypeOK, Threads
<1>1. ASSUME NEW t \in Threads, StoreCall(t) \/ Index(t) PROVE TypeOK' /\ TasksFit'
  BY <1>1, CallTypes
<1>2. ASSUME NEW t \in Threads, NEW k, Fits(t, k), Moves(t, k), UNCHANGED <<storeVars, history, bounds>>
      PROVE  TypeOK' /\ TasksFit'
  BY <1>0, <1>2, MoveType DEF storeVars, history
<1>3. ASSUME UNCHANGED <<storeVars, task, history, bounds>> PROVE TypeOK' /\ TasksFit'
  <2>1. \A t \in Threads : Fits(t, task'[t]) /\ (Fits(t, task[t])' <=> Fits(t, task'[t]))
    BY <1>0, <1>3 DEF TasksFit, Fits
  <2> QED BY <1>0, <1>3, <2>1 DEF TypeOK, TasksFit, storeVars, history, bounds
<1>4. ASSUME NEW c \in Clients, Submit(c) PROVE TypeOK' /\ TasksFit'
  <2>1. CASE Becomes(c, {Idle})
    <3>1. Moves(c, Idle)
      BY <2>1 DEF Becomes, Moves
    <3> QED BY <1>0, <1>2, <1>4, <3>1, IdleFits DEF Submit
  <2>2. CASE Becomes(c, {Refused(task[c])})
    <3>1. PICK k \in Task : Moves(c, k) /\ Fits(c, k)
      BY <1>0, <1>4, <2>2, RefusedShape DEF Submit
    <3> QED BY <1>0, <1>2, <1>4, <3>1 DEF Submit
  <2> QED BY <1>4, <2>1, <2>2 DEF Submit
<1>5. ASSUME NEW c \in Clients, NEW j \in Jobs, StartJob(c, j) PROVE TypeOK' /\ TasksFit'
  <2>1. PICK k \in Task : Moves(c, k) /\ Fits(c, k)
    BY <1>0, <1>5, StartShape
  <2>2. created' = created \cup {j} /\ UNCHANGED <<storeVars, inherited, dropped, confirmed, bounds>>
    BY <1>5 DEF StartJob
  <2> QED BY <1>0, <2>1, <2>2, MoveType DEF storeVars
<1>6. ASSUME NEW c \in Clients, NEW j \in Jobs, NEW op \in {"status", "cancel"}, Ask(c, j, op)
      PROVE  TypeOK' /\ TasksFit'
  <2>1. PICK k \in Task : Moves(c, k) /\ Fits(c, k)
    BY <1>0, <1>6, AskShape
  <2> QED BY <1>0, <1>2, <1>6, <2>1 DEF Ask
<1>7. ASSUME NEW w \in Workers, TakeJob(w) PROVE TypeOK' /\ TasksFit'
  <2>1. PICK k \in Task : Moves(w, k) /\ Fits(w, k)
    BY <1>7, TakenShape
  <2> QED BY <1>0, <1>2, <1>7, <2>1 DEF TakeJob
<1>8. ASSUME NEW w \in Workers, Work(w) PROVE TypeOK' /\ TasksFit'
  <2>1. PICK k \in Task : Moves(w, k) /\ Fits(w, k)
    BY <1>0, <1>8, WorkShape
  <2> QED BY <1>0, <1>2, <1>8, <2>1 DEF Work
<1>9. ASSUME NEW w \in Workers, FinishJob(w) PROVE TypeOK' /\ TasksFit'
  <2>1. Moves(w, Idle)
    BY <1>9 DEF FinishJob, Becomes, Moves
  <2> QED BY <1>0, <1>2, <1>9, <2>1, IdleFits DEF FinishJob
<1>10. ASSUME NEW w \in Workers, SleepOnQueue(w) \/ WakeUp(w) PROVE TypeOK' /\ TasksFit'
  BY <1>3, <1>10 DEF SleepOnQueue, WakeUp
<1>11. ASSUME Tick PROVE TypeOK' /\ TasksFit'
  <2>1. now' \in 0..MaxClock
    BY <1>0, <1>11, Bounds DEF Tick, TypeOK
  <2>2. \A t \in Threads : Fits(t, task'[t]) /\ (Fits(t, task[t])' <=> Fits(t, task'[t]))
    BY <1>0, <1>11 DEF TasksFit, Fits, Tick
  <2> QED BY <1>0, <1>11, <2>1, <2>2 DEF Tick, TypeOK, TasksFit, storeVars, history
<1>12. ASSUME NEW p \in Projects, SwitchProject(p) PROVE TypeOK' /\ TasksFit'
  <2>1. switches' \in 0..MaxSwitches
    BY <1>0, <1>12, Bounds DEF SwitchProject, TypeOK
  <2>2. disk' \in [Projects -> [Jobs -> Record \cup {None}]]
    BY <1>0, <1>12 DEF SwitchProject, Fresh
  <2>3. mem' \in [Jobs -> Record \cup {None}] /\ order' \in Seq(Jobs) /\ jobsDir' \in Projects
    BY <1>12 DEF SwitchProject
  <2>4. \A t \in Threads : Fits(t, task'[t]) /\ (Fits(t, task[t])' <=> Fits(t, task'[t]))
    BY <1>0, <1>12 DEF TasksFit, Fits, SwitchProject
  <2> QED BY <1>0, <1>12, <2>1, <2>2, <2>3, <2>4 DEF SwitchProject, TypeOK, TasksFit, history
<1>13. ASSUME Restart PROVE TypeOK' /\ TasksFit'
  <2>1. restarts' \in 0..MaxRestarts /\ jobsDir' \in Projects
    <3>1. restarts < MaxRestarts /\ restarts' = restarts + 1 /\ jobsDir' = Home
      BY <1>13 DEF Restart
    <3>2. restarts \in 0..MaxRestarts
      BY <1>0 DEF TypeOK
    <3> QED BY <3>1, <3>2, Bounds
  <2>2. task' \in [Threads -> Task] /\ \A t \in Threads : task'[t] = Idle
    BY <1>13, IdleShape DEF Restart
  <2>3. \A t \in Threads : Fits(t, task[t])' <=> Fits(t, task'[t])
    BY DEF Fits
  <2>4. TasksFit'
    BY <2>2, <2>3, IdleFits DEF TasksFit
  <2>5. inherited' \subseteq created
    <3> SUFFICES ASSUME NEW j \in Jobs, disk[Home][j] # None PROVE j \in created
      BY <1>13 DEF Restart
    <3>1. disk[Home][j] \in RecordsOf(j)
      BY Bounds DEF RecordsOf
    <3> QED BY <3>1 DEF Inv, Known
  <2>6. UNCHANGED <<created, dropped, confirmed, now, switches>>
    BY <1>13 DEF Restart
  <2>7. /\ disk' \in [Projects -> [Jobs -> Record \cup {None}]]
        /\ mem' \in [Jobs -> Record \cup {None}] /\ order' \in Seq(Jobs)
    BY <1>13, RestartShape
  <2> QED BY <1>0, <2>1, <2>2, <2>4, <2>5, <2>6, <2>7 DEF TypeOK
<1>14. CASE UNCHANGED vars
  BY <1>3, <1>14 DEF vars
<1> QED BY <1>0, <1>1, <1>4, <1>5, <1>6, <1>7, <1>8, <1>9, <1>10, <1>11, <1>12, <1>13, <1>14
        DEF Next, ClientStep, WorkerStep

(***************************************************************************)
(* Every step keeps each job in one place, and leaves alone a job that is  *)
(* over.                                                                   *)
(***************************************************************************)
LEMMA Parts ==
  ASSUME Inv
  PROVE  /\ TypeOK /\ TasksFit /\ Placed /\ task \in [Threads -> Task]
         /\ Clients \subseteq Threads /\ Workers \subseteq Threads
         /\ \A w \in Workers : w \notin Clients
         /\ NoJob \notin Jobs /\ created \subseteq Jobs
         /\ \A t \in Threads : /\ Fits(t, task[t])
                               /\ task[t].op = "idle" <=> task[t].job = NoJob
BY Bounds DEF Inv, TypeOK, TasksFit, Fits, Threads

LEMMA MovePlaced ==
  ASSUME Inv, NEW t \in Threads, NEW k, Fits(t, k), Moves(t, k), Goes(task[t], k),
         UNCHANGED <<queueVars, created>>
  PROVE  Placed' /\ \A j \in Jobs : Over(j) => Over(j)'
<1>1. \A u \in Threads : task'[u] = IF u = t THEN k ELSE task[u]
  BY Parts, MoveShape
<1>2. /\ k.job \in {task[t].job, NoJob} /\ (k.job = NoJob <=> k.op = "idle")
      /\ t \in Workers => k.job = task[t].job
      /\ Starts(k) => Starts(task[t]) /\ k.job = task[t].job
  <2>1. k.op = "idle" <=> k.job = NoJob
    BY DEF Fits
  <2>2. t \in Workers => task[t].op \notin ClientOps
    BY Parts DEF Fits
  <2>3. Starts(k) => k.op # "idle"
    BY DEF Starts
  <2> QED BY <2>1, <2>2, <2>3, IdleShape DEF Goes
<1>3. Placed'
  <2> USE <1>1, <1>2, Parts
  <2>1. \A w \in Workers : holding'[w] = task'[w].job
    BY DEF Placed, queueVars
  <2>2. \A u \in Threads : task'[u].job \in created' \cup {NoJob}
    BY DEF Placed
  <2>3. ASSUME NEW c \in Clients, Starts(task'[c])
        PROVE  /\ Starts(task[c]) /\ task'[c].job = task[c].job
    BY <2>3
  <2>4. ASSUME NEW c \in Clients, Starts(task'[c])
        PROVE  /\ task'[c].job \notin Range(pending')
               /\ \A w \in Workers : holding'[w] # task'[c].job
               /\ \A d \in Clients : Starts(task'[d]) /\ task'[d].job = task'[c].job => d = c
    BY <2>3, <2>4 DEF Placed, queueVars
  <2>5. \A c \in Clients : Starts(task[c])' <=> Starts(task'[c])
    BY DEF Starts
  <2> QED BY <2>1, <2>2, <2>4, <2>5 DEF Placed, queueVars
<1>4. ASSUME NEW j \in Jobs, Over(j) PROVE Over(j)'
  <2>1. j \in created' /\ j \notin Range(pending')
    BY <1>4 DEF Over, queueVars
  <2>2. ASSUME NEW u \in Threads, task'[u].job = j
        PROVE  \/ task'[u].op \in {"status", "cancel", "finish"}
               \/ task'[u].op = "complete" /\ task'[u].phase = "save"
    <3>1. CASE u = t
      <4>1. k.job = j /\ task[t].job = j /\ k.op # "idle"
        BY <1>1, <1>2, <2>2, <3>1, Parts
      <4>2. \/ task[t].op \in {"status", "cancel", "finish"}
            \/ task[t].op = "complete" /\ task[t].phase = "save"
        BY <1>4, <4>1 DEF Over
      <4> QED BY <1>1, <3>1, <4>1, <4>2 DEF Goes
    <3>2. CASE u # t
      BY <1>1, <1>4, <2>2, <3>2 DEF Over
    <3> QED BY <3>1, <3>2
  <2> QED BY <2>1, <2>2 DEF Over
<1> QED BY <1>3, <1>4

(* A job submitted, taken or done goes from one place to the next. *)
LEMMA SubmittedPlaced ==
  ASSUME Inv, NEW c \in Clients, task[c].phase = "enqueue", Queue!Enqueue(task[c].job),
         Becomes(c, {Idle}), UNCHANGED created
  PROVE  Placed' /\ \A j \in Jobs : Over(j) => Over(j)'
<1> DEFINE j == task[c].job
<1>1. /\ c \in Threads /\ task[c].op = "store" /\ j \in created /\ j \in Jobs
      /\ task[c].op = "idle" <=> j = NoJob
  <2>1. /\ c \in Threads /\ Fits(c, task[c]) /\ task[c] \in Task
        /\ task[c].op = "idle" <=> j = NoJob
    BY Parts
  <2>2. task[c].op = "store"
    BY <2>1 DEF Fits, Task, Reads, Updates
  <2> QED BY <2>1, <2>2, Parts DEF Placed
<1>2. /\ pending \in Seq(Jobs) /\ IsInjective(pending) /\ Range(pending) \subseteq created
      /\ j \notin Range(pending)
      /\ \A w \in Workers : holding[w] # j
      /\ \A d \in Clients : Starts(task[d]) /\ task[d].job = j => d = c
  BY <1>1, Parts DEF Placed, Starts
<1>3. PICK i \in 1..Len(pending) + 1 : pending' = InsertAt(pending, i, j)
  BY DEF Queue!Enqueue, Queue!InsertionPoint, Queue!InsertAt, InsertAt
<1>4. UNCHANGED holding
  BY DEF Queue!Enqueue
<1>5. \A u \in Threads : task'[u] = IF u = c THEN Idle ELSE task[u]
  BY <1>1, Parts DEF Becomes
<1> HIDE DEF j
<1>6. /\ pending' \in Seq(Jobs)
      /\ Len(pending') = Len(pending) + 1
      /\ \A n \in 1..Len(pending) + 1 :
           pending'[n] = IF n < i THEN pending[n] ELSE IF n = i THEN j ELSE pending[n - 1]
      /\ Range(pending') = Range(pending) \cup {j}
  <2> DEFINE q == InsertAt(pending, i, j)
  <2>1. /\ q \in Seq(Jobs)
        /\ Len(q) = Len(pending) + 1
        /\ \A n \in 1..Len(pending) + 1 :
             q[n] = IF n < i THEN pending[n] ELSE IF n = i THEN j ELSE pending[n - 1]
        /\ Range(q) = Range(pending) \cup {j}
    <3>1. pending \in Seq(Jobs) /\ j \in Jobs
      BY <1>1, <1>2
    <3> QED BY <3>1, InsertAtProperties
  <2> HIDE DEF q
  <2>2. pending' = q
    BY <1>3 DEF q
  <2> QED BY <2>1, <2>2
<1>7. IsInjective(pending')
  <2>1. Len(pending) \in Nat /\ DOMAIN pending = 1..Len(pending)
        /\ DOMAIN pending' = 1..Len(pending) + 1
    BY <1>2, <1>6, LenProperties
  <2>2. /\ \A m, n \in 1..Len(pending) : pending[m] = pending[n] => m = n
        /\ \A n \in 1..Len(pending) : pending[n] # j
    BY <1>2, <2>1 DEF IsInjective, Range
  <2> SUFFICES ASSUME NEW m \in 1..Len(pending) + 1, NEW n \in 1..Len(pending) + 1,
                      pending'[m] = pending'[n]
               PROVE  m = n
    BY <2>1 DEF IsInjective
  <2>3. /\ m < i => m \in 1..Len(pending)
        /\ m > i => m - 1 \in 1..Len(pending)
        /\ n < i => n \in 1..Len(pending)
        /\ n > i => n - 1 \in 1..Len(pending)
    BY <2>1
  <2>4. m = i <=> n = i
    BY <1>6, <2>1, <2>2, <2>3
  <2>5. CASE m # i
    <3>1. (IF m < i THEN m ELSE m - 1) = (IF n < i THEN n ELSE n - 1)
      BY <1>6, <2>1, <2>2, <2>3, <2>4, <2>5
    <3> QED BY <2>1, <2>4, <2>5, <3>1
  <2> QED BY <2>4, <2>5
<1>8. Placed'
  <2>1. \A w \in Workers : holding'[w] = task'[w].job /\ holding'[w] \notin Range(pending')
    BY <1>2, <1>4, <1>5, <1>6, Parts DEF Placed
  <2>2. \A u \in Threads : task'[u].job \in created' \cup {NoJob}
    BY <1>5, IdleShape, Parts DEF Placed
  <2>3. \A d \in Clients : Starts(task'[d]) => d # c /\ task'[d] = task[d] /\ Starts(task[d])
    BY <1>5, IdleShape, Parts DEF Starts
  <2>4. \A d \in Clients : Starts(task[d]) /\ d # c => task[d].job # j
    BY <1>2
  <2>5. ASSUME NEW d \in Clients, Starts(task'[d])
        PROVE  /\ task'[d].job \notin Range(pending')
               /\ \A w \in Workers : holding'[w] # task'[d].job
               /\ \A e \in Clients : Starts(task'[e]) /\ task'[e].job = task'[d].job => e = d
    BY <1>4, <1>6, <2>3, <2>4, <2>5, Parts DEF Placed
  <2>6. \A d \in Clients : Starts(task[d])' <=> Starts(task'[d])
    BY DEF Starts
  <2>7. Range(pending') \subseteq created'
    BY <1>1, <1>2, <1>6
  <2> QED BY <1>4, <1>6, <1>7, <2>1, <2>2, <2>5, <2>6, <2>7, Parts DEF Placed
<1>9. ASSUME NEW x \in Jobs, Over(x) PROVE Over(x)'
  <2>1. x # j
    BY <1>1, <1>9 DEF Over, j
  <2>2. x \in created' /\ x \notin Range(pending')
    BY <1>6, <1>9, <2>1 DEF Over
  <2>3. \A u \in Threads : task'[u].job = x => u # c /\ task'[u] = task[u]
    BY <1>5, IdleShape, Parts
  <2> QED BY <1>9, <2>2, <2>3 DEF Over
<1> QED BY <1>8, <1>9

LEMMA TakenPlaced ==
  ASSUME Inv, NEW w \in Workers, TakeJob(w)
  PROVE  Placed' /\ \A j \in Jobs : Over(j) => Over(j)'
<1>1. PICK k \in Task, j \in Range(pending) :
        /\ Moves(w, k) /\ Fits(w, k) /\ holding[w] = NoJob
        /\ k.op = "dequeue" /\ k.job = j
        /\ j \in Jobs /\ holding' = [holding EXCEPT ![w] = j]
        /\ pending' \in Seq(Jobs) /\ IsInjective(pending')
        /\ Range(pending') = Range(pending) \ {j}
  BY TakenShape
<1>2. \A u \in Threads : task'[u] = IF u = w THEN k ELSE task[u]
  BY <1>1, Parts, MoveShape
<1>3. holding \in [Workers -> Jobs \cup {NoJob}] /\ created' = created
  BY Parts DEF Placed, TakeJob, history
<1>4. /\ holding' \in [Workers -> Jobs \cup {NoJob}]
      /\ \A v \in Workers : holding'[v] = IF v = w THEN j ELSE holding[v]
  BY <1>1, <1>3
<1>5. Placed'
  <2>1. /\ \A v \in Workers : holding[v] # j
        /\ \A v \in Workers : holding'[v] = task'[v].job /\ holding'[v] \notin Range(pending')
        /\ \A v, x \in Workers : holding'[v] = holding'[x] /\ holding'[v] # NoJob => v = x
    BY <1>1, <1>2, <1>4, Parts DEF Placed
  <2>2. \A u \in Threads : task'[u].job \in created' \cup {NoJob}
    BY <1>1, <1>2, <1>3, Parts DEF Placed
  <2>3. \A c \in Clients : task'[c] = task[c]
    BY <1>2, Parts
  <2>4. \A d \in Clients : Starts(task[d])' <=> Starts(task[d])
    BY <2>3 DEF Starts
  <2>5. ASSUME NEW c \in Clients, Starts(task[c])
        PROVE  /\ task'[c].job \notin Range(pending')
               /\ \A v \in Workers : holding'[v] # task'[c].job
               /\ \A d \in Clients : Starts(task[d]) /\ task'[d].job = task'[c].job => d = c
    BY <1>1, <1>4, <2>3, <2>5, Parts DEF Placed
  <2>6. Range(pending') \subseteq created' /\ IsFiniteSet(created')
    BY <1>1, <1>3, Parts DEF Placed
  <2> QED BY <1>1, <1>4, <2>1, <2>2, <2>4, <2>5, <2>6 DEF Placed
<1>6. ASSUME NEW x \in Jobs, Over(x) PROVE Over(x)'
  <2>1. x \in created' /\ x # j /\ x \notin Range(pending')
    BY <1>1, <1>3, <1>6 DEF Over
  <2>2. \A u \in Threads : task'[u].job = x => task'[u] = task[u]
    BY <1>1, <1>2, <2>1
  <2> QED BY <1>6, <2>1, <2>2 DEF Over
<1> QED BY <1>5, <1>6

LEMMA FinishedPlaced ==
  ASSUME Inv, NEW w \in Workers, FinishJob(w)
  PROVE  Placed' /\ \A j \in Jobs : Over(j) => Over(j)'
<1>1. /\ Moves(w, Idle) /\ holding' = [holding EXCEPT ![w] = NoJob]
      /\ UNCHANGED <<pending, created>>
  BY DEF FinishJob, Queue!Finish, Becomes, Moves, history
<1>2. \A u \in Threads : task'[u] = IF u = w THEN Idle ELSE task[u]
  <2>1. Fits(w, Idle) /\ w \in Threads
    BY Parts, IdleFits
  <2> QED BY <1>1, <2>1, Parts, MoveShape
<1>3. holding \in [Workers -> Jobs \cup {NoJob}]
  BY Parts DEF Placed
<1>4. /\ holding' \in [Workers -> Jobs \cup {NoJob}]
      /\ \A v \in Workers : holding'[v] = IF v = w THEN NoJob ELSE holding[v]
  BY <1>1, <1>3
<1>5. Placed'
  <2>1. /\ \A v \in Workers : holding'[v] = task'[v].job
        /\ \A v, x \in Workers : holding'[v] = holding'[x] /\ holding'[v] # NoJob => v = x
    BY <1>2, <1>4, IdleShape, Parts DEF Placed
  <2>2. \A v \in Workers : holding'[v] \notin Range(pending')
    BY <1>1, <1>4, Parts DEF Placed
  <2>3. \A u \in Threads : task'[u].job \in created' \cup {NoJob}
    BY <1>1, <1>2, IdleShape, Parts DEF Placed
  <2>4. \A c \in Clients : task'[c] = task[c]
    BY <1>2, Parts
  <2>5. \A d \in Clients : Starts(task[d])' <=> Starts(task[d])
    BY <2>4 DEF Starts
  <2>6. ASSUME NEW c \in Clients, Starts(task[c])
        PROVE  /\ task'[c].job \notin Range(pending')
               /\ \A v \in Workers : holding'[v] # task'[c].job
               /\ \A d \in Clients : Starts(task[d]) /\ task'[d].job = task'[c].job => d = c
    <3>1. task[c].job # NoJob
      BY <2>6, Parts DEF Starts
    <3> QED BY <1>1, <1>4, <2>4, <2>6, <3>1, Parts DEF Placed
  <2> QED BY <1>1, <1>4, <2>1, <2>2, <2>3, <2>5, <2>6, Parts DEF Placed
<1>6. ASSUME NEW x \in Jobs, Over(x) PROVE Over(x)'
  <2>1. \A u \in Threads : task'[u].job = x => task'[u] = task[u]
    BY <1>2, IdleShape, Parts
  <2> QED BY <1>1, <1>6, <2>1 DEF Over
<1> QED BY <1>5, <1>6

(* A client's new call is about a job nobody else has, or only looks at one. *)
LEMMA CalledPlaced ==
  ASSUME Inv, NEW c \in Clients, NEW k, Fits(c, k), Moves(c, k), task[c].op = "idle",
         UNCHANGED queueVars,
         \/ k.job \in Jobs \ created /\ created' = created \cup {k.job}
         \/ k.job \in created /\ k.op \in {"status", "cancel"} /\ UNCHANGED created
  PROVE  Placed' /\ \A j \in Jobs : Over(j) => Over(j)'
<1>1. \A u \in Threads : task'[u] = IF u = c THEN k ELSE task[u]
  BY Parts, MoveShape
<1>2. task[c].job = NoJob /\ c \in Threads
  BY Parts
<1>3. created \subseteq created' /\ IsFiniteSet(created') /\ k.job \in created'
  BY Parts, FS_AddElement DEF Placed
<1>4. \A u \in Threads : u # c => task'[u] = task[u] /\ task[u].job \in created \cup {NoJob}
  BY <1>1, Parts DEF Placed
<1>5. Placed'
  <2>1. /\ \A w \in Workers : holding'[w] = task'[w].job
        /\ \A w \in Workers : holding'[w] \notin Range(pending')
        /\ \A v, w \in Workers : holding'[v] = holding'[w] /\ holding'[v] # NoJob => v = w
    BY <1>4, Parts DEF Placed, queueVars
  <2>2. \A u \in Threads : task'[u].job \in created' \cup {NoJob}
    BY <1>1, <1>3, <1>4
  <2>3. Starts(k) => k.job \in Jobs \ created
    BY DEF Starts
  <2>4. \A d \in Clients : Starts(task[d])' <=> Starts(task'[d])
    BY DEF Starts
  <2>5. ASSUME NEW d \in Clients, Starts(task'[d])
        PROVE  /\ task'[d].job \notin Range(pending')
               /\ \A w \in Workers : holding'[w] # task'[d].job
               /\ \A e \in Clients : Starts(task'[e]) /\ task'[e].job = task'[d].job => e = d
    <3>1. \A w \in Workers : holding[w] \in created \cup {NoJob}
      BY Parts DEF Placed
    <3>2. Range(pending) \subseteq created /\ UNCHANGED <<pending, holding>>
      BY Parts DEF Placed, queueVars
    <3>3. CASE d = c
      <4>1. task'[d] = k /\ k.job \in Jobs \ created
        BY <1>1, <2>3, <2>5, <3>3, Parts
      <4>2. \A e \in Clients : Starts(task'[e]) /\ e # c => task'[e].job \in created
        <5> SUFFICES ASSUME NEW e \in Clients, Starts(task'[e]), e # c
                     PROVE  task'[e].job \in created
          OBVIOUS
        <5>1. task'[e] = task[e] /\ task[e].job \in created \cup {NoJob} /\ task[e].job # NoJob
          BY <1>4, Parts DEF Starts
        <5> QED BY <5>1
      <4> QED BY <3>1, <3>2, <3>3, <4>1, <4>2, Parts
    <3>4. CASE d # c
      <4>1. task'[d] = task[d] /\ task[d].job \in created
        BY <1>4, <2>5, <3>4, Parts DEF Starts
      <4>2. \A e \in Clients : Starts(task'[e]) /\ task'[e].job = task'[d].job => e # c
        BY <1>1, <2>3, <4>1, Parts
      <4> QED BY <1>4, <2>5, <3>2, <4>1, <4>2, Parts DEF Placed
    <3> QED BY <3>3, <3>4
  <2>6. Range(pending') \subseteq created'
    BY <1>3, Parts DEF Placed, queueVars
  <2> QED BY <1>3, <2>1, <2>2, <2>4, <2>5, <2>6, Parts DEF Placed, queueVars
<1>6. ASSUME NEW x \in Jobs, Over(x) PROVE Over(x)'
  <2>1. x \in created /\ x \in created' /\ x \notin Range(pending')
    BY <1>3, <1>6 DEF Over, queueVars
  <2>2. ASSUME NEW u \in Threads, task'[u].job = x
        PROVE  \/ task'[u].op \in {"status", "cancel", "finish"}
               \/ task'[u].op = "complete" /\ task'[u].phase = "save"
    BY <1>1, <1>6, <2>1, <2>2 DEF Over
  <2> QED BY <2>1, <2>2 DEF Over
<1> QED BY <1>5, <1>6

LEMMA UntouchedPlaced ==
  ASSUME Inv, UNCHANGED <<pending, holding, task, created>>
  PROVE  Placed' /\ \A j \in Jobs : Over(j) => Over(j)'
<1>1. \A t \in Threads : Starts(task[t])' <=> Starts(task[t])
  BY DEF Starts
<1>2. Placed'
  <2>1. \A c \in Clients : c \in Threads
    BY Parts
  <2> QED BY <1>1, <2>1, Parts DEF Placed
<1> QED BY <1>2 DEF Over

LEMMA RestartPlaced ==
  ASSUME Inv, Restart
  PROVE  Placed' /\ \A j \in Jobs : Over(j) => Over(j)'
<1>1. /\ pending' = <<>> /\ holding' = [w \in Workers |-> NoJob]
      /\ task' = [t \in Threads |-> Idle] /\ created' = created
  BY DEF Restart
<1>2. pending' \in Seq(Jobs) /\ Range(pending') = {} /\ IsInjective(pending')
  BY <1>1 DEF Range, IsInjective
<1>3. \A t \in Threads : task'[t] = Idle
  BY <1>1
<1>4. \A c \in Clients : ~(Starts(task[c])')
  BY <1>3, IdleShape, Parts DEF Starts
<1>5. Placed'
  BY <1>1, <1>2, <1>3, <1>4, IdleShape, Parts DEF Placed
<1>6. ASSUME NEW x \in Jobs, Over(x) PROVE Over(x)'
  <2>1. \A u \in Threads : task'[u].job # x
    BY <1>3, IdleShape, Parts
  <2> QED BY <1>1, <1>2, <1>6, <2>1 DEF Over
<1> QED BY <1>5, <1>6

LEMMA NextPlaced ==
  ASSUME Inv, [Next]_vars
  PROVE  Placed' /\ \A j \in Jobs : Over(j) => Over(j)'
<1> DEFINE P == Placed' /\ \A j \in Jobs : Over(j) => Over(j)'
<1>1. ASSUME NEW t \in Threads, StoreCall(t) \/ Index(t) PROVE P
  <2>1. \E k \in Task : Moves(t, k) /\ Fits(t, k) /\ Goes(task[t], k)
    BY <1>1, Parts, LoadShape, MemoShape, WriteShape, WriteFailsShape, SaveShape, IndexShape
       DEF StoreCall
  <2>2. UNCHANGED <<queueVars, created>>
    BY <1>1 DEF StoreCall, Load, Memo, Write, WriteFails, Save, Index, history
  <2> QED BY <2>1, <2>2, MovePlaced
<1>2. ASSUME NEW c \in Clients, Submit(c) PROVE P
  <2>1. CASE Queue!Enqueue(task[c].job) /\ Becomes(c, {Idle})
    BY <1>2, <2>1, SubmittedPlaced DEF Submit, history
  <2>2. CASE Becomes(c, {Refused(task[c])}) /\ UNCHANGED queueVars
    <3>1. PICK k \in Task : Moves(c, k) /\ Fits(c, k) /\ Goes(task[c], k)
      BY <1>2, <2>2, Parts, RefusedShape DEF Submit
    <3> QED BY <1>2, <2>2, <3>1, Parts, MovePlaced DEF Submit, history
  <2> QED BY <1>2, <2>1, <2>2 DEF Submit
<1>3. ASSUME NEW c \in Clients, NEW j \in Jobs, StartJob(c, j) PROVE P
  <2>1. PICK k \in Task :
          Moves(c, k) /\ Fits(c, k) /\ task[c].op = "idle" /\ j \notin created /\ k.job = j
    BY <1>3, Parts, StartShape
  <2>2. created' = created \cup {j} /\ UNCHANGED queueVars
    BY <1>3 DEF StartJob
  <2> QED BY <2>1, <2>2, CalledPlaced
<1>4. ASSUME NEW c \in Clients, NEW j \in Jobs, NEW op \in {"status", "cancel"}, Ask(c, j, op)
      PROVE  P
  <2>1. PICK k \in Task :
          /\ Moves(c, k) /\ Fits(c, k) /\ task[c].op = "idle" /\ j \in created
          /\ k.op = op /\ k.job = j
    BY <1>4, Parts, AskShape
  <2>2. UNCHANGED <<queueVars, created>>
    BY <1>4 DEF Ask, history
  <2> QED BY <2>1, <2>2, CalledPlaced
<1>5. ASSUME NEW w \in Workers, TakeJob(w) PROVE P
  BY <1>5, TakenPlaced
<1>6. ASSUME NEW w \in Workers, Work(w) PROVE P
  <2>1. PICK k \in Task : Moves(w, k) /\ Fits(w, k) /\ Goes(task[w], k)
    BY <1>6, Parts, WorkShape
  <2> QED BY <1>6, <2>1, Parts, MovePlaced DEF Work, history
<1>7. ASSUME NEW w \in Workers, FinishJob(w) PROVE P
  BY <1>7, FinishedPlaced
<1>8. ASSUME NEW w \in Workers, SleepOnQueue(w) \/ WakeUp(w) PROVE P
  BY <1>8, UntouchedPlaced
     DEF SleepOnQueue, WakeUp, Queue!Sleep, Queue!WakeSpuriously, history
<1>9. ASSUME Tick \/ (\E p \in Projects : SwitchProject(p)) \/ UNCHANGED vars PROVE P
  BY <1>9, UntouchedPlaced DEF Tick, SwitchProject, vars, queueVars, history
<1>10. ASSUME Restart PROVE P
  BY <1>10, RestartPlaced
<1> QED BY <1>1, <1>2, <1>3, <1>4, <1>5, <1>6, <1>7, <1>8, <1>9, <1>10, Parts
        DEF Next, ClientStep, WorkerStep

(***************************************************************************)
(* Where the records of a state come from.                                 *)
(***************************************************************************)
LEMMA RecordsAre ==
  ASSUME NEW j
  PROVE  /\ \A p \in Projects : disk[p][j] \in RecordsOf(j) \cup {None}
         /\ mem[j] \in RecordsOf(j) \cup {None}
         /\ \A t \in Threads : task[t].job = j => task[t].copy \in RecordsOf(j) \cup {None}
         /\ None \notin RecordsOf(j)
BY DEF RecordsOf

(* If each place holds what was there, or in Extra, each record was there or is in Extra. *)
LEMMA RecordsFrom ==
  ASSUME NEW j, NEW Extra,
         \A p \in Projects : disk'[p][j] \in RecordsOf(j) \cup Extra \cup {None},
         mem'[j] \in RecordsOf(j) \cup Extra \cup {None},
         \A t \in Threads :
           task'[t].job = j => task'[t].copy \in RecordsOf(j) \cup Extra \cup {None}
  PROVE  RecordsOf(j)' \subseteq RecordsOf(j) \cup Extra
<1> SUFFICES ASSUME NEW r, r \in RecordsOf(j)' PROVE r \in RecordsOf(j) \cup Extra
  OBVIOUS
<1>1. /\ r # None
      /\ \/ \E p \in Projects : r = disk'[p][j]
         \/ r = mem'[j]
         \/ \E t \in Threads : task'[t].job = j /\ r = task'[t].copy
  BY DEF RecordsOf
<1> QED BY <1>1

(* A record of a job that is not complete and shows no result. *)
Plain(j) == {r \in Record : j \in created' /\ r.status # "Completed" /\ ~r.result}

LEMMA NewRecords ==
  ASSUME Inv, [Next]_vars, NEW j \in Jobs, NEW r, r \in RecordsOf(j)'
  PROVE  \/ r \in RecordsOf(j) \cup Plain(j)
         \/ \E t \in Threads : Write(t) /\ task[t].job = j /\ r = Patched(task[t])
<1> DEFINE Old == RecordsOf(j)
           Good == r \in Old \cup Plain(j)
<1>0. /\ \A p \in Projects : disk[p][j] \in Old \cup {None}
      /\ mem[j] \in Old \cup {None}
      /\ \A t \in Threads : task[t].job = j => task[t].copy \in Old \cup {None}
  BY RecordsAre
<1>00. /\ jobsDir \in Projects /\ mem \in [Jobs -> Record \cup {None}] /\ order \in Seq(Jobs)
       /\ TypeOK /\ TasksFit
  BY Parts DEF TypeOK
<1> HIDE DEF Old
<1>1. ASSUME NEW Extra,
             \A p \in Projects : disk'[p][j] \in Old \cup Extra \cup {None},
             mem'[j] \in Old \cup Extra \cup {None},
             \A t \in Threads : task'[t].job = j => task'[t].copy \in Old \cup Extra \cup {None}
      PROVE  r \in Old \cup Extra
  BY <1>1, RecordsFrom DEF Old
<1>2. ASSUME UNCHANGED <<disk, mem>>,
             \A t \in Threads : task'[t].job = j => task'[t].copy \in Old \cup {None}
      PROVE  Good
  <2> DEFINE Extra == {}
  <2>1. /\ \A p \in Projects : disk'[p][j] \in Old \cup Extra \cup {None}
        /\ mem'[j] \in Old \cup Extra \cup {None}
        /\ \A t \in Threads : task'[t].job = j => task'[t].copy \in Old \cup Extra \cup {None}
    BY <1>0, <1>2
  <2> QED BY <1>1, <2>1
<1>3. ASSUME NEW t \in Threads, NEW k, Fits(t, k), Moves(t, k), k.copy = None
      PROVE  \A u \in Threads : task'[u].job = j => task'[u].copy \in Old \cup {None}
  <2>1. \A u \in Threads : task'[u] = IF u = t THEN k ELSE task[u]
    BY <1>00, <1>3, MoveShape
  <2> QED BY <1>0, <1>3, <2>1
<1>4. ASSUME NEW t \in Threads, Load(t) PROVE Good
  <2>1. PICK k \in Task :
          /\ Moves(t, k) /\ Fits(t, k)
          /\ \/ k.job = task[t].job /\ k.copy = Latest(disk'[jobsDir], mem', task[t].job)
             \/ k.copy = None
    BY <1>00, <1>4, LoadShape
  <2>2. /\ \A p \in Projects : disk'[p][j] \in {None, disk[p][j]}
        /\ mem'[j] \in {None, mem[j]}
    BY <1>00, <1>4, PruneShape DEF Load
  <2>3. /\ \A p \in Projects : disk'[p][j] \in Old \cup {None}
        /\ mem'[j] \in Old \cup {None}
    BY <1>0, <2>2
  <2>4. \A u \in Threads : task'[u] = IF u = t THEN k ELSE task[u]
    BY <1>00, <2>1, MoveShape
  <2>5. k.job = j => k.copy \in Old \cup {None}
    BY <1>00, <2>1, <2>3 DEF Latest
  <2>6. \A u \in Threads : task'[u].job = j => task'[u].copy \in Old \cup {None}
    BY <1>0, <2>4, <2>5
  <2> DEFINE Extra == {}
  <2>7. /\ \A p \in Projects : disk'[p][j] \in Old \cup Extra \cup {None}
        /\ mem'[j] \in Old \cup Extra \cup {None}
        /\ \A u \in Threads : task'[u].job = j => task'[u].copy \in Old \cup Extra \cup {None}
    BY <2>3, <2>6
  <2> QED BY <1>1, <2>7
<1>5. ASSUME NEW t \in Threads, Memo(t) \/ Save(t) PROVE Good
  <2>1. PICK k \in Task :
          /\ Moves(t, k) /\ Fits(t, k) /\ task[t].job \in Jobs
          /\ \/ k.job = task[t].job /\ k.copy = task[t].copy
             \/ k.copy = None
    BY <1>00, <1>5, MemoShape, SaveShape
  <2>2. UNCHANGED disk /\ mem' = [mem EXCEPT ![task[t].job] = task[t].copy]
    BY <1>5 DEF Memo, Save
  <2>3. mem'[j] \in Old \cup {None}
    BY <1>0, <1>00, <2>2
  <2>4. \A u \in Threads : task'[u] = IF u = t THEN k ELSE task[u]
    BY <1>00, <2>1, MoveShape
  <2>5. \A u \in Threads : task'[u].job = j => task'[u].copy \in Old \cup {None}
    BY <1>0, <2>1, <2>4
  <2> DEFINE Extra == {}
  <2>6. /\ \A p \in Projects : disk'[p][j] \in Old \cup Extra \cup {None}
        /\ mem'[j] \in Old \cup Extra \cup {None}
        /\ \A u \in Threads : task'[u].job = j => task'[u].copy \in Old \cup Extra \cup {None}
    BY <1>0, <2>2, <2>3, <2>5
  <2> QED BY <1>1, <2>6
<1>6. ASSUME NEW t \in Threads, Write(t)
      PROVE  Good \/ (task[t].job = j /\ r = Patched(task[t]))
  <2>1. PICK k \in Task :
          /\ Moves(t, k) /\ Fits(t, k) /\ k.job = task[t].job /\ k.copy = Patched(task[t])
          /\ \A p \in Projects : \A i \in Jobs :
               disk'[p][i] = IF p = jobsDir /\ i = k.job THEN k.copy ELSE disk[p][i]
    BY <1>00, <1>6, WriteShape
  <2>2. \A u \in Threads : task'[u] = IF u = t THEN k ELSE task[u]
    BY <1>00, <2>1, MoveShape
  <2> DEFINE Extra == {x \in {Patched(task[t])} : task[t].job = j}
  <2>3. /\ \A p \in Projects : disk'[p][j] \in Old \cup Extra \cup {None}
        /\ mem'[j] \in Old \cup Extra \cup {None}
        /\ \A u \in Threads : task'[u].job = j => task'[u].copy \in Old \cup Extra \cup {None}
    <3>1. UNCHANGED mem
      BY <1>6 DEF Write
    <3> QED BY <1>0, <2>1, <2>2, <3>1
  <2>4. r \in Old \cup Extra
    <3> HIDE DEF Extra
    <3> QED BY <1>1, <2>3
  <2> QED BY <2>4
<1>7. ASSUME NEW t \in Threads, WriteFails(t) PROVE Good
  <2>1. PICK k \in Task : Moves(t, k) /\ Fits(t, k) /\ k.copy = None
    BY <1>00, <1>7, WriteFailsShape
  <2> QED BY <1>2, <1>3, <1>7, <2>1 DEF WriteFails, storeVars
<1>8. ASSUME NEW t \in Threads, Index(t) PROVE Good
  <2>1. PICK k \in Task :
          /\ Moves(t, k) /\ Fits(t, k) /\ k.copy = None
          /\ \A p \in Projects : \A i \in Jobs : disk'[p][i] \in {None, disk[p][i]}
          /\ \A i \in Jobs :
               mem'[i] \in {None, mem[i]} \/ (i = task[t].job /\ mem'[i] = task[t].copy)
    BY <1>00, <1>8, IndexShape
  <2> DEFINE Extra == {}
  <2>2. /\ \A p \in Projects : disk'[p][j] \in Old \cup Extra \cup {None}
        /\ mem'[j] \in Old \cup Extra \cup {None}
        /\ \A u \in Threads : task'[u].job = j => task'[u].copy \in Old \cup Extra \cup {None}
    BY <1>0, <1>3, <2>1
  <2> QED BY <1>1, <2>2
<1>9. ASSUME NEW c \in Clients, Submit(c) PROVE Good
  <2>1. PICK k : Moves(c, k) /\ Fits(c, k) /\ k.copy = None
    <3>1. CASE Becomes(c, {Idle})
      BY <3>1, IdleFits, IdleShape, Parts DEF Becomes, Moves
    <3>2. CASE Becomes(c, {Refused(task[c])})
      BY <1>00, <1>9, <3>2, RefusedShape DEF Submit
    <3> QED BY <1>9, <3>1, <3>2 DEF Submit
  <2> QED BY <1>2, <1>3, <1>9, <2>1, Parts DEF Submit, storeVars
<1>10. ASSUME NEW c \in Clients, NEW i \in Jobs, StartJob(c, i) PROVE Good
  <2>1. PICK k \in Task :
          /\ Moves(c, k) /\ Fits(c, k) /\ k.job = i
          /\ k.copy \in Record /\ k.copy.status = "Queued" /\ ~k.copy.result
    BY <1>00, <1>10, StartShape
  <2>2. c \in Threads /\ \A u \in Threads : task'[u] = IF u = c THEN k ELSE task[u]
    BY <1>00, <2>1, Parts, MoveShape
  <2>3. k.job = j => k.copy \in Plain(j)
    BY <1>10, <2>1 DEF Plain, StartJob
  <2>4. /\ \A p \in Projects : disk'[p][j] \in Old \cup Plain(j) \cup {None}
        /\ mem'[j] \in Old \cup Plain(j) \cup {None}
        /\ \A u \in Threads : task'[u].job = j => task'[u].copy \in Old \cup Plain(j) \cup {None}
    BY <1>0, <1>10, <2>2, <2>3 DEF StartJob, storeVars
  <2> QED BY <1>1, <2>4
<1>11. ASSUME NEW c \in Clients, NEW i \in Jobs, NEW op \in {"status", "cancel"}, Ask(c, i, op)
       PROVE  Good
  <2>1. PICK k \in Task : Moves(c, k) /\ Fits(c, k) /\ k.copy = None
    BY <1>00, <1>11, AskShape
  <2> QED BY <1>2, <1>3, <1>11, <2>1, Parts DEF Ask, storeVars
<1>12. ASSUME NEW w \in Workers, TakeJob(w) \/ FinishJob(w) \/ Work(w) PROVE Good
  <2>1. PICK k : Moves(w, k) /\ Fits(w, k) /\ k.copy = None
    <3>1. CASE TakeJob(w)
      BY <3>1, TakenShape
    <3>2. CASE FinishJob(w)
      BY <3>2, IdleFits, IdleShape, Parts DEF FinishJob, Becomes, Moves
    <3>3. CASE Work(w)
      BY <1>00, <3>3, WorkShape
    <3> QED BY <1>12, <3>1, <3>2, <3>3
  <2> QED BY <1>2, <1>3, <1>12, <2>1, Parts DEF TakeJob, FinishJob, Work, storeVars
<1>13. ASSUME NEW w \in Workers, SleepOnQueue(w) \/ WakeUp(w) PROVE Good
  BY <1>0, <1>2, <1>13 DEF SleepOnQueue, WakeUp, storeVars
<1>14. ASSUME Tick \/ UNCHANGED vars PROVE Good
  BY <1>0, <1>2, <1>14 DEF Tick, vars, storeVars
<1>15. ASSUME NEW p \in Projects, SwitchProject(p) PROVE Good
  <2>1. disk' = [disk EXCEPT ![p] = Fresh(disk[p])]
    BY <1>00, <1>15 DEF SwitchProject, TypeOK
  <2>2. \A q \in Projects : disk'[q][j] \in {None, disk[q][j]}
    BY <1>00, <2>1 DEF Fresh, TypeOK
  <2> DEFINE Extra == {}
  <2>3. /\ \A q \in Projects : disk'[q][j] \in Old \cup Extra \cup {None}
        /\ mem'[j] \in Old \cup Extra \cup {None}
        /\ \A u \in Threads : task'[u].job = j => task'[u].copy \in Old \cup Extra \cup {None}
    BY <1>0, <1>15, <2>2 DEF SwitchProject
  <2> QED BY <1>1, <2>3
<1>16. ASSUME Restart PROVE Good
  <2>1. /\ \A p \in Projects \ {Home} : disk'[p] = disk[p]
        /\ \/ disk'[Home][j] \in {None, disk[Home][j]} /\ mem'[j] = None
           \/ /\ disk[Home][j] # None /\ disk[Home][j].status \in Active
              /\ disk'[Home][j] # None => disk'[Home][j] = mem'[j]
              /\ mem'[j] \in Record /\ mem'[j].status = "Error"
              /\ mem'[j].result = disk[Home][j].result
    BY <1>16, RestartShape
  <2>2. disk[Home][j] # None => j \in created /\ (disk[Home][j].result => disk[Home][j].status = "Completed")
    BY <1>0, Bounds DEF Inv, Known, Honest, Old
  <2>3. /\ created' = created
        /\ \A t \in Threads : task'[t] = Idle
    BY <1>16 DEF Restart
  <2>4. CASE disk'[Home][j] \in {None, disk[Home][j]} /\ mem'[j] = None
    <3> DEFINE Extra == {}
    <3>1. /\ \A p \in Projects : disk'[p][j] \in Old \cup Extra \cup {None}
          /\ mem'[j] \in Old \cup Extra \cup {None}
          /\ \A u \in Threads : task'[u].job = j => task'[u].copy \in Old \cup Extra \cup {None}
      BY <1>0, <2>1, <2>3, <2>4, IdleShape
    <3> QED BY <1>1, <3>1
  <2>5. CASE ~(disk'[Home][j] \in {None, disk[Home][j]} /\ mem'[j] = None)
    <3>1. mem'[j] \in Plain(j)
      BY <2>1, <2>2, <2>3, <2>5 DEF Plain, Active
    <3>2. /\ \A p \in Projects : disk'[p][j] \in Old \cup Plain(j) \cup {None}
          /\ mem'[j] \in Old \cup Plain(j) \cup {None}
          /\ \A u \in Threads : task'[u].job = j => task'[u].copy \in Old \cup Plain(j) \cup {None}
      BY <1>0, <2>1, <2>3, <2>5, <3>1, IdleShape
    <3> QED BY <1>1, <3>2
  <2> QED BY <2>4, <2>5
<1> QED BY <1>4, <1>5, <1>6, <1>7, <1>8, <1>9, <1>10, <1>11, <1>12, <1>13, <1>14, <1>15, <1>16,
           Parts DEF Next, ClientStep, WorkerStep, StoreCall, Old

(***************************************************************************)
(* The invariant, and what the result of a job means.                      *)
(***************************************************************************)
(* Beside the worker of a job, other threads can only ask about it. *)
LEMMA SoleWorker ==
  ASSUME Inv, NEW w \in Workers, task[w].job # NoJob
  PROVE  LET j == task[w].job
         IN  /\ j \in Jobs /\ j \in created /\ j \notin Range(pending)
             /\ \A u \in Threads \ {w} : task[u].job = j =>
                  u \in Clients /\ task[u].op \in {"status", "cancel"}
<1> DEFINE j == task[w].job
<1>1. /\ holding[w] = j /\ j \in created \cup {NoJob} /\ j \notin Range(pending)
      /\ \A v \in Workers : holding[v] = task[v].job
      /\ \A v \in Workers \ {w} : holding[v] # j
  BY Parts DEF Placed
<1>2. ASSUME NEW u \in Threads \ {w}, task[u].job = j
      PROVE  u \in Clients /\ task[u].op \in {"status", "cancel"}
  <2>1. u \in Clients
    BY <1>1, <1>2 DEF Threads
  <2>2. ~Starts(task[u])
    BY <1>1, <1>2, <2>1, Parts DEF Placed
  <2>3. task[u].op \in ClientOps
    BY <1>2, <2>1, Parts DEF Fits
  <2> QED BY <2>1, <2>2, <2>3 DEF ClientOps, Starts
<1> QED BY <1>1, <1>2, Parts

(* What Fits says of a thread about to write. *)
LEMMA Writing ==
  ASSUME Inv, NEW t \in Threads, task[t].phase = "write"
  PROVE  /\ Fits(t, task[t]) /\ task[t].job \in Jobs /\ task[t].job \in created
         /\ task[t].copy \in Record /\ task[t].copy \in RecordsOf(task[t].job)
         /\ task[t].op \in Updates \cup {"store"} /\ now \in 0..MaxClock
         /\ t \in Workers \/ t \in Clients
         /\ t \in Clients => task[t].op \in {"cancel", "store", "refuse"}
<1>1. /\ Fits(t, task[t]) /\ task[t] \in Task /\ task[t].phase = "write" /\ now \in 0..MaxClock
  BY Parts DEF Fits, TypeOK
<1>2. task[t].copy \in Record /\ task[t].copy # None /\ task[t].op \in Updates \cup {"store"}
  BY <1>1 DEF Fits, Task
<1>3. task[t].op # "idle" /\ task[t].op # "status"
  BY <1>2 DEF Updates
<1>4. task[t].job \in Jobs /\ task[t].job \in created
  BY <1>3, Parts DEF Placed
<1>5. task[t].copy \in RecordsOf(task[t].job)
  BY <1>2, RecordsAre
<1> QED BY <1>1, <1>2, <1>3, <1>4, <1>5 DEF Fits, ClientOps, Threads

(* A completed copy is only ever written back as it is, by a cancellation. *)
LEMMA CompletedCopy ==
  ASSUME Inv, NEW t \in Threads, task[t].phase = "write", task[t].copy.status = "Completed"
  PROVE  task[t].op = "cancel" /\ Patched(task[t]) = task[t].copy
<1>1. Over(task[t].job)
  BY Writing DEF Inv, CompletedIsOver
<1>2. task[t].op = "cancel"
  BY <1>1, Writing DEF Over, Updates
<1> QED BY <1>2, Writing, PatchedShape

LEMMA WrittenIs ==
  ASSUME Inv, [Next]_vars, NEW t \in Threads, Write(t), NEW j, j = task[t].job
  PROVE  LET r == Patched(task[t])
         IN  /\ r.result => r.status = "Completed"
             /\ r.status = "Completed" => Over(j)'
<1> DEFINE c == task[t].copy
           r == Patched(task[t])
<1>1. task[t].phase = "write"
  BY DEF Write
<1>2. c.result => c.status = "Completed"
  BY <1>1, Writing DEF Inv, Honest
<1>3. CASE c.status = "Completed"
  <2>1. r = c /\ Over(j)
    BY <1>1, <1>3, CompletedCopy, Writing DEF Inv, CompletedIsOver
  <2>2. Over(j)'
    BY <1>1, <2>1, NextPlaced, Writing
  <2> QED BY <1>2, <2>1, <2>2
<1>4. CASE c.status # "Completed"
  <2>1. /\ r.status = "Completed" => task[t].op = "complete"
        /\ task[t].op = "complete" => r.status = "Completed"
        /\ task[t].op # "complete" => (r.result => c.result)
    BY <1>1, <1>4, Writing, PatchedShape
  <2>2. ASSUME task[t].op = "complete" PROVE Over(j)'
    <3>1. t \in Workers /\ j \in Jobs
      BY <1>1, <2>2, Writing
    <3>2. /\ j \in created /\ j \notin Range(pending)
          /\ \A u \in Threads \ {t} : task[u].job = j => task[u].op \in {"status", "cancel"}
      BY <3>1, SoleWorker, Parts
    <3>3. PICK k \in Task :
            /\ Moves(t, k) /\ Fits(t, k)
            /\ k.phase = "save" /\ k.op = task[t].op /\ k.job = task[t].job
      BY Parts, WriteShape
    <3>4. \A u \in Threads : task'[u] = IF u = t THEN k ELSE task[u]
      BY <3>3, Parts, MoveShape
    <3>5. UNCHANGED <<pending, created>>
      BY DEF Write, queueVars
    <3>6. \A u \in Threads : task'[u].job = j =>
            \/ task'[u].op \in {"status", "cancel", "finish"}
            \/ task'[u].op = "complete" /\ task'[u].phase = "save"
      BY <2>2, <3>2, <3>3, <3>4
    <3> QED BY <3>2, <3>5, <3>6 DEF Over
  <2> QED BY <1>2, <1>4, <2>1, <2>2
<1> QED BY <1>3, <1>4

LEMMA NextInv ==
  ASSUME Inv, [Next]_vars
  PROVE  Inv'
<1>1. TypeOK' /\ TasksFit'
  BY NextTypes
<1>2. Placed' /\ \A j \in Jobs : Over(j) => Over(j)'
  BY NextPlaced
<1>3. ASSUME NEW j \in Jobs, NEW r, r \in RecordsOf(j)'
      PROVE  /\ j \in created'
             /\ r.result => r.status = "Completed"
             /\ r.status = "Completed" => Over(j)'
  <2>1. created \subseteq created'
    BY DEF Next, ClientStep, WorkerStep, StoreCall, Load, Memo, Write, WriteFails, Save, Index, Submit, StartJob,
           Ask, TakeJob, SleepOnQueue, WakeUp, FinishJob, Work, Tick, SwitchProject, Restart,
           vars, history
  <2>2. CASE r \in RecordsOf(j)
    <3>1. /\ j \in created
          /\ r.result => r.status = "Completed"
          /\ r.status = "Completed" => Over(j)
      BY <2>2 DEF Inv, Known, Honest, CompletedIsOver
    <3> QED BY <1>2, <2>1, <3>1
  <2>3. CASE r \in Plain(j)
    BY <2>3 DEF Plain
  <2>4. ASSUME NEW t \in Threads, Write(t), task[t].job = j, r = Patched(task[t])
        PROVE  /\ j \in created'
               /\ r.result => r.status = "Completed"
               /\ r.status = "Completed" => Over(j)'
    <3>1. j \in created
      BY <2>4, Writing DEF Write
    <3> QED BY <2>1, <2>4, <3>1, WrittenIs
  <2> QED BY <1>3, <2>2, <2>3, <2>4, NewRecords
<1>4. Known'
  BY <1>3 DEF Known
<1>5. Honest'
  BY <1>3 DEF Honest
<1>6. CompletedIsOver'
  BY <1>3 DEF CompletedIsOver
<1> QED BY <1>1, <1>2, <1>4, <1>5, <1>6 DEF Inv

LEMMA InitShape ==
  ASSUME Init
  PROVE  /\ pending = <<>> /\ holding = [w \in Workers |-> NoJob]
         /\ \A p \in Projects : \A j \in Jobs : disk[p][j] = None
         /\ \A j \in Jobs : mem[j] = None
         /\ \A t \in Threads : task[t] = Idle
         /\ \A j \in Jobs : RecordsOf(j) = {}
         /\ jobsDir = Home /\ created = {} /\ inherited = {} /\ dropped = {} /\ confirmed = {}
<1>1. /\ pending = <<>> /\ holding = [w \in Workers |-> NoJob]
      /\ \A p \in Projects : \A j \in Jobs : disk[p][j] = None
      /\ \A j \in Jobs : mem[j] = None
      /\ \A t \in Threads : task[t] = Idle
      /\ jobsDir = Home /\ created = {} /\ inherited = {} /\ dropped = {} /\ confirmed = {}
  BY DEF Init, Queue!Init
<1>2. \A j \in Jobs : RecordsOf(j) = {}
  BY <1>1, IdleShape DEF RecordsOf
<1> QED BY <1>1, <1>2

LEMMA InitInv == Init => Inv
<1> SUFFICES ASSUME Init PROVE Inv
  OBVIOUS
<1>1. TypeOK
  <2>1. \A t \in Threads : Idle \in Task
    BY IdleShape
  <2> QED BY <2>1, Bounds DEF Init, TypeOK
<1>2. TasksFit
  BY InitShape, IdleFits DEF TasksFit
<1>3. Placed
  <2>1. pending \in Seq(Jobs) /\ Range(pending) = {} /\ IsInjective(pending)
    BY InitShape DEF Range, IsInjective
  <2>2. \A c \in Clients : ~Starts(task[c])
    BY InitShape, IdleShape DEF Starts, Threads
  <2>3. \A w \in Workers : w \in Threads
    BY DEF Threads
  <2> QED BY <2>1, <2>2, <2>3, InitShape, IdleShape, FS_EmptySet DEF Placed
<1> QED BY <1>1, <1>2, <1>3, InitShape DEF Inv, Known, Honest, CompletedIsOver

(* A job is held by one thread or waits in the queue, what the threads hold fits what they
   do, and nothing changes the record of a completed job but a cancellation, which leaves
   it as it is. *)
LEMMA InvHolds == Spec => []Inv
<1>1. Inv /\ [Next]_vars => Inv'
  BY NextInv
<1> QED BY <1>1, InitInv, PTL DEF Spec

(* Type correctness, for any number of threads, jobs and projects. *)
THEOREM TypeCorrect == Spec => []TypeOK
<1>1. Inv => TypeOK
  BY DEF Inv
<1> QED BY <1>1, InvHolds, PTL

(* No record shows a result unless it says "completed", through changes of directory,
   failing writes, forgotten records, restarts and any order in which the threads write
   the record of a job. *)
THEOREM ResultsAreOfCompletedJobs == Spec => []ResultMeansCompleted
<1>1. Inv => ResultMeansCompleted
  BY RecordsAre DEF Inv, Honest, ResultMeansCompleted
<1> QED BY <1>1, InvHolds, PTL

(***************************************************************************)
(* No job is abandoned.                                                    *)
(***************************************************************************)
(* Who is in charge of a job. *)
InCharge(t, j) == task[t].job = j /\ (t \in Workers \/ Starts(task[t]))

LEMMA InChargeIs ==
  ASSUME Inv, NEW j \in Jobs
  PROVE  Responsible(j) <=> j \in Range(pending) \/ \E t \in Threads : InCharge(t, j)
<1>1. \A w \in Workers : holding[w] = task[w].job /\ w \in Threads
  BY Parts DEF Placed
<1>2. j \in Queue!Held <=> \E w \in Workers : task[w].job = j
  BY <1>1, Parts DEF Queue!Held, Queue!Busy
<1>3. (\E c \in Clients : task[c].op \in {"store", "refuse"} /\ task[c].job = j)
        <=> \E t \in Threads : Starts(task[t]) /\ task[t].job = j
  <2>1. \A t \in Threads : Starts(task[t]) => t \in Clients
    BY Parts DEF Fits, Starts, ClientOps
  <2> QED BY <2>1, Parts DEF Starts
<1> QED BY <1>1, <1>2, <1>3 DEF Responsible, InCharge

(* One thread is in charge of a job; the others can only ask about it. *)
LEMMA OneInCharge ==
  ASSUME Inv, NEW j \in Jobs, NEW t \in Threads, InCharge(t, j), NEW u \in Threads \ {t},
         task[u].job = j
  PROVE  task[u].op \in {"status", "cancel"}
<1>1. CASE t \in Workers
  BY <1>1, SoleWorker, Parts DEF InCharge
<1>2. CASE t \notin Workers
  <2>1. t \in Clients /\ Starts(task[t]) /\ task[t].job = j
    BY <1>2 DEF InCharge, Threads
  <2>2. /\ \A w \in Workers : task[w].job # j
        /\ \A d \in Clients : Starts(task[d]) /\ task[d].job = j => d = t
    BY <2>1, Parts DEF Placed
  <2>3. u \in Clients /\ ~Starts(task[u]) /\ task[u].op # "idle"
    BY <2>2, Parts DEF Threads
  <2> QED BY <2>3, Parts DEF Fits, Starts, ClientOps
<1> QED BY <1>1, <1>2

(* What is asked of a task before it leaves a job. *)
Leaves(k) == k.job # NoJob /\ k.op \notin {"status", "cancel"} /\ Concludes(k)

LEMMA MoveAnswered ==
  ASSUME Inv, Inv', HomeInv, NEW t \in Threads, NEW k, Fits(t, k), Moves(t, k),
         UNCHANGED inherited,
         \A j \in Jobs : \/ Settled(disk'[Home][j])
                         \/ disk'[Home][j] = disk[Home][j]
                         \/ InCharge(t, j),
         \A j \in Jobs : Responsible(j) => Responsible(j)' \/ Settled(disk'[Home][j]),
         Leaves(k) => Settled(disk'[Home][k.job])
  PROVE  (\A j \in Jobs : Answered(j)') /\ Concluded'
<1>1. ASSUME NEW j \in Jobs PROVE Answered(j)'
  <2>1. Answered(j)
    BY DEF HomeInv
  <2>2. InCharge(t, j) => Responsible(j)
    BY InChargeIs
  <2> QED BY <2>1, <2>2 DEF Answered, Settled
<1>2. \A u \in Threads : task'[u] = IF u = t THEN k ELSE task[u]
  BY Parts, MoveShape
<1>3. ASSUME NEW u \in Threads, Leaves(task'[u])
      PROVE  Settled(disk'[Home][task'[u].job])
  <2>1. CASE u = t
    BY <1>2, <1>3, <2>1
  <2>2. CASE u # t
    <3>1. Leaves(task[u]) /\ task'[u] = task[u]
      BY <1>2, <1>3, <2>2
    <3>2. task[u].job \in Jobs /\ Settled(disk[Home][task[u].job])
      BY <3>1, Parts DEF HomeInv, Concluded, Leaves, Placed
    <3>3. ~InCharge(t, task[u].job)
      BY <2>2, <3>1, <3>2, OneInCharge DEF Leaves
    <3> QED BY <3>1, <3>2, <3>3
  <2> QED BY <2>1, <2>2
<1>4. Concluded'
  <2> SUFFICES ASSUME NEW u \in Threads, task'[u].job # NoJob,
                      task'[u].op \notin {"status", "cancel"}, Concludes(task[u])'
               PROVE  Settled(disk'[Home][task'[u].job])
    BY DEF Concluded, Settled
  <2>1. Concludes(task'[u])
    BY DEF Concludes, Settled
  <2> QED BY <1>3, <2>1 DEF Leaves
<1> QED BY <1>1, <1>4

(* A step of a call or an attempt: the queue stays, and a client lets go of a job it was
   in charge of only when its record is settled. *)
LEMMA StepAnswered ==
  ASSUME Inv, Inv', HomeInv, NEW t \in Threads, NEW k, Fits(t, k), Moves(t, k), Goes(task[t], k),
         UNCHANGED <<inherited, queueVars>>,
         \A j \in Jobs : \/ Settled(disk'[Home][j])
                         \/ disk'[Home][j] = disk[Home][j]
                         \/ InCharge(t, j),
         Starts(task[t]) /\ ~Starts(k) => Settled(disk'[Home][task[t].job]),
         Leaves(k) => Settled(disk'[Home][k.job])
  PROVE  (\A j \in Jobs : Answered(j)') /\ Concluded'
<1>1. ASSUME NEW j \in Jobs, Responsible(j), ~Settled(disk'[Home][j])
      PROVE  Responsible(j)'
  <2>1. \A u \in Threads : task'[u] = IF u = t THEN k ELSE task[u]
    BY Parts, MoveShape
  <2>2. j \in Range(pending) \/ \E u \in Threads : InCharge(u, j)
    BY <1>1, InChargeIs
  <2>3. CASE j \in Range(pending)
    <3>1. j \in Range(pending')
      BY <2>3 DEF queueVars
    <3> QED BY <3>1, InChargeIs DEF Responsible
  <2>4. ASSUME NEW u \in Threads, InCharge(u, j) PROVE Responsible(j)'
    <3>1. task'[u].job = j /\ (u \in Workers \/ Starts(task'[u]))
      <4>1. CASE u # t
        BY <2>1, <2>4, <4>1 DEF InCharge
      <4>2. CASE u = t /\ t \in Workers
        <5>1. task[t].op \notin ClientOps
          BY <4>2, Parts DEF Fits
        <5> QED BY <2>1, <2>4, <4>2, <5>1 DEF InCharge, Goes
      <4>3. CASE u = t /\ t \notin Workers
        <5>1. Starts(task[t]) /\ task[t].job = j /\ Starts(k)
          BY <1>1, <2>4, <4>3 DEF InCharge
        <5>2. k.job = j
          BY <5>1, IdleShape DEF Goes, Starts
        <5> QED BY <2>1, <4>3, <5>1, <5>2
      <4> QED BY <4>1, <4>2, <4>3
    <3>2. CASE u \in Workers
      <4>1. holding'[u] = j /\ j # NoJob
        <5>1. holding[u] = task[u].job /\ holding'[u] = holding[u]
          BY <3>2, Parts DEF Placed, queueVars
        <5> QED BY <2>4, <5>1, Parts DEF InCharge
      <4> QED BY <3>2, <4>1 DEF Responsible, Queue!Held, Queue!Busy
    <3>3. CASE u \notin Workers
      BY <3>1, <3>3 DEF Responsible, Starts, Threads
    <3> QED BY <3>2, <3>3
  <2> QED BY <2>2, <2>3, <2>4
<1> QED BY <1>1, MoveAnswered DEF queueVars

(* Steps that move no thread. *)
LEMMA StillAnswered ==
  ASSUME Inv, Inv', HomeInv, UNCHANGED <<inherited, pending, holding, task>>,
         \A j \in Jobs : disk'[Home][j] \in {None, disk[Home][j]}
  PROVE  (\A j \in Jobs : Answered(j)') /\ Concluded'
<1>1. \A j \in Jobs : Responsible(j)' <=> Responsible(j)
  BY DEF Responsible, Queue!Held, Queue!Busy
<1>2. \A j \in Jobs : Settled(disk[Home][j]) => Settled(disk'[Home][j])
  BY DEF Settled
<1>3. \A j \in Jobs : Answered(j)'
  BY <1>1, <1>2 DEF HomeInv, Answered, Settled
<1>4. Concluded'
  <2> SUFFICES ASSUME NEW u \in Threads, task'[u].job # NoJob,
                      task'[u].op \notin {"status", "cancel"}, Concludes(task[u])'
               PROVE  Settled(disk'[Home][task'[u].job])
    BY DEF Concluded, Settled
  <2>1. Concludes(task[u])
    BY DEF Concludes, Settled
  <2>2. task[u].job \in Jobs
    BY Parts DEF Placed
  <2> QED BY <1>2, <2>1, <2>2 DEF HomeInv, Concluded
<1> QED BY <1>3, <1>4

LEMMA CallAnswered ==
  ASSUME Inv, Inv', HomeInv, AtHome, ~DiskMayFail, NEW t \in Threads, StoreCall(t) \/ Index(t)
  PROVE  (\A j \in Jobs : Answered(j)') /\ Concluded'
<1> DEFINE a == task[t]
           Stays == \A j \in Jobs : disk'[Home][j] \in {None, disk[Home][j]}
<1>0. /\ TypeOK /\ TasksFit /\ Fits(t, a) /\ jobsDir = Home /\ Home \in Projects
      /\ order \in Seq(Jobs) /\ mem \in [Jobs -> Record \cup {None}]
      /\ a.op \notin {"status", "cancel"} /\ a.job # NoJob /\ Concludes(a)
           => Settled(disk[Home][a.job])
  BY Parts, Bounds DEF AtHome, TypeOK, HomeInv, Concluded
<1>1. ASSUME NEW k, Fits(t, k), Moves(t, k), Goes(a, k), UNCHANGED <<inherited, queueVars>>, Stays,
             Starts(a) /\ ~Starts(k) => Settled(disk'[Home][a.job]),
             Leaves(k) => Settled(disk'[Home][k.job])
      PROVE  (\A j \in Jobs : Answered(j)') /\ Concluded'
  <2>1. \A j \in Jobs : Settled(disk'[Home][j]) \/ disk'[Home][j] = disk[Home][j] \/ InCharge(t, j)
    BY <1>1 DEF Settled
  <2> QED BY <1>1, <2>1, StepAnswered
<1>2. CASE Load(t)
  <2>1. PICK k \in Task :
          /\ Moves(t, k) /\ Fits(t, k) /\ Goes(a, k)
          /\ \/ /\ k.phase = "memo" /\ k.op = a.op /\ k.job = a.job
                /\ k.copy = Latest(disk'[jobsDir], mem', a.job)
             \/ /\ k.phase = "load" /\ k.copy = None
                /\ disk'[jobsDir][a.job] = None
                /\ \/ a.op \in Reads /\ k \in AfterRead(a, None)
                   \/ a.op \in Updates /\ k \in AfterUpdate(a, FALSE)
    BY <1>0, <1>2, LoadShape
  <2>2. Stays
    BY <1>0, <1>2, PruneShape DEF Load
  <2>3. k.job \in {a.job, NoJob}
    BY <2>1, IdleShape DEF Goes
  <2>4. CASE k.phase = "memo"
    <3>1. Starts(a) => Starts(k)
      BY <2>1, <2>4 DEF Starts
    <3>2. Leaves(k) => Settled(disk'[Home][k.job])
      <4> SUFFICES ASSUME Leaves(k) PROVE Settled(disk'[Home][k.job])
        OBVIOUS
      <4>1. k.op # "finish"
        BY <2>1, <2>4 DEF Goes
      <4>2. Settled(k.copy) /\ k.copy = Latest(disk'[Home], mem', a.job) /\ k.job = a.job
        BY <1>0, <2>1, <2>4, <4>1 DEF Leaves, Concludes
      <4> QED BY <4>2 DEF Latest, Settled
    <3> QED BY <1>1, <1>2, <2>1, <2>2, <3>1, <3>2 DEF Load, history
  <2>5. CASE k.phase = "load"
    <3>1. Settled(disk'[Home][a.job])
      BY <1>0, <2>1, <2>5 DEF Settled
    <3>2. Leaves(k) => Settled(disk'[Home][k.job])
      BY <2>3, <3>1 DEF Leaves
    <3> QED BY <1>1, <1>2, <2>1, <2>2, <3>1, <3>2 DEF Load, history
  <2> QED BY <2>1, <2>4, <2>5
<1>3. CASE Memo(t)
  <2>1. PICK k \in Task :
          /\ Moves(t, k) /\ Fits(t, k) /\ Goes(a, k)
          /\ a.job \in Jobs /\ a.copy \in Record
          /\ \/ a.op \in Reads /\ k \in AfterRead(a, a.copy) /\ k.phase = "load"
             \/ a.op \in Updates /\ k.phase = "write" /\ k.op = a.op
    BY <1>0, <1>3, MemoShape
  <2>2. UNCHANGED <<disk, inherited, queueVars>> /\ a.phase = "memo"
    BY <1>3 DEF Memo, history
  <2>3. Starts(a) => Starts(k)
    BY <2>1 DEF Starts, Reads, Checks
  <2>4. k.op = "finish" => /\ Cancelled(a.copy) /\ t \notin Clients /\ k.job = a.job
                           /\ a.op \notin {"status", "cancel"} /\ a.job # NoJob
    <3> SUFFICES ASSUME k.op = "finish"
                 PROVE  /\ Cancelled(a.copy) /\ t \notin Clients /\ k.job = a.job
                        /\ a.op \notin {"status", "cancel"} /\ a.job # NoJob
      OBVIOUS
    <3>1. a.op \in Reads /\ k \in AfterRead(a, a.copy)
      BY <2>1 DEF Updates
    <3>2. /\ t \in Clients => k = Idle
          /\ t \notin Clients => k.job = a.job
          /\ Cancelled(a.copy)
      <4>1. a.copy \in Record \cup {None}
        BY <2>1
      <4> QED BY <1>0, <3>1, <4>1, AfterReadShape
    <3> QED BY <1>0, <2>1, <3>2, IdleShape, Parts DEF Fits, ClientOps
  <2>5. Leaves(k) => Settled(disk'[Home][k.job])
    <3> SUFFICES ASSUME Leaves(k) PROVE Settled(disk'[Home][k.job])
      OBVIOUS
    <3>1. k.op = "finish"
      BY <2>1 DEF Leaves, Concludes
    <3>2. Concludes(a)
      BY <2>2, <2>4, <3>1 DEF Concludes, Cancelled, Settled, Terminal
    <3> QED BY <1>0, <2>2, <2>4, <3>1, <3>2
  <2>6. Stays
    BY <2>2
  <2> QED BY <1>1, <2>1, <2>2, <2>3, <2>5, <2>6
<1>4. CASE Write(t)
  <2>1. PICK k \in Task :
          /\ Moves(t, k) /\ Fits(t, k) /\ Goes(a, k)
          /\ k.phase = "save" /\ k.op = a.op /\ k.job = a.job /\ k.job \in Jobs
          /\ k.copy = Patched(a)
          /\ \A p \in Projects : \A j \in Jobs :
               disk'[p][j] = IF p = jobsDir /\ j = k.job THEN k.copy ELSE disk[p][j]
    BY <1>0, <1>4, WriteShape
  <2>2. a.phase = "write" /\ UNCHANGED <<inherited, queueVars>>
    BY <1>4 DEF Write
  <2>3. /\ a.op \in {"complete", "fail", "giveUp", "refuse", "cancel"} => Settled(k.copy)
        /\ t \in Workers \/ a.op \in {"cancel", "store", "refuse"}
    BY <2>1, <2>2, Writing, PatchedShape DEF Settled
  <2>4. \A j \in Jobs :
           Settled(disk'[Home][j]) \/ disk'[Home][j] = disk[Home][j] \/ InCharge(t, j)
    BY <1>0, <2>1, <2>3 DEF InCharge, Starts
  <2>5. Starts(a) => Starts(k)
    BY <2>1 DEF Starts
  <2>6. Leaves(k) => Settled(disk'[Home][k.job])
    BY <1>0, <2>1, <2>3, Parts DEF Leaves, Concludes, Goes
  <2> QED BY <2>1, <2>2, <2>4, <2>5, <2>6, StepAnswered
<1>5. CASE Save(t)
  <2>1. PICK k \in Task :
          /\ Moves(t, k) /\ Fits(t, k) /\ Goes(a, k)
          /\ a.phase = "save" /\ a.op \in Updates /\ a.job \in Jobs
          /\ k.phase = "load" /\ k \in AfterUpdate(a, TRUE)
    BY <1>0, <1>5, SaveShape
  <2>2. UNCHANGED <<disk, inherited, queueVars>>
    BY <1>5 DEF Save
  <2>3. Stays
    BY <2>2
  <2>4. Starts(a) => Settled(disk'[Home][a.job])
    <3> SUFFICES ASSUME Starts(a) PROVE Settled(disk[Home][a.job])
      BY <2>2
    <3>1. a.op = "refuse"
      BY <2>1 DEF Starts, Updates
    <3> QED BY <1>0, <2>1, <3>1, Parts DEF Concludes
  <2>5. k.op = "finish" => a.op \in {"complete", "fail", "giveUp"}
    <3> DEFINE yes == TRUE
    <3>1. yes \in BOOLEAN /\ a.op \in Updates \cup {"store"} /\ k \in AfterUpdate(a, yes)
      BY <2>1
    <3> HIDE DEF yes
    <3> QED BY <1>0, <3>1, AfterUpdateShape
  <2>6. Leaves(k) => Settled(disk'[Home][k.job])
    <3> SUFFICES ASSUME Leaves(k) PROVE Settled(disk'[Home][k.job])
      OBVIOUS
    <3>1. k.op = "finish"
      BY <2>1 DEF Leaves, Concludes
    <3>2. Concludes(a) /\ a.op \notin {"status", "cancel"}
      BY <2>1, <2>5, <3>1 DEF Concludes
    <3>3. k.job = a.job
      BY <2>1, <3>1, IdleShape DEF Goes
    <3> QED BY <1>0, <2>1, <2>2, <3>2, <3>3, Parts
  <2> QED BY <1>1, <2>1, <2>2, <2>3, <2>4, <2>6
<1>6. CASE Index(t)
  <2>1. PICK k \in Task :
          /\ Moves(t, k) /\ Fits(t, k) /\ Goes(a, k)
          /\ k.op = "store" /\ k.phase = "enqueue"
          /\ \A p \in Projects : \A j \in Jobs : disk'[p][j] \in {None, disk[p][j]}
    BY <1>0, <1>6, IndexShape
  <2>2. UNCHANGED <<inherited, queueVars>>
    BY <1>6 DEF Index, history
  <2>3. Stays /\ Starts(k) /\ ~Leaves(k)
    BY <1>0, <2>1 DEF Starts, Leaves, Concludes
  <2> QED BY <1>1, <2>1, <2>2, <2>3
<1> QED BY <1>2, <1>3, <1>4, <1>5, <1>6 DEF StoreCall, WriteFails

(* A directory the store never uses stays empty. *)
LEMMA NextOnlyHome ==
  ASSUME Inv, OnlyHome, AtHome, AtHome', [Next]_vars
  PROVE  OnlyHome'
<1>0. /\ TypeOK /\ TasksFit /\ jobsDir = Home /\ jobsDir' = Home /\ Home \in Projects
      /\ order \in Seq(Jobs) /\ mem \in [Jobs -> Record \cup {None}]
      /\ disk \in [Projects -> [Jobs -> Record \cup {None}]]
  BY Parts, Bounds DEF AtHome, TypeOK
<1> SUFFICES ASSUME NEW p \in Projects \ {Home}, NEW j \in Jobs PROVE disk'[p][j] = None
  BY DEF OnlyHome
<1>1. disk[p][j] = None
  BY DEF OnlyHome
<1>2. ASSUME NEW t \in Threads, StoreCall(t) \/ Index(t) PROVE disk'[p][j] = None
  <2>1. CASE Load(t)
    BY <1>0, <1>1, <2>1, PruneShape DEF Load
  <2>2. CASE Write(t)
    BY <1>0, <1>1, <2>2, WriteShape
  <2>3. CASE Index(t)
    BY <1>0, <1>1, <2>3, IndexShape
  <2> QED BY <1>1, <1>2, <2>1, <2>2, <2>3 DEF StoreCall, Memo, WriteFails, Save, storeVars
<1>3. ASSUME Restart PROVE disk'[p][j] = None
  BY <1>1, <1>3, RestartShape
<1>4. ASSUME NEW q \in Projects, SwitchProject(q) PROVE disk'[p][j] = None
  BY <1>0, <1>1, <1>4 DEF SwitchProject
<1>5. ASSUME UNCHANGED disk PROVE disk'[p][j] = None
  BY <1>1, <1>5
<1> QED BY <1>2, <1>3, <1>4, <1>5, Parts
        DEF Next, ClientStep, WorkerStep, Submit, StartJob, Ask, TakeJob, SleepOnQueue, WakeUp,
            FinishJob, Work, Tick, vars, storeVars

(* Whoever lets go of a job has settled its record, or has handed it on. *)
LEMMA NextAnswered ==
  ASSUME Inv, Inv', HomeInv, AtHome, AtHome', ~DiskMayFail, \A j \in Jobs : Scope[j] = Home,
         [Next]_vars
  PROVE  (\A j \in Jobs : Answered(j)') /\ Concluded'
<1> DEFINE P == (\A j \in Jobs : Answered(j)') /\ Concluded'
<1>0. TypeOK /\ TasksFit /\ jobsDir = Home /\ jobsDir' = Home
  BY Parts DEF AtHome
<1>1. ASSUME NEW t \in Threads, StoreCall(t) \/ Index(t) PROVE P
  BY <1>1, CallAnswered
<1>2. ASSUME NEW t \in Threads, NEW k, Fits(t, k), Moves(t, k), UNCHANGED <<disk, inherited>>,
             \A j \in Jobs : Responsible(j) => Responsible(j)' \/ Settled(disk[Home][j]),
             ~Leaves(k)
      PROVE  P
  <2>1. \A j \in Jobs : /\ disk'[Home][j] = disk[Home][j]
                        /\ Responsible(j) => Responsible(j)' \/ Settled(disk'[Home][j])
    BY <1>2
  <2> QED BY <1>2, <2>1, MoveAnswered
<1>3. ASSUME NEW c \in Clients, Submit(c) PROVE P
  <2>0. UNCHANGED <<disk, inherited>> /\ c \in Threads
    BY <1>3, Parts DEF Submit, storeVars, history
  <2>1. CASE Queue!Enqueue(task[c].job) /\ Becomes(c, {Idle})
    <3>1. Fits(c, Idle) /\ Moves(c, Idle) /\ ~Leaves(Idle)
      BY <2>0, <2>1, IdleFits, IdleShape DEF Becomes, Moves, Leaves
    <3>2. \A u \in Threads : task'[u] = IF u = c THEN Idle ELSE task[u]
      BY <1>0, <2>0, <3>1, MoveShape
    <3>3. Range(pending') = Range(pending) \cup {task[c].job} /\ UNCHANGED holding
      <4>1. PICK i \in 1..Len(pending) + 1 : pending' = InsertAt(pending, i, task[c].job)
        BY <2>1 DEF Queue!Enqueue, Queue!InsertionPoint, Queue!InsertAt, InsertAt
      <4>2. pending \in Seq(Jobs) /\ task[c].job \in Jobs
        <5>1. task[c].op # "idle"
          BY <1>3, <2>0, Parts DEF Submit, Fits, Reads, Updates
        <5> QED BY <2>0, <5>1, Parts DEF Placed
      <4>3. Range(InsertAt(pending, i, task[c].job)) = Range(pending) \cup {task[c].job}
        BY <4>2, InsertAtProperties
      <4> QED BY <2>1, <4>1, <4>3 DEF Queue!Enqueue
    <3>4. ASSUME NEW j \in Jobs, Responsible(j) PROVE Responsible(j)'
      <4>1. CASE j \in Range(pending) \cup Queue!Held
        BY <3>3, <4>1 DEF Responsible, Queue!Held, Queue!Busy
      <4>2. ASSUME NEW d \in Clients, task[d].op \in {"store", "refuse"}, task[d].job = j
            PROVE  Responsible(j)'
        BY <3>2, <3>3, <4>2, Parts DEF Responsible
      <4> QED BY <3>4, <4>1, <4>2 DEF Responsible
    <3> QED BY <1>2, <2>0, <3>1, <3>4
  <2>2. CASE Becomes(c, {Refused(task[c])}) /\ UNCHANGED queueVars
    <3>1. PICK k \in Task :
            /\ Moves(c, k) /\ Fits(c, k) /\ Goes(task[c], k)
            /\ k.op = "refuse" /\ k.phase = "load"
      BY <1>0, <1>3, <2>2, RefusedShape DEF Submit
    <3>2. Starts(k) /\ ~Leaves(k)
      BY <3>1 DEF Starts, Leaves, Concludes
    <3>3. \A j \in Jobs : disk'[Home][j] = disk[Home][j]
      BY <2>0
    <3> QED BY <2>0, <2>2, <3>1, <3>2, <3>3, StepAnswered
  <2> QED BY <1>3, <2>1, <2>2 DEF Submit
<1>4. ASSUME NEW c \in Clients, task[c].op = "idle", NEW k, Fits(c, k), Moves(c, k), ~Leaves(k),
             UNCHANGED <<disk, inherited, pending, holding>>
      PROVE  P
  <2>1. \A u \in Threads : task'[u] = IF u = c THEN k ELSE task[u]
    BY <1>0, <1>4, Parts, MoveShape
  <2>2. ASSUME NEW j \in Jobs, Responsible(j) PROVE Responsible(j)'
    <3>1. CASE j \in Range(pending) \cup Queue!Held
      BY <1>4, <3>1 DEF Responsible, Queue!Held, Queue!Busy
    <3>2. ASSUME NEW d \in Clients, task[d].op \in {"store", "refuse"}, task[d].job = j
          PROVE  Responsible(j)'
      BY <1>4, <2>1, <3>2, Parts DEF Responsible
    <3> QED BY <2>2, <3>1, <3>2 DEF Responsible
  <2> QED BY <1>2, <1>4, <2>2, Parts
<1>5. ASSUME NEW c \in Clients, NEW j \in Jobs, StartJob(c, j) PROVE P
  <2>1. PICK k \in Task : /\ Moves(c, k) /\ Fits(c, k) /\ task[c].op = "idle"
                          /\ k.op = "store" /\ k.phase = "write"
    BY <1>0, <1>5, StartShape
  <2>2. ~Leaves(k)
    BY <2>1 DEF Leaves, Concludes
  <2> QED BY <1>4, <1>5, <2>1, <2>2 DEF StartJob, storeVars, queueVars
<1>6. ASSUME NEW c \in Clients, NEW j \in Jobs, NEW op \in {"status", "cancel"}, Ask(c, j, op)
      PROVE  P
  <2>1. PICK k \in Task : Moves(c, k) /\ Fits(c, k) /\ task[c].op = "idle" /\ k.op = op
    BY <1>0, <1>6, AskShape
  <2>2. ~Leaves(k)
    BY <2>1 DEF Leaves
  <2> QED BY <1>4, <1>6, <2>1, <2>2 DEF Ask, storeVars, queueVars, history
<1>7. ASSUME NEW w \in Workers, TakeJob(w) PROVE P
  <2>1. PICK k \in Task, i \in Range(pending) :
          /\ Moves(w, k) /\ Fits(w, k) /\ holding[w] = NoJob
          /\ k.op = "dequeue" /\ k.phase = "load" /\ k.job = i
          /\ i \in Jobs /\ holding' = [holding EXCEPT ![w] = i]
          /\ Range(pending') = Range(pending) \ {i}
    BY <1>7, TakenShape
  <2>2. \A u \in Threads : task'[u] = IF u = w THEN k ELSE task[u]
    BY <1>0, <2>1, Parts, MoveShape
  <2>3. \A v \in Workers : holding'[v] = IF v = w THEN i ELSE holding[v]
    BY <2>1, Parts DEF Placed
  <2>4. ASSUME NEW j \in Jobs, Responsible(j) PROVE Responsible(j)'
    <3>1. CASE j = i
      BY <2>1, <2>3, <3>1, Parts DEF Responsible, Queue!Held, Queue!Busy
    <3>2. CASE j # i /\ j \in Range(pending)
      BY <2>1, <3>2 DEF Responsible
    <3>3. CASE j \in Queue!Held
      BY <2>1, <2>3, <3>3 DEF Responsible, Queue!Held, Queue!Busy
    <3>4. ASSUME NEW d \in Clients, task[d].op \in {"store", "refuse"}, task[d].job = j
          PROVE  Responsible(j)'
      BY <2>2, <3>4, Parts DEF Responsible
    <3> QED BY <2>4, <3>1, <3>2, <3>3, <3>4 DEF Responsible
  <2>5. ~Leaves(k)
    BY <2>1 DEF Leaves, Concludes
  <2> QED BY <1>2, <1>7, <2>1, <2>4, <2>5, Parts DEF TakeJob, storeVars, history
<1>8. ASSUME NEW w \in Workers, Work(w) PROVE P
  <2>1. PICK k \in Task :
          /\ Moves(w, k) /\ Fits(w, k) /\ Goes(task[w], k)
          /\ task[w].op = "work" /\ k.phase = "load" /\ k.op \in {"verdict", "retry", "giveUp", "advance"}
    BY <1>0, <1>8, WorkShape
  <2>2. ~Leaves(k) /\ ~Starts(task[w])
    BY <2>1 DEF Leaves, Concludes, Starts
  <2>3. UNCHANGED <<disk, inherited, queueVars>>
    BY <1>8 DEF Work, storeVars, history
  <2>4. \A j \in Jobs : disk'[Home][j] = disk[Home][j]
    BY <2>3
  <2> QED BY <2>1, <2>2, <2>3, <2>4, Parts, StepAnswered
<1>9. ASSUME NEW w \in Workers, FinishJob(w) PROVE P
  <2>1. /\ Moves(w, Idle) /\ Fits(w, Idle) /\ ~Leaves(Idle) /\ task[w].op = "finish"
        /\ holding' = [holding EXCEPT ![w] = NoJob]
        /\ UNCHANGED <<pending, disk, inherited>>
    BY <1>9, IdleFits, IdleShape, Parts
       DEF FinishJob, Becomes, Moves, Queue!Finish, Leaves, storeVars, history
  <2>2. \A u \in Threads : task'[u] = IF u = w THEN Idle ELSE task[u]
    BY <1>0, <2>1, Parts, MoveShape
  <2>3. \A v \in Workers : holding'[v] = IF v = w THEN NoJob ELSE holding[v]
    BY <2>1, Parts DEF Placed
  <2>4. holding[w] = task[w].job /\ task[w].job # NoJob /\ Settled(disk[Home][task[w].job])
    BY <2>1, Parts DEF Placed, HomeInv, Concluded, Concludes
  <2>5. ASSUME NEW j \in Jobs, Responsible(j)
        PROVE  Responsible(j)' \/ Settled(disk[Home][j])
    <3>1. CASE j = task[w].job
      BY <2>4, <3>1
    <3>2. CASE j \in Range(pending)
      BY <2>1, <3>2 DEF Responsible
    <3>3. CASE j # task[w].job /\ j \in Queue!Held
      BY <2>1, <2>3, <2>4, <3>3, Parts DEF Responsible, Queue!Held, Queue!Busy
    <3>4. ASSUME NEW d \in Clients, task[d].op \in {"store", "refuse"}, task[d].job = j
          PROVE  Responsible(j)'
      BY <2>2, <3>4, Parts DEF Responsible
    <3> QED BY <2>5, <3>1, <3>2, <3>3, <3>4 DEF Responsible
  <2> QED BY <1>2, <2>1, <2>5, Parts
<1>10. ASSUME \/ \E w \in Workers : SleepOnQueue(w) \/ WakeUp(w)
              \/ Tick
              \/ UNCHANGED vars
       PROVE  P
  <2>1. UNCHANGED <<inherited, pending, holding, task, disk>>
    BY <1>10 DEF SleepOnQueue, WakeUp, Queue!Sleep, Queue!WakeSpuriously, Tick, vars, queueVars,
                 storeVars, history
  <2>2. \A j \in Jobs : disk'[Home][j] \in {None, disk[Home][j]}
    BY <2>1
  <2> QED BY <2>1, <2>2, StillAnswered
<1>11. ASSUME NEW p \in Projects, SwitchProject(p) PROVE P
  <2>1. p = Home /\ disk' = [disk EXCEPT ![Home] = Fresh(disk[Home])]
        /\ UNCHANGED <<inherited, pending, holding, task>>
    BY <1>0, <1>11 DEF SwitchProject, queueVars, history
  <2>2. \A j \in Jobs : disk'[Home][j] \in {None, disk[Home][j]}
    BY <1>0, <2>1, Bounds DEF Fresh, TypeOK
  <2> QED BY <2>1, <2>2, StillAnswered
<1>12. ASSUME Restart PROVE P
  <2>1. \A t \in Threads : task'[t] = Idle
    BY <1>12 DEF Restart
  <2>2. Concluded'
    BY <2>1, IdleShape DEF Concluded
  <2>3. ASSUME NEW j \in Jobs PROVE Answered(j)'
    <3>1. /\ Interrupted(disk[Home][j], j) => Settled(disk'[Home][j])
          /\ disk'[Home][j] \in {None, disk[Home][j]} \/ Settled(disk'[Home][j])
      BY <1>12, RestartShape DEF Settled, Terminal
    <3>2. disk[Home][j] # None /\ disk[Home][j].status \in Active =>
            Interrupted(disk[Home][j], j) \/ j \in inherited'
      <4> SUFFICES ASSUME disk[Home][j] # None, disk[Home][j].status \in Active,
                          j \notin inherited'
                   PROVE  now - disk[Home][j].at > StaleAfter
        BY DEF Interrupted
      <4>1. ~(now - disk[Home][j].at <= StaleAfter)
        BY <1>12 DEF Restart
      <4>2. now \in Int /\ disk[Home][j].at \in Int /\ StaleAfter \in Int
        <5>1. disk[Home][j] \in Record
          BY <1>0, Bounds DEF TypeOK
        <5>2. now \in 0..MaxClock /\ disk[Home][j].at \in 0..MaxClock
          BY <1>0, <5>1 DEF TypeOK, Record
        <5> QED BY <5>2, Bounds, JobsAssumption DEF JobsAssumption
      <4> QED BY <4>1, <4>2
    <3>3. disk[Home][j] # None => disk[Home][j].status \in Active \cup Terminal
      <4>1. disk[Home][j] \in Record \cup {None}
        BY <1>0, Bounds DEF TypeOK
      <4> QED BY <4>1 DEF Record
    <3> QED BY <3>1, <3>2, <3>3 DEF Answered, Settled
  <2> QED BY <2>2, <2>3
<1> QED BY <1>1, <1>3, <1>5, <1>6, <1>7, <1>8, <1>9, <1>10, <1>11, <1>12, Parts
        DEF Next, ClientStep, WorkerStep

LEMMA InitHome == Init => HomeInv
<1> SUFFICES ASSUME Init PROVE HomeInv
  OBVIOUS
<1>1. OnlyHome /\ (\A j \in Jobs : Answered(j))
  BY InitShape, Bounds DEF OnlyHome, Answered, Settled
<1>2. Concluded
  BY InitShape, IdleShape DEF Concluded
<1> QED BY <1>1, <1>2 DEF HomeInv

LEMMA HomeMeansNoneAbandoned == HomeInv => NoAbandonedJob
<1> SUFFICES ASSUME HomeInv, NEW p \in Projects, NEW j \in Jobs \ inherited
             PROVE  Settled(disk[p][j]) \/ Responsible(j)
  BY DEF NoAbandonedJob
<1>1. CASE p = Home
  BY <1>1 DEF HomeInv, Answered
<1>2. CASE p # Home
  BY <1>2 DEF HomeInv, OnlyHome, Settled
<1> QED BY <1>1, <1>2

(* No job is left "queued" or "running" with nobody to end it, through any order of the
   threads' reads and writes, refusals of a full queue, cancellations, failing, panicking
   and late attempts, forgotten records and restarts.  The store stays in the directory it
   starts with, its writes succeed and every job is of the project startup repairs; a job
   of another project is abandoned, as the run JobsStartupScope shows. *)
THEOREM NoJobIsAbandoned ==
  ASSUME ~DiskMayFail, \A j \in Jobs : Scope[j] = Home
  PROVE  Spec /\ []AtHome => []NoAbandonedJob
<1>1. Inv /\ Inv' /\ HomeInv /\ AtHome /\ AtHome' /\ [Next]_vars => HomeInv'
  BY NextOnlyHome, NextAnswered DEF HomeInv
<1> QED BY <1>1, InvHolds, InitHome, HomeMeansNoneAbandoned, PTL DEF Spec

(***************************************************************************)
(* While records are kept: cancellations, and what a completed job shows.  *)
(***************************************************************************)
(* Only a thread's write and a restart change a file. *)
LEMMA KeptDisk ==
  ASSUME Inv, AtHome, AtHome', RecordsStay, [Next]_vars, ~Restart, NEW j \in Jobs
  PROVE  \/ disk'[Home][j] = disk[Home][j]
         \/ \E t \in Threads : /\ Write(t) /\ task[t].job = j
                               /\ disk'[Home][j] = Patched(task[t])
<1>0. /\ TypeOK /\ TasksFit /\ jobsDir = Home /\ jobsDir' = Home /\ Home \in Projects
      /\ order \in Seq(Jobs) /\ mem \in [Jobs -> Record \cup {None}]
      /\ disk \in [Projects -> [Jobs -> Record \cup {None}]]
  BY Parts, Bounds DEF AtHome, TypeOK
<1>1. ASSUME disk'[Home][j] \in {None, disk[Home][j]} PROVE disk'[Home][j] = disk[Home][j]
  BY <1>1 DEF RecordsStay
<1>2. ASSUME NEW t \in Threads, Load(t) \/ Index(t) PROVE disk'[Home][j] = disk[Home][j]
  <2>1. CASE Load(t)
    BY <1>0, <1>1, <2>1, PruneShape DEF Load
  <2>2. CASE Index(t)
    BY <1>0, <1>1, <2>2, IndexShape
  <2> QED BY <1>2, <2>1, <2>2
<1>3. ASSUME NEW t \in Threads, Write(t), disk'[Home][j] # disk[Home][j]
      PROVE  task[t].job = j /\ disk'[Home][j] = Patched(task[t])
  BY <1>0, <1>3, WriteShape
<1>4. ASSUME NEW p \in Projects, SwitchProject(p) PROVE disk'[Home][j] = disk[Home][j]
  <2>1. disk' = [disk EXCEPT ![Home] = Fresh(disk[Home])]
    BY <1>0, <1>4 DEF SwitchProject
  <2>2. disk'[Home][j] \in {None, disk[Home][j]}
    BY <1>0, <2>1 DEF Fresh
  <2> QED BY <1>1, <2>2
<1> QED BY <1>2, <1>3, <1>4, Parts
        DEF Next, ClientStep, WorkerStep, StoreCall, Memo, WriteFails, Save, Submit, StartJob,
            Ask, TakeJob, SleepOnQueue, WakeUp, FinishJob, Work, Tick, vars, storeVars

(* Whose step it is. *)
LEMMA WorkersStep ==
  ASSUME Inv, [Next]_vars, NEW w \in Workers, task'[w] # task[w]
  PROVE  \/ TakeJob(w) \/ FinishJob(w) \/ Work(w)
         \/ Load(w) \/ Memo(w) \/ Write(w) \/ WriteFails(w) \/ Save(w)
         \/ Restart /\ task'[w] = Idle
<1>1. w \in Threads /\ w \notin Clients /\ task \in [Threads -> Task]
  BY Parts
<1>2. ASSUME NEW t \in Threads, NEW S, Becomes(t, S) PROVE t = w
  BY <1>1, <1>2 DEF Becomes
<1>3. ASSUME NEW t \in Threads, StoreCall(t) \/ Index(t) PROVE t = w
  <2>1. \E S : Becomes(t, S)
    BY <1>3 DEF StoreCall, Load, Memo, Write, WriteFails, Save, Index
  <2> QED BY <1>2, <2>1
<1>4. ASSUME NEW c \in Clients, ClientStep(c) PROVE FALSE
  BY <1>1, <1>2, <1>3, <1>4, Parts DEF ClientStep, Submit
<1>5. ASSUME NEW c \in Clients, NEW j \in Jobs,
             StartJob(c, j) \/ Ask(c, j, "status") \/ Ask(c, j, "cancel")
      PROVE  FALSE
  <2>1. \E S : Becomes(c, S)
    BY <1>5 DEF StartJob, Ask
  <2> QED BY <1>1, <1>2, <2>1, Parts
<1>6. ASSUME NEW v \in Workers, WorkerStep(v)
      PROVE  TakeJob(w) \/ FinishJob(w) \/ Work(w) \/ StoreCall(w)
  <2>1. ~SleepOnQueue(v)
    BY DEF SleepOnQueue
  <2>2. \E S : Becomes(v, S)
    <3>1. CASE StoreCall(v)
      BY <3>1 DEF StoreCall, Load, Memo, Write, WriteFails, Save
    <3> QED BY <1>6, <2>1, <3>1 DEF WorkerStep, TakeJob, FinishJob, Work
  <2>3. v = w
    BY <1>2, <2>2, Parts
  <2> QED BY <1>6, <2>1, <2>3 DEF WorkerStep
<1>7. CASE Restart
  BY <1>1, <1>7 DEF Restart
<1> QED BY <1>4, <1>5, <1>6, <1>7
        DEF Next, StoreCall, WakeUp, Tick, SwitchProject, vars

(* What a worker does next, while the record of its job is there. *)
LEMMA WorkersNext ==
  ASSUME Inv, Recorded, AtHome, AtHome', RecordsStay, [Next]_vars, NEW w \in Workers,
         NEW a, a = task[w], NEW k, k = task'[w], k # a, k # Idle
  PROVE  /\ Fits(w, k)
         /\ \/ k.op = "dequeue" /\ k.phase = "load" /\ k.payload = "none"
            \/ /\ a.phase = "load" /\ k.phase = "memo" /\ k.op = a.op /\ k.job = a.job
               /\ k.payload = a.payload /\ k.copy = disk'[Home][a.job]
            \/ /\ a.phase = "memo" /\ a.op \in Reads /\ k \in AfterRead(a, a.copy)
               /\ a.copy \in Record /\ k.phase = "load" /\ disk' = disk
            \/ /\ a.op \in Updates /\ k.op = a.op /\ k.job = a.job /\ k.payload = a.payload
               /\ k.phase \in {"write", "save"}
            \/ /\ a.op \in Updates /\ k.phase = "load"
               /\ k.op \notin {"dequeue", "publish", "complete"}
               /\ k.payload = "empty" => a.payload = "empty"
            \/ /\ a.op = "work" /\ k.phase = "load"
               /\ \/ k.op = "verdict" /\ k.payload = "full"
                  \/ /\ k.op \in {"retry", "giveUp", "advance"}
                     /\ k.payload \in {"none", a.payload}
<1>0. /\ TypeOK /\ TasksFit /\ jobsDir = Home /\ jobsDir' = Home /\ Fits(w, a)
      /\ w \in Threads /\ w \notin Clients /\ task \in [Threads -> Task]
  BY Parts DEF AtHome
<1>1. ASSUME NEW m, Moves(w, m) PROVE m = k
  BY <1>0, <1>1 DEF Moves
<1>2. a.op \in Reads \cup Updates => disk'[Home][a.job] # None
  <2> SUFFICES ASSUME a.op \in Reads \cup Updates PROVE disk'[Home][a.job] # None
    OBVIOUS
  <2>1. a.job # NoJob
    BY <1>0 DEF Fits, Reads, Checks, Updates
  <2>2. holding[w] = a.job /\ a.job \in Jobs
    BY <1>0, <2>1, Parts DEF Placed, Fits, Task
  <2> QED BY <2>1, <2>2 DEF Recorded, RecordsStay
<1>3. CASE TakeJob(w)
  BY <1>1, <1>3, TakenShape
<1>4. CASE FinishJob(w)
  BY <1>1, <1>4 DEF FinishJob, Becomes, Moves
<1>5. CASE Work(w)
  <2>1. PICK m \in Task :
          /\ Moves(w, m) /\ Fits(w, m) /\ a.op = "work" /\ m.phase = "load"
          /\ \/ m.op = "verdict" /\ m.payload = "full"
             \/ m.op \in {"retry", "giveUp", "advance"} /\ m.payload \in {"none", a.payload}
    BY <1>0, <1>5, WorkShape
  <2> QED BY <1>1, <2>1
<1>6. CASE Load(w)
  <2>1. a.op \in Reads \cup Updates /\ a.phase = "load"
    BY <1>6 DEF Load
  <2>2. PICK m \in Task :
          /\ Moves(w, m) /\ Fits(w, m)
          /\ \/ /\ m.phase = "memo" /\ m.op = a.op /\ m.job = a.job /\ m.payload = a.payload
                /\ m.copy = Latest(disk'[jobsDir], mem', a.job)
             \/ disk'[jobsDir][a.job] = None
    BY <1>0, <1>6, LoadShape
  <2>3. Latest(disk'[jobsDir], mem', a.job) = disk'[Home][a.job]
    BY <1>0, <1>2, <2>1 DEF Latest
  <2> QED BY <1>0, <1>1, <1>2, <2>1, <2>2, <2>3
<1>7. CASE Memo(w)
  <2>1. PICK m \in Task :
          /\ Moves(w, m) /\ Fits(w, m) /\ a.copy \in Record
          /\ \/ a.op \in Reads /\ m \in AfterRead(a, a.copy) /\ m.phase = "load"
             \/ /\ a.op \in Updates /\ m.phase = "write" /\ m.op = a.op
                /\ m.job = a.job /\ m.payload = a.payload
    BY <1>0, <1>7, MemoShape
  <2>2. a.phase = "memo" /\ disk' = disk
    BY <1>7 DEF Memo
  <2> QED BY <1>1, <2>1, <2>2
<1>8. CASE Write(w)
  <2>1. PICK m \in Task :
          /\ Moves(w, m) /\ Fits(w, m) /\ a.phase = "write"
          /\ m.phase = "save" /\ m.op = a.op /\ m.job = a.job /\ m.payload = a.payload
    BY <1>0, <1>8, WriteShape
  <2>2. a.op \in Updates
    BY <1>0, <2>1, Writing DEF Fits, ClientOps
  <2> QED BY <1>1, <2>1, <2>2
<1>9. CASE WriteFails(w) \/ Save(w)
  <2>1. PICK m \in Task, yes \in BOOLEAN :
          /\ Moves(w, m) /\ a.op \in Updates \cup {"store"} /\ m \in AfterUpdate(a, yes)
    BY <1>0, <1>9, WriteFailsShape, SaveShape
  <2>2. /\ Fits(w, m) /\ m.phase = "load"
        /\ m.op \notin {"dequeue", "publish", "complete"}
        /\ m.payload = "empty" => a.payload = "empty"
    BY <1>0, <2>1, AfterUpdateShape
  <2>3. a.op \in Updates
    BY <1>0, <2>1 DEF Fits, ClientOps
  <2> QED BY <1>1, <2>1, <2>2, <2>3
<1> QED BY <1>3, <1>4, <1>5, <1>6, <1>7, <1>8, <1>9, WorkersStep

(* A cancellation on file stays there while the worker of the job has not come to its end,
   unless that worker writes over it. *)
LEMMA CancelStays ==
  ASSUME Inv, AtHome, AtHome', RecordsStay, [Next]_vars, ~Restart, NEW w \in Workers,
         NEW j \in Jobs, j = task[w].job, task[w].op # "finish",
         task[w].phase \in {"load", "memo"}, Cancelled(disk[Home][j])
  PROVE  Cancelled(disk'[Home][j])
<1>1. ASSUME NEW t \in Threads, Write(t), task[t].job = j,
             disk'[Home][j] = Patched(task[t])
      PROVE  Cancelled(disk'[Home][j])
  <2>1. task[t].phase = "write" /\ t # w
    BY <1>1 DEF Write
  <2>2. task[t].op = "cancel"
    BY <1>1, <2>1, SoleWorker, Parts, Writing DEF Updates
  <2>3. task[t].copy.status # "Completed"
    <3>1. task[w].op \notin ClientOps
      BY Parts DEF Fits
    <3>2. ~Over(j)
      BY <3>1, Parts DEF Over, ClientOps
    <3> QED BY <1>1, <2>1, <3>2, Writing DEF Inv, CompletedIsOver
  <2> QED BY <1>1, <2>1, <2>2, <2>3, Writing, PatchedShape
<1> QED BY <1>1, KeptDisk

(* What a client does next. *)
LEMMA ClientsNext ==
  ASSUME Inv, [Next]_vars, NEW c \in Clients,
         NEW a, a = task[c], NEW k, k = task'[c], k # a, k # Idle
  PROVE  \/ k.op \in {"status", "cancel"} /\ a.op \in {"idle", k.op}
         \/ k.op = "refuse" /\ Starts(a) /\ k.job = a.job
         \/ k.op = "store" /\ k.phase = "write" /\ a.op = "idle" /\ k.job \notin created
         \/ k.op = "store" /\ k.job = a.job /\ a.op = "store" /\ a.phase = "save"
         \/ Write(c) /\ k.op = "store" /\ k.job = a.job /\ a.op = "store" /\ k.job \in Jobs
<1>0. /\ TypeOK /\ TasksFit /\ c \in Threads /\ c \notin Workers /\ Fits(c, a) /\ a \in Task
      /\ task \in [Threads -> Task]
  BY Parts DEF Fits
<1>1. ASSUME NEW t \in Threads, NEW m, Moves(t, m) PROVE t = c /\ m = k
  BY <1>0, <1>1 DEF Moves
<1>2. ASSUME NEW t \in Threads, NEW S, Becomes(t, S) PROVE t = c
  BY <1>1, <1>2 DEF Becomes, Moves
<1>3. ASSUME Load(c) \/ Memo(c)
      PROVE  k.op \in ClientOps /\ k.op = a.op /\ k.job = a.job /\ k.op # "store"
  <2>1. PICK m \in Task : Moves(c, m) /\ Fits(c, m) /\ Goes(a, m) /\ (m.op = a.op \/ m = Idle)
    <3>1. CASE Load(c)
      <4>1. PICK m \in Task :
              /\ Moves(c, m) /\ Fits(c, m) /\ Goes(a, m)
              /\ \/ m.op = a.op
                 \/ /\ \/ a.op \in Reads /\ m \in AfterRead(a, None)
                       \/ a.op \in Updates /\ m \in AfterUpdate(a, FALSE)
        BY <1>0, <3>1, LoadShape
      <4>2. None \in Record \cup {None}
        OBVIOUS
      <4>3. a.op \in Reads /\ m \in AfterRead(a, None) => m = Idle
        BY <1>0, <4>2, AfterReadShape
      <4> DEFINE no == FALSE
      <4>4. a.op \in Updates /\ m \in AfterUpdate(a, no) => m = Idle
        <5>1. no \in BOOLEAN
          OBVIOUS
        <5> HIDE DEF no
        <5> QED BY <1>0, <5>1, AfterUpdateShape
      <4> QED BY <4>1, <4>3, <4>4
    <3>2. CASE Memo(c)
      <4>1. PICK m \in Task :
              /\ Moves(c, m) /\ Fits(c, m) /\ Goes(a, m) /\ a.copy \in Record
              /\ (a.op \in Reads /\ m \in AfterRead(a, a.copy)) \/ m.op = a.op
        BY <1>0, <3>2, MemoShape
      <4>2. a.copy \in Record \cup {None}
        BY <4>1
      <4>3. a.op \in Reads /\ m \in AfterRead(a, a.copy) => m = Idle
        BY <1>0, <4>2, AfterReadShape
      <4> QED BY <4>1, <4>3
    <3> QED BY <1>3, <3>1, <3>2
  <2>2. m = k
    BY <1>0, <1>1, <2>1
  <2>3. a.op # "store"
    <3>1. a.op \in Reads \cup Updates \/ a.phase = "memo"
      BY <1>3 DEF Load, Memo
    <3>2. "store" \notin Reads \cup Updates
      BY DEF Reads, Checks, Updates
    <3> QED BY <1>0, <3>1, <3>2 DEF Fits
  <2> QED BY <1>0, <2>1, <2>2, <2>3 DEF Goes, Fits
<1>4. CASE Load(c) \/ Memo(c)
  BY <1>3, <1>4 DEF ClientOps, Starts
<1>5. CASE Write(c)
  <2>1. PICK m \in Task : Moves(c, m) /\ m.op = a.op /\ m.job = a.job /\ a.phase = "write" /\ a.job \in Jobs
    BY <1>0, <1>5, WriteShape
  <2>2. a.op \in {"cancel", "store", "refuse"}
    BY <1>0, <2>1, Writing
  <2> QED BY <1>0, <1>1, <1>5, <2>1, <2>2 DEF Starts
<1>6. CASE WriteFails(c) \/ Save(c)
  <2>1. PICK m \in Task, yes \in BOOLEAN :
          /\ Moves(c, m) /\ a.op \in Updates \cup {"store"} /\ m \in AfterUpdate(a, yes)
    BY <1>0, <1>6, WriteFailsShape, SaveShape
  <2>2. m = Idle
    BY <1>0, <2>1, AfterUpdateShape
  <2> QED BY <1>0, <1>1, <2>1, <2>2
<1>7. CASE Index(c)
  <2>1. PICK m \in Task : /\ Moves(c, m) /\ m.op = "store" /\ m.job = a.job
                          /\ a.op = "store" /\ a.phase = "save"
    BY <1>0, <1>7, IndexShape
  <2> QED BY <1>0, <1>1, <2>1
<1>8. CASE Submit(c)
  <2>1. CASE Becomes(c, {Idle})
    BY <1>0, <1>1, <2>1 DEF Becomes, Moves
  <2>2. CASE Becomes(c, {Refused(task[c])})
    <3>1. PICK m \in Task : Moves(c, m) /\ m.op = "refuse" /\ m.job = a.job /\ a.op = "store"
      BY <1>0, <1>8, <2>2, RefusedShape DEF Submit
    <3> QED BY <1>0, <1>1, <3>1 DEF Starts
  <2> QED BY <1>8, <2>1, <2>2 DEF Submit
<1>9. ASSUME NEW j \in Jobs, StartJob(c, j)
      PROVE  k.op = "store" /\ k.phase = "write" /\ a.op = "idle" /\ k.job \notin created
  <2>1. PICK m \in Task : /\ Moves(c, m) /\ a.op = "idle" /\ j \notin created
                          /\ m.op = "store" /\ m.phase = "write" /\ m.job = j
    BY <1>0, <1>9, StartShape
  <2> QED BY <1>0, <1>1, <2>1
<1>10. ASSUME NEW j \in Jobs, NEW op \in {"status", "cancel"}, Ask(c, j, op)
       PROVE  k.op \in {"status", "cancel"} /\ a.op = "idle"
  <2>1. PICK m \in Task : Moves(c, m) /\ a.op = "idle" /\ m.op = op
    BY <1>0, <1>10, AskShape
  <2> QED BY <1>0, <1>1, <2>1
<1>11. ASSUME NEW w \in Workers, WorkerStep(w) PROVE FALSE
  <2>1. ~SleepOnQueue(w)
    BY DEF SleepOnQueue
  <2>2. \E S : Becomes(w, S)
    <3>1. CASE StoreCall(w)
      BY <3>1 DEF StoreCall, Load, Memo, Write, WriteFails, Save
    <3> QED BY <1>11, <2>1, <3>1 DEF WorkerStep, TakeJob, FinishJob, Work
  <2> QED BY <1>0, <1>2, <2>2, Parts
<1>12. ~Restart
  BY <1>0 DEF Restart
<1>13. ASSUME NEW d \in Clients, d # c PROVE ~ClientStep(d)
  <2>1. ~ \E S : Becomes(d, S)
    BY <1>2, <1>13, Parts
  <2> QED BY <2>1 DEF ClientStep, StoreCall, Load, Memo, Write, WriteFails, Save, Index, Submit
<1>14. ASSUME NEW d \in Clients, d # c, NEW j \in Jobs
       PROVE  ~StartJob(d, j) /\ ~Ask(d, j, "status") /\ ~Ask(d, j, "cancel")
  <2>1. ~ \E S : Becomes(d, S)
    BY <1>2, <1>14, Parts
  <2> QED BY <2>1 DEF StartJob, Ask
<1>15. \/ ClientStep(c)
       \/ \E j \in Jobs : StartJob(c, j) \/ Ask(c, j, "status") \/ Ask(c, j, "cancel")
  BY <1>11, <1>12, <1>13, <1>14 DEF Next, WakeUp, Tick, SwitchProject, vars
<1> QED BY <1>4, <1>5, <1>6, <1>7, <1>8, <1>9, <1>10, <1>15 DEF ClientStep, StoreCall

(* A queued job, a job that is run and a job just stored have their record. *)
LEMMA NextRecorded ==
  ASSUME Inv, Recorded, AtHome, RecordsStay, [Next]_vars
  PROVE  Recorded'
<1> DEFINE Stored(c) == task[c].op = "store" /\ task[c].phase # "write"
           There(j) == disk'[Home][j] # None
<1>0. /\ TypeOK /\ TasksFit /\ jobsDir = Home /\ Home \in Projects
      /\ task \in [Threads -> Task] /\ Clients \subseteq Threads /\ Workers \subseteq Threads
      /\ Range(pending) \subseteq Jobs /\ holding \in [Workers -> Jobs \cup {NoJob}]
  BY Parts, Bounds DEF AtHome, Placed
<1>1. ASSUME NEW j \in Jobs, j \in Range(pending) \/ \E w \in Workers : holding[w] = j
      PROVE  There(j)
  BY <1>1, Parts DEF Recorded, RecordsStay
<1>2. ASSUME NEW c \in Clients, Stored(c) PROVE There(task[c].job) /\ task[c].job \in Jobs
  <2>1. task[c].job \in Jobs
    BY <1>2, <1>0, Parts DEF Placed
  <2> QED BY <1>2, <2>1 DEF Recorded, RecordsStay
<1>3. (\A j \in Range(pending') : There(j))
      /\ \A w \in Workers : holding'[w] # NoJob => There(holding'[w])
  <2>1. CASE UNCHANGED <<pending, holding>>
    BY <1>0, <1>1, <2>1
  <2>2. ASSUME NEW c \in Clients, Submit(c), Queue!Enqueue(task[c].job)
        PROVE  (\A j \in Range(pending') : There(j)) /\ UNCHANGED holding
    <3>1. Stored(c)
      BY <1>0, <2>2, Parts DEF Submit, Fits, Updates, Reads
    <3>2. PICK i \in 1..Len(pending) + 1 : pending' = InsertAt(pending, i, task[c].job)
      BY <2>2 DEF Queue!Enqueue, Queue!InsertionPoint, Queue!InsertAt, InsertAt
    <3>3. Range(InsertAt(pending, i, task[c].job)) = Range(pending) \cup {task[c].job}
      BY <1>2, <3>1, Parts, InsertAtProperties DEF Placed
    <3> QED BY <1>0, <1>1, <1>2, <2>2, <3>1, <3>2, <3>3 DEF Queue!Enqueue
  <2>3. ASSUME NEW w \in Workers, TakeJob(w) \/ FinishJob(w)
        PROVE  /\ Range(pending') \subseteq Range(pending)
               /\ \A v \in Workers : \/ holding'[v] \in {NoJob, holding[v]}
                                     \/ holding'[v] \in Range(pending)
    <3>1. CASE TakeJob(w)
      BY <1>0, <3>1, TakenShape
    <3>2. CASE FinishJob(w)
      BY <1>0, <3>2 DEF FinishJob, Queue!Finish
    <3> QED BY <2>3, <3>1, <3>2
  <2>4. CASE Restart
    <3>1. pending' = <<>> /\ \A w \in Workers : holding'[w] = NoJob
      BY <2>4 DEF Restart
    <3>2. Range(<<>>) = {}
      BY DEF Range
    <3> QED BY <3>1, <3>2
  <2>5. ASSUME NEW c \in Clients, Submit(c), ~Queue!Enqueue(task[c].job)
        PROVE  UNCHANGED <<pending, holding>>
    BY <2>5 DEF Submit, queueVars
  <2> QED BY <1>0, <1>1, <2>1, <2>2, <2>3, <2>4, <2>5
          DEF Next, ClientStep, WorkerStep, StoreCall, Load, Memo, Write, WriteFails, Save, Index,
              StartJob, Ask, SleepOnQueue, WakeUp, Work, Tick, SwitchProject,
              Queue!Sleep, Queue!WakeSpuriously, vars, queueVars
<1>4. ASSUME NEW c \in Clients, Stored(c)' PROVE There(task'[c].job)
  <2>1. CASE task'[c] = task[c]
    BY <1>2, <1>4, <2>1
  <2>2. CASE task'[c] # task[c] /\ task[c].op = "store" /\ task[c].phase = "save"
             /\ task'[c].job = task[c].job
    BY <1>2, <2>2
  <2>3. CASE Write(c) /\ task'[c].job = task[c].job /\ task[c].job \in Jobs
    <3>1. disk' = [disk EXCEPT ![Home][task[c].job] = Patched(task[c])]
      BY <1>0, <2>3 DEF Write
    <3>2. Patched(task[c]) # None
      BY <1>0, <2>3, Writing, PatchedShape DEF Write
    <3> QED BY <1>0, <2>3, <3>1, <3>2, WriteShape
  <2> QED BY <1>4, <2>1, <2>2, <2>3, ClientsNext, IdleShape
<1> QED BY <1>3, <1>4 DEF Recorded

LEMMA RecordsTyped ==
  ASSUME TypeOK, NEW j \in Jobs
  PROVE  RecordsOf(j) \subseteq Record
<1>1. /\ \A p \in Projects : disk[p][j] \in Record \cup {None}
      /\ mem[j] \in Record \cup {None}
      /\ \A t \in Threads : task[t].copy \in Record \cup {None}
  BY DEF TypeOK, Task
<1> QED BY <1>1 DEF RecordsOf

(* A worker completes a job with a full payload, so the record gets the handle of a job
   that stores an analysis and none of another; no other write gives a record a handle. *)
LEMMA NextExact ==
  ASSUME Inv, Inv', Exact, EmptyIsCancelled, [Next]_vars
  PROVE  Exact'
<1> SUFFICES ASSUME NEW j \in Jobs, NEW r, r \in RecordsOf(j)'
             PROVE  r.result <=> r.status = "Completed" /\ j \in Reports
  BY DEF Exact
<1>1. r.result => r.status = "Completed"
  BY DEF Inv, Honest
<1>2. CASE r \in RecordsOf(j)
  BY <1>2 DEF Exact
<1>3. CASE r \in Plain(j)
  BY <1>3 DEF Plain
<1>4. ASSUME NEW t \in Threads, Write(t), task[t].job = j, r = Patched(task[t]),
             r \notin RecordsOf(j)
      PROVE  r.result <=> r.status = "Completed" /\ j \in Reports
  <2>1. task[t].phase = "write"
    BY <1>4 DEF Write
  <2>2. task[t].copy.status # "Completed" /\ task[t].copy \in RecordsOf(j)
    BY <1>4, <2>1, CompletedCopy, Writing
  <2>3. CASE task[t].op = "complete"
    <3>1. task[t].payload = "full"
      BY <2>1, <2>3, Writing DEF EmptyIsCancelled
    <3>2. r.status = "Completed" /\ r.result = HasHandle(task[t])
      BY <1>4, <2>1, <2>3, Writing, PatchedShape
    <3> QED BY <1>4, <3>1, <3>2 DEF HasHandle
  <2>4. CASE task[t].op # "complete"
    <3>1. r.status # "Completed"
      BY <1>4, <2>1, <2>2, <2>4, Writing, PatchedShape
    <3> QED BY <1>1, <3>1
  <2> QED BY <2>3, <2>4
<1>5. r \in RecordsOf(j) \cup Plain(j)
        \/ \E t \in Threads : Write(t) /\ task[t].job = j /\ r = Patched(task[t])
  BY NewRecords
<1> QED BY <1>2, <1>3, <1>4, <1>5

(* A worker that reads a cancelled record reads what the file says. *)
LEMMA NextCancelSeen ==
  ASSUME Inv, Inv', Recorded, CancelSeen, AtHome, AtHome', RecordsStay, [Next]_vars
  PROVE  CancelSeen'
<1> SUFFICES ASSUME NEW w \in Workers, NEW k, k = task'[w], Cancelled(k.copy), k.phase = "memo"
             PROVE  Cancelled(disk'[Home][k.job])
  BY DEF CancelSeen, Cancelled
<1>1. CASE k = task[w]
  <2>1. Cancelled(disk[Home][k.job]) /\ k.job \in Jobs /\ k.op # "finish"
    <3>1. Fits(w, k) /\ k.op \notin {"idle", "finish", "work"}
      BY <1>1, Parts DEF Fits, Reads, Checks, Updates
    <3>2. k.job \in Jobs
      BY <1>1, <3>1, Parts DEF Fits, Task
    <3> QED BY <1>1, <3>1, <3>2 DEF CancelSeen
  <2>2. ~Restart
    BY <1>1, Parts, IdleShape DEF Restart
  <2> QED BY <1>1, <2>1, <2>2, CancelStays
<1>2. CASE k # task[w]
  BY <1>2, WorkersNext, IdleShape
<1> QED BY <1>1, <1>2

(* An empty payload stays with a job that is cancelled on file, and a full one is published. *)
LEMMA NextEmptyIsCancelled ==
  ASSUME Inv, Inv', Recorded, CancelSeen, EmptyIsCancelled, AtHome, AtHome', RecordsStay,
         [Next]_vars
  PROVE  EmptyIsCancelled'
<1> SUFFICES ASSUME NEW w \in Workers, NEW k, k = task'[w]
             PROVE  /\ k.op \in {"publish", "complete"} => k.payload = "full"
                    /\ k.payload = "empty" =>
                         /\ k.op = "verdict"
                         /\ Cancelled(disk'[Home][k.job])
                         /\ k.phase = "memo" => Cancelled(k.copy)
  BY DEF EmptyIsCancelled, Cancelled
<1> DEFINE a == task[w]
<1>0. /\ a.op \in {"publish", "complete"} => a.payload = "full"
      /\ a.payload = "empty" => /\ a.op = "verdict" /\ Cancelled(disk[Home][a.job])
                                /\ a.phase = "memo" => Cancelled(a.copy)
  BY DEF EmptyIsCancelled
<1>1. a.payload \in Payloads /\ w \in Threads /\ w \notin Clients /\ Fits(w, a)
  BY Parts DEF Fits, Task, Payloads
<1>2. ASSUME a.payload = "empty", ~Restart
      PROVE  Cancelled(disk'[Home][a.job])
  <2>1. a.op = "verdict" /\ a.job \in Jobs /\ a.phase \in {"load", "memo"}
    <3>1. a.op = "verdict"
      BY <1>0, <1>2
    <3>2. "verdict" \in Reads /\ "verdict" \notin Updates
      BY DEF Reads, Checks, Updates
    <3>3. a.phase \in {"load", "memo"} /\ a.job # NoJob /\ a \in Task
      <4> HIDE DEF a
      <4> QED BY <1>1, <3>1, <3>2 DEF Fits
    <3>4. a.job \in Jobs \cup {NoJob}
      <4> HIDE DEF a
      <4> QED BY <3>3 DEF Task
    <3> QED BY <3>1, <3>3, <3>4
  <2> QED BY <1>0, <1>2, <2>1, CancelStays
<1>3. CASE k = Idle
  BY <1>3, IdleShape
<1>4. CASE k = a /\ k # Idle
  <2>1. ~Restart
    BY <1>1, <1>4 DEF Restart
  <2> QED BY <1>0, <1>2, <1>4, <2>1
<1>5. CASE k # a /\ k # Idle
  <2>0. ~Restart
    BY <1>1, <1>5 DEF Restart
  <2>1. CASE /\ k.phase = "memo" /\ k.op = a.op /\ k.job = a.job
             /\ k.payload = a.payload /\ k.copy = disk'[Home][a.job]
    BY <1>0, <1>2, <2>0, <2>1
  <2>2. CASE /\ a.phase = "memo" /\ a.op \in Reads /\ k \in AfterRead(a, a.copy)
             /\ a.copy \in Record /\ k.phase = "load" /\ disk' = disk
    <3>1. /\ k.job = a.job
          /\ a.op \in Checks /\ Cancelled(a.copy) => k.op = "finish" /\ k.payload = "none"
          /\ k.op \in {"publish", "complete"} => k.payload = a.payload
          /\ k.op = "publish" => a.op = "verdict" /\ a.payload # "none"
          /\ k.op = "complete" => a.op = "publish"
          /\ k.payload = "empty" => \/ a.payload = "empty"
                                    \/ a.op = "advance" /\ Cancelled(a.copy) /\ k.op = "verdict"
      <4>1. a.copy \in Record \cup {None}
        BY <2>2
      <4> HIDE DEF a
      <4> QED BY <1>1, <2>2, <4>1, AfterReadShape
    <3>2. a.payload = "empty" => k.op = "finish" /\ k.payload = "none"
      BY <1>0, <2>2, <3>1 DEF Checks
    <3>3. Cancelled(a.copy) => Cancelled(disk'[Home][a.job])
      BY <2>2 DEF CancelSeen
    <3>4. k.op \in {"publish", "complete"} => k.payload = "full"
      BY <1>0, <1>1, <3>1, <3>2 DEF Payloads
    <3> QED BY <2>2, <3>1, <3>2, <3>3, <3>4
  <2>3. CASE k.op = "dequeue" /\ k.payload = "none"
    BY <2>3
  <2>4. CASE a.op \in Updates /\ k.op = a.op /\ k.payload = a.payload
    BY <1>0, <2>4 DEF Updates
  <2>5. CASE /\ a.op \in Updates /\ k.op \notin {"publish", "complete"}
             /\ k.payload = "empty" => a.payload = "empty"
    BY <1>0, <2>5 DEF Updates
  <2>6. CASE /\ a.op = "work"
             /\ \/ k.op = "verdict" /\ k.payload = "full"
                \/ k.op \in {"retry", "giveUp", "advance"} /\ k.payload \in {"none", a.payload}
    BY <1>0, <2>6
  <2> QED BY <1>5, <2>1, <2>2, <2>3, <2>4, <2>5, <2>6, WorkersNext
<1> QED BY <1>3, <1>4, <1>5

(* A worker changes its job by taking another one only. *)
LEMMA NextJobOf ==
  ASSUME Inv, [Next]_vars, NEW w \in Workers, task'[w] # Idle, task'[w].job # task[w].job
  PROVE  task'[w].op = "dequeue" /\ task'[w].phase = "load"
<1>0. TypeOK /\ TasksFit /\ w \in Threads /\ w \notin Clients /\ task \in [Threads -> Task]
  BY Parts
<1>1. ASSUME NEW m, Moves(w, m) PROVE m = task'[w]
  BY <1>0, <1>1 DEF Moves
<1>2. CASE TakeJob(w)
  BY <1>1, <1>2, TakenShape
<1>3. CASE FinishJob(w)
  BY <1>1, <1>3 DEF FinishJob, Becomes, Moves
<1>4. CASE Work(w) \/ Load(w) \/ Memo(w) \/ Write(w) \/ WriteFails(w) \/ Save(w)
  <2>1. PICK m \in Task : Moves(w, m) /\ Goes(task[w], m)
    BY <1>0, <1>4, WorkShape, LoadShape, MemoShape, WriteShape, WriteFailsShape, SaveShape
  <2> QED BY <1>1, <2>1 DEF Goes
<1> QED BY <1>2, <1>3, <1>4, WorkersStep

(* A job cancelled in the queue is dropped ... *)
LEMMA DropsQueued ==
  ASSUME Inv, AtHome, AtHome', [Next]_vars, NEW t \in Threads, Write(t), task[t].op = "cancel",
         Cancelled(Patched(task[t])), NEW j, j = task[t].job, j \in Range(pending)
  PROVE  Dropped(j)'
<1>0. /\ TypeOK /\ TasksFit /\ jobsDir = Home /\ jobsDir' = Home /\ Home \in Projects
      /\ t \in Clients /\ j \in Jobs
  <2>1. task[t].op \in ClientOps /\ j # NoJob
    BY Parts DEF ClientOps, Fits
  <2>2. t \in Clients
    BY <2>1, Parts DEF Fits
  <2> QED BY <2>1, <2>2, Parts, Bounds DEF AtHome, Fits, Task
<1>1. PICK k \in Task :
        /\ Moves(t, k) /\ Fits(t, k) /\ k.op = task[t].op /\ k.job = j
        /\ k.copy = Patched(task[t])
        /\ \A p \in Projects : \A i \in Jobs :
             disk'[p][i] = IF p = jobsDir /\ i = k.job THEN k.copy ELSE disk[p][i]
  BY <1>0, WriteShape
<1>2. Cancelled(disk'[Home][j])
  BY <1>0, <1>1
<1>3. ASSUME NEW r, r \in RecordsOf(j)' PROVE r.status # "Completed"
  <2>1. ~Over(j)
    BY DEF Over
  <2>2. r \in RecordsOf(j) => r.status # "Completed"
    BY <1>0, <2>1 DEF Inv, CompletedIsOver
  <2>3. ASSUME NEW u \in Threads, Write(u) PROVE u = t
    <3>1. task[u].phase = "write" /\ task'[u].phase = "save"
      <4>1. PICK m \in Task : Moves(u, m) /\ task[u].phase = "write" /\ m.phase = "save"
        BY <1>0, <2>3, WriteShape
      <4> QED BY <4>1, Parts DEF Moves
    <3>2. \A v \in Threads : v # t => task'[v] = task[v]
      BY <1>0, <1>1, MoveShape
    <3> QED BY <3>1, <3>2
  <2> QED BY <1>0, <1>3, <2>2, <2>3, NewRecords DEF Plain, Cancelled
<1>4. \A u \in Threads : task[u].job = j => task[u].op \in {"status", "cancel"}
  <2> SUFFICES ASSUME NEW u \in Threads, task[u].job = j PROVE task[u].op \in {"status", "cancel"}
    OBVIOUS
  <2>1. u \notin Workers
    BY Parts DEF Placed
  <2>2. u \in Clients /\ ~Starts(task[u]) /\ task[u].op # "idle"
    BY <1>0, <2>1, Parts DEF Placed, Threads
  <2> QED BY <2>2, Parts DEF Fits, Starts, ClientOps
<1>5. \A u \in Threads : task'[u] = IF u = t THEN k ELSE task[u]
  BY <1>0, <1>1, MoveShape
<1> QED BY <1>1, <1>2, <1>3, <1>4, <1>5 DEF Dropped, Cancelled

(* ... and stays so. *)
LEMMA StaysDropped ==
  ASSUME Inv, Inv', Recorded, AtHome, AtHome', RecordsStay, [Next]_vars,
         NEW j \in Jobs, j \in created, Dropped(j)
  PROVE  Dropped(j)'
<1>0. /\ TypeOK /\ TasksFit /\ jobsDir = Home /\ jobsDir' = Home /\ Home \in Projects
      /\ disk[Home][j] # None
  BY Parts, Bounds DEF AtHome, Dropped, Cancelled
<1>1. ASSUME NEW t \in Threads, Write(t), task[t].job = j PROVE Cancelled(Patched(task[t]))
  <2>1. task[t].phase = "write" /\ task[t].op \in {"status", "cancel", "finish", "dequeue"}
    BY <1>1 DEF Write, Dropped
  <2>2. task[t].op = "cancel" /\ task[t].copy.status # "Completed"
    BY <1>1, <2>1, Writing DEF Dropped, Updates
  <2> QED BY <2>1, <2>2, Writing, PatchedShape
<1>2. Cancelled(disk'[Home][j])
  <2>1. CASE Restart
    <3>1. disk[Home][j].status \notin Active
      BY DEF Dropped, Cancelled, Active
    <3>2. disk'[Home][j] \in {None, disk[Home][j]}
      BY <2>1, <3>1, RestartShape
    <3> QED BY <1>0, <3>2 DEF RecordsStay, Dropped
  <2>2. CASE ~Restart
    BY <1>1, <2>2, KeptDisk DEF Dropped
  <2> QED BY <2>1, <2>2
<1>3. ASSUME NEW r, r \in RecordsOf(j)' PROVE r.status # "Completed"
  BY <1>1, <1>3, NewRecords DEF Plain, Cancelled, Dropped
<1>4. ASSUME NEW t \in Threads, task'[t].job = j
      PROVE  \/ task'[t].op \in {"status", "cancel", "finish"}
             \/ task'[t].op = "dequeue" /\ (task'[t].phase = "memo" => Cancelled(task'[t].copy))
  <2> DEFINE a == task[t]
             k == task'[t]
  <2>1. k # Idle
    BY <1>4, IdleShape, Parts
  <2>2. CASE k = a
    BY <1>4, <2>2 DEF Dropped
  <2>3. CASE k # a /\ t \in Clients
    <3>1. ASSUME a.job = j PROVE a.op # "store" /\ ~Starts(a)
      BY <3>1 DEF Dropped, Starts
    <3> QED BY <1>4, <2>1, <2>3, <3>1, ClientsNext
  <2>4. CASE k # a /\ t \in Workers
    <3>1. CASE k.op = "dequeue" /\ k.phase = "load"
      BY <3>1
    <3>2. CASE a.job = j
      <4>1. a.op \in {"finish", "dequeue"} /\ (a.op = "dequeue" /\ a.phase = "memo" => Cancelled(a.copy))
        BY <2>4, <3>2, Parts DEF Dropped, Fits, ClientOps
      <4>2. a.op \notin Updates \cup {"work"}
        BY <4>1 DEF Updates
      <4>3. CASE k.phase = "memo" /\ k.op = a.op /\ k.copy = disk'[Home][a.job] /\ a.phase = "load"
        <5>1. a.op # "finish"
          <6>1. Fits(t, k)
            BY <2>1, <2>4, WorkersNext
          <6>2. "finish" \notin Reads \cup Updates \cup {"store"}
            BY DEF Reads, Checks, Updates
          <6> HIDE DEF a, k
          <6> QED BY <4>3, <6>1, <6>2 DEF Fits
        <5> QED BY <1>2, <3>2, <4>1, <4>3, <5>1
      <4>4. CASE a.phase = "memo" /\ a.op \in Reads /\ k \in AfterRead(a, a.copy) /\ a.copy \in Record
        <5>1. a.op = "dequeue" /\ Cancelled(a.copy)
          BY <4>1, <4>4 DEF Reads, Checks
        <5>2. a.copy \in Record \cup {None} /\ Fits(t, a)
          BY <4>4, Parts
        <5> HIDE DEF a, k
        <5>3. k.op = "finish"
          BY <4>4, <5>1, <5>2, AfterReadShape DEF Checks
        <5> QED BY <5>3 DEF k
      <4> QED BY <2>1, <2>4, <3>1, <4>2, <4>3, <4>4, WorkersNext
    <3>3. CASE a.job # j
      BY <1>4, <2>1, <2>4, <3>1, <3>3, NextJobOf
    <3> QED BY <3>1, <3>2, <3>3
  <2> QED BY <2>2, <2>3, <2>4 DEF Threads
<1> QED BY <1>2, <1>3, <1>4 DEF Dropped, Cancelled

LEMMA NextDroppedStays ==
  ASSUME Inv, Inv', Recorded, DroppedStays, AtHome, AtHome', RecordsStay, [Next]_vars
  PROVE  DroppedStays'
<1> SUFFICES ASSUME NEW j, j \in dropped' PROVE Dropped(j)'
  BY DEF DroppedStays
<1>1. CASE j \in dropped
  <2>1. j \in created /\ j \in Jobs
    BY <1>1, Parts DEF TypeOK
  <2> QED BY <1>1, <2>1, StaysDropped DEF DroppedStays
<1>2. CASE j \notin dropped
  <2>1. PICK t \in Threads : Write(t)
    BY <1>2, Parts
       DEF Next, ClientStep, WorkerStep, StoreCall, Load, Memo, WriteFails, Save, Index, Submit,
           StartJob, Ask, TakeJob, SleepOnQueue, WakeUp, FinishJob, Work, Tick, SwitchProject,
           Restart, vars, history
  <2>2. /\ j = task[t].job /\ task[t].op = "cancel" /\ Cancelled(Patched(task[t]))
        /\ j \in Range(pending)
    BY <1>2, <2>1 DEF Write
  <2> QED BY <2>1, <2>2, DropsQueued
<1> QED BY <1>1, <1>2

LEMMA NextKept ==
  ASSUME Inv, Inv', KeptInv, AtHome, AtHome', RecordsStay, [Next]_vars
  PROVE  KeptInv'
BY NextOnlyHome, NextRecorded, NextExact, NextCancelSeen, NextEmptyIsCancelled,
   NextDroppedStays DEF KeptInv

LEMMA InitKept == Init => KeptInv
<1> SUFFICES ASSUME Init PROVE KeptInv
  OBVIOUS
<1>1. /\ Range(pending) = {} /\ \A w \in Workers : holding[w] = NoJob
      /\ \A t \in Threads : task[t] = Idle
      /\ Clients \subseteq Threads /\ Workers \subseteq Threads
  BY InitShape DEF Threads, Range
<1>2. OnlyHome /\ Exact /\ DroppedStays
  BY InitShape DEF OnlyHome, Exact, DroppedStays
<1>3. Recorded
  BY <1>1, IdleShape DEF Recorded
<1>4. CancelSeen /\ EmptyIsCancelled
  BY <1>1, IdleShape DEF CancelSeen, EmptyIsCancelled
<1> QED BY <1>2, <1>3, <1>4 DEF KeptInv

(* While the store stays in its directory and no record is removed. *)
LEMMA KeptHolds == Spec /\ []AtHome /\ [][RecordsStay]_vars => []KeptInv
<1>1. Inv /\ Inv' /\ KeptInv /\ AtHome /\ AtHome' /\ [RecordsStay]_vars /\ [Next]_vars => KeptInv'
  <2> SUFFICES ASSUME Inv, Inv', KeptInv, AtHome, AtHome', [RecordsStay]_vars, [Next]_vars
               PROVE  KeptInv'
    OBVIOUS
  <2>1. RecordsStay
    BY DEF RecordsStay, vars, storeVars
  <2> QED BY <2>1, NextKept
<1> QED BY <1>1, InvHolds, InitKept, PTL DEF Spec

(* A job cancelled while it waits in the queue is never run, whichever way the threads'
   reads and writes of its record interleave, and over restarts. *)
THEOREM CancelledJobsNeverRun ==
  Spec /\ []AtHome /\ [][RecordsStay]_vars => []CancelledWhileQueuedNeverRuns
<1>1. Inv /\ KeptInv => CancelledWhileQueuedNeverRuns
  <2> SUFFICES ASSUME Inv, KeptInv, NEW j, j \in dropped
               PROVE  /\ \A p \in Projects : /\ Settled(disk[p][j])
                                             /\ disk[p][j] # None => Cancelled(disk[p][j])
                      /\ \A w \in Workers : task[w].job = j => task[w].op \in {"dequeue", "finish"}
    BY DEF CancelledWhileQueuedNeverRuns
  <2>1. Dropped(j) /\ j \in Jobs
    BY Parts DEF KeptInv, DroppedStays, TypeOK
  <2>2. \A p \in Projects : disk[p][j] = None \/ Cancelled(disk[p][j])
    BY <2>1 DEF Dropped, KeptInv, OnlyHome
  <2>3. \A w \in Workers : task[w].job = j => task[w].op \in {"dequeue", "finish"}
    BY <2>1, Parts DEF Dropped, Fits, ClientOps
  <2> QED BY <2>2, <2>3 DEF Settled, Cancelled, Terminal
<1> QED BY <1>1, InvHolds, KeptHolds, PTL

(* A record shows a result exactly when it says "completed" and its job stores an
   analysis: a completed report shows it, and an attempt that a cancellation
   stopped early returns an empty payload, and the worker that sees it finds the
   cancellation on file before it could publish it. *)
THEOREM ResultsAreExact ==
  Spec /\ []AtHome /\ [][RecordsStay]_vars => []ResultIffReportCompleted
<1>1. KeptInv => ResultIffReportCompleted
  BY RecordsAre DEF KeptInv, Exact, ResultIffReportCompleted
<1> QED BY <1>1, KeptHolds, PTL

(* A store whose project is never switched stays in its directory. *)
THEOREM WithoutSwitchesAtHome ==
  ASSUME MaxSwitches = 0
  PROVE  Spec => []AtHome
<1>1. Init => AtHome
  BY InitShape DEF AtHome
<1>2. ASSUME Inv, AtHome, [Next]_vars PROVE AtHome'
  <2>1. ASSUME NEW p \in Projects PROVE ~SwitchProject(p)
    BY <1>2, Parts DEF SwitchProject, TypeOK
  <2> QED BY <1>2, <2>1
       DEF AtHome, Next, ClientStep, WorkerStep, StoreCall, Load, Memo, Write, WriteFails, Save,
           Index, Submit, StartJob, Ask, TakeJob, SleepOnQueue, WakeUp, FinishJob, Work, Tick,
           Restart, vars, storeVars
<1> QED BY <1>1, <1>2, InvHolds, PTL DEF Spec

(***************************************************************************)
(* While the store has room: the clock never passes the age of removal and *)
(* the store keeps as many jobs as there are.                              *)
(***************************************************************************)
Roomy ==
  /\ MaxSwitches = 0 /\ MaxClock <= TTL
  /\ IsFiniteSet(Jobs) /\ Cardinality(Jobs) <= MaxJobs

Storing(k) == k.op = "store" /\ k.phase \in {"write", "save"}

(* The order names each created job at most once, and none whose first record is still
   to be put in it; what a thread saves was read at home and is on file. *)
RoomInv ==
  /\ IsInjective(order) /\ Range(order) \subseteq created
  /\ \A c \in Clients : Storing(task[c]) => task[c].job \notin Range(order)
  /\ \A t \in Threads : task[t].copy # None => task[t].dir = Home
  /\ \A t \in Threads : task[t].phase = "save" => disk[Home][task[t].job] # None

LEMMA NothingForgotten ==
  ASSUME Roomy, TypeOK, NEW s \in Seq(Jobs), IsInjective(s),
         NEW m \in [Jobs -> Record \cup {None}], Prune(s, m)
  PROVE  disk' = disk /\ Range(order') = Range(s) /\ IsInjective(order')
<1>0. /\ disk \in [Projects -> [Jobs -> Record \cup {None}]] /\ jobsDir \in Projects
      /\ now \in 0..MaxClock /\ MaxClock \in Nat /\ MaxJobs \in Nat /\ TTL \in Nat
  BY Bounds, JobsAssumption DEF TypeOK
<1>1. ASSUME NEW r \in Record \cup {None} PROVE ~Expired(r)
  <2>1. CASE r = None
    BY <2>1 DEF Expired
  <2>2. CASE r \in Record
    <3>1. r.at \in 0..MaxClock
      BY <2>2 DEF Record
    <3> QED BY <1>0, <3>1 DEF Expired, Roomy
  <2> QED BY <2>1, <2>2
<1>2. Fresh(disk[jobsDir]) = disk[jobsDir]
  <2>1. disk[jobsDir] \in [Jobs -> Record \cup {None}]
    BY <1>0
  <2>2. \A j \in Jobs : ~Expired(disk[jobsDir][j])
    BY <1>1, <2>1
  <2> QED BY <2>1, <2>2 DEF Fresh
<1>3. Forgotten(s, m) = {}
  <2> DEFINE rest == Dropping(s, {})
  <2>1. {j \in Jobs : Expired(m[j])} = {}
    BY <1>1
  <2>2. rest \in Seq(Jobs) /\ IsInjective(rest)
    <3>1. Jobs \ {} = Jobs
      OBVIOUS
    <3> QED BY <3>1, DroppingProperties
  <2> HIDE DEF rest
  <2>3. Len(rest) \in Nat /\ Len(rest) <= Cardinality(Jobs)
    <3>1. Len(rest) \in Nat /\ rest \in [1..Len(rest) -> Jobs] /\ DOMAIN rest = 1..Len(rest)
      BY <2>2, LenProperties
    <3>2. rest \in Injection(1..Len(rest), Jobs)
      BY <2>2, <3>1 DEF Injection, IsInjective
    <3>3. Cardinality(1..Len(rest)) <= Cardinality(Jobs)
      BY <3>2, FS_Injection DEF Roomy
    <3>4. Cardinality(1..Len(rest)) = Len(rest)
      <4> DEFINE n == Len(rest)
      <4>1. n \in Int /\ n >= 0 /\ 1 \in Int
        BY <3>1
      <4> HIDE DEF n
      <4>2. Cardinality(1..n) = IF 1 > n THEN 0 ELSE n - 1 + 1
        BY <4>1, FS_Interval
      <4>3. Cardinality(1..n) = n
        BY <4>1, <4>2
      <4> QED BY <4>3 DEF n
    <3> QED BY <3>1, <3>3, <3>4
  <2>4. Cardinality(Jobs) \in Nat
    BY FS_CardinalityType DEF Roomy
  <2>5. 1..Len(rest) - MaxJobs = {}
    BY <1>0, <2>3, <2>4 DEF Roomy
  <2> QED BY <2>1, <2>5 DEF Forgotten, rest
<1>4. /\ disk' = [disk EXCEPT ![jobsDir] = [j \in Jobs |-> disk[jobsDir][j]]]
      /\ order' = Dropping(s, {})
  <2>1. /\ disk' = [disk EXCEPT ![jobsDir] =
                      [j \in Jobs |-> IF j \in Forgotten(s, m) THEN None
                                      ELSE Fresh(disk[jobsDir])[j]]]
        /\ order' = Dropping(s, Forgotten(s, m))
    BY <1>0 DEF Prune
  <2> QED BY <1>2, <1>3, <2>1
<1>5. disk' = disk
  <2>1. disk[jobsDir] = [j \in Jobs |-> disk[jobsDir][j]]
    BY <1>0
  <2> QED BY <1>0, <1>4, <2>1
<1>6. Range(Dropping(s, {})) = Range(s) \ {} /\ IsInjective(Dropping(s, {}))
  BY DroppingProperties
<1> QED BY <1>4, <1>5, <1>6

(* Startup repairs records, it removes none of an age that is kept. *)
LEMMA RestartKeepsRoom ==
  ASSUME Roomy, Inv, Restart
  PROVE  /\ \A j \in Jobs : disk[Home][j] # None => disk'[Home][j] # None
         /\ IsInjective(order') /\ Range(order') \subseteq created'
<1> DEFINE failed(j) == [disk[Home][j] EXCEPT !.status = "Error", !.at = now]
<1>1. PICK repaired \in SUBSET {j \in Jobs : Interrupted(disk[Home][j], j)} :
        /\ disk' = [disk EXCEPT ![Home] =
                      Fresh([j \in Jobs |-> IF j \in repaired THEN failed(j) ELSE @[j]])]
        /\ order' \in {s \in [1..Cardinality(repaired) -> repaired] : IsInjective(s)}
  BY DEF Restart
<1>2. /\ disk \in [Projects -> [Jobs -> Record \cup {None}]] /\ now \in 0..MaxClock
      /\ MaxClock \in Nat /\ TTL \in Nat /\ Home \in Projects /\ created' = created
  BY Bounds, JobsAssumption DEF Inv, TypeOK, Restart
<1>3. ASSUME NEW j \in repaired PROVE j \in created /\ failed(j) \in Record
  <2>1. j \in Jobs /\ disk[Home][j] # None
    BY <1>1 DEF Interrupted
  <2>2. disk[Home][j] \in RecordsOf(j)
    BY <1>2, <2>1 DEF RecordsOf
  <2>3. disk[Home][j] \in Record
    BY <1>2, <2>1
  <2> DEFINE r == disk[Home][j]
  <2>4. [r EXCEPT !.status = "Error", !.at = now] \in Record
    <3> HIDE DEF r
    <3> QED BY <1>2, <2>3 DEF Record, Terminal, r
  <2> QED BY <2>1, <2>2, <2>4 DEF Inv, Known
<1> HIDE DEF failed
<1> DEFINE files == [j \in Jobs |-> IF j \in repaired THEN failed(j) ELSE disk[Home][j]]
<1>4. disk' = [disk EXCEPT ![Home] = Fresh(files)]
  BY <1>1, <1>2
<1>5. ASSUME NEW j \in Jobs, disk[Home][j] # None PROVE disk'[Home][j] # None
  <2>1. files[j] \in Record
    BY <1>2, <1>3, <1>5
  <2>2. files[j].at \in 0..MaxClock /\ files[j] # None
    BY <2>1, NoneIsNoRecord DEF Record
  <2> HIDE DEF files
  <2>3. ~Expired(files[j])
    BY <1>2, <2>2 DEF Expired, Roomy
  <2>4. disk'[Home][j] = files[j]
    BY <1>2, <1>4, <2>3 DEF Fresh
  <2> QED BY <2>2, <2>4
<1>6. Range(order') \subseteq created
  BY <1>1, <1>3 DEF Range
<1> QED BY <1>1, <1>2, <1>5, <1>6

(* The file a thread's copy was read from is the one at home. *)
LEMMA ReadAtHome ==
  ASSUME Inv, AtHome, NEW t \in Threads, StoreCall(t) \/ Index(t),
         task[t].copy # None => task[t].dir = Home
  PROVE  task'[t].copy # None => task'[t].dir = Home
<1>0. TypeOK /\ TasksFit /\ task \in [Threads -> Task] /\ task[t] \in Task /\ Fits(t, task[t])
  BY Parts
<1>1. CASE Load(t)
  <2> DEFINE a == task[t]
             r == Latest(disk'[jobsDir], mem', a.job)
  <2>1. PICK k \in Task :
          /\ Moves(t, k)
          /\ \/ k.phase = "memo" /\ k.copy = r
             \/ k.phase = "load" /\ k.copy = None
    BY <1>0, <1>1, LoadShape
  <2>2. task'[t] = k
    BY <1>0, <2>1 DEF Moves
  <2>3. CASE r # None
    <3>1. task'[t] = [a EXCEPT !.phase = "memo", !.copy = r, !.dir = jobsDir]
      BY <1>0, <1>1, <2>3 DEF Load, Becomes
    <3> HIDE DEF r
    <3> QED BY <1>0, <3>1 DEF AtHome, Task
  <2> QED BY <2>1, <2>2, <2>3
<1>2. CASE Memo(t)
  <2>1. PICK k \in Task :
          /\ Moves(t, k)
          /\ \/ k.phase = "load" /\ k.copy = None
             \/ task[t].op \in Updates
    BY <1>0, <1>2, MemoShape
  <2>2. task'[t] = k
    BY <1>0, <2>1 DEF Moves
  <2>3. CASE task[t].op \in Updates
    <3>1. task[t].op \notin Reads
      BY <2>3 DEF Updates, Reads, Checks
    <3>2. task'[t] = [task[t] EXCEPT !.phase = "write"]
      BY <1>0, <1>2, <3>1 DEF Memo, Becomes
    <3> QED BY <1>0, <3>2 DEF Task
  <2> QED BY <2>1, <2>2, <2>3
<1>3. CASE Write(t)
  <2>1. task'[t] = [task[t] EXCEPT !.phase = "save", !.copy = Patched(task[t])]
    BY <1>0, <1>3 DEF Write, Becomes
  <2>2. task[t].copy # None
    BY <1>0, <1>3 DEF Write, Fits
  <2> QED BY <1>0, <2>1, <2>2 DEF Task
<1>4. CASE WriteFails(t) \/ Save(t) \/ Index(t)
  <2>1. PICK k \in Task : Moves(t, k) /\ k.copy = None
    <3>1. CASE WriteFails(t)
      BY <1>0, <3>1, WriteFailsShape
    <3>2. CASE Save(t)
      BY <1>0, <3>2, SaveShape DEF Fits
    <3>3. CASE Index(t)
      BY <1>0, <3>3, IndexShape
    <3> QED BY <1>4, <3>1, <3>2, <3>3
  <2> QED BY <1>0, <2>1 DEF Moves
<1> QED BY <1>1, <1>2, <1>3, <1>4 DEF StoreCall

LEMMA MoveKeepsRoom ==
  ASSUME Inv, RoomInv, NEW t \in Threads, NEW k, Moves(t, k),
         \A j \in Jobs : disk[Home][j] # None => disk'[Home][j] # None,
         IsInjective(order'), Range(order') \subseteq created',
         \A c \in Clients \ {t} : Storing(task[c]) => task[c].job \notin Range(order'),
         Storing(k) => k.job \notin Range(order'),
         k.copy # None => k.dir = Home,
         k.phase = "save" => disk'[Home][k.job] # None
  PROVE  RoomInv'
<1>1. task \in [Threads -> Task] /\ Clients \subseteq Threads
  BY Parts
<1>2. \A u \in Threads : task'[u] = IF u = t THEN k ELSE task[u]
  BY <1>1 DEF Moves
<1>3. \A c \in Clients : Storing(task'[c]) => task'[c].job \notin Range(order')
  BY <1>1, <1>2
<1>4. \A u \in Threads : task'[u].copy # None => task'[u].dir = Home
  BY <1>2 DEF RoomInv
<1>5. \A u \in Threads : task'[u].phase = "save" => disk'[Home][task'[u].job] # None
  <2> SUFFICES ASSUME NEW u \in Threads, task'[u].phase = "save", u # t
               PROVE  disk'[Home][task'[u].job] # None
    BY <1>2
  <2>1. task'[u] = task[u] /\ disk[Home][task[u].job] # None
    BY <1>2 DEF RoomInv
  <2>2. task[u].job \in Jobs
    <3>1. task[u] \in Task /\ Fits(u, task[u]) /\ task[u].phase = "save"
      BY <1>1, <2>1, Parts
    <3>2. task[u].op # "idle"
      BY <3>1 DEF Fits, Reads, Checks, Updates
    <3> QED BY <3>1, <3>2, Parts DEF Task
  <2> QED BY <2>1, <2>2
<1> QED BY <1>3, <1>4, <1>5 DEF RoomInv, Storing

LEMMA CallKeepsRoom ==
  ASSUME Roomy, Inv, RoomInv, AtHome, AtHome', NEW t \in Threads, StoreCall(t) \/ Index(t)
  PROVE  RoomInv' /\ \A j \in Jobs : disk[Home][j] # None => disk'[Home][j] # None
<1>0. /\ TypeOK /\ TasksFit /\ Fits(t, task[t]) /\ task \in [Threads -> Task] /\ t \in Threads
      /\ jobsDir = Home /\ jobsDir' = Home /\ Home \in Projects /\ Placed /\ created \subseteq Jobs
      /\ order \in Seq(Jobs) /\ mem \in [Jobs -> Record \cup {None}]
      /\ IsInjective(order) /\ Range(order) \subseteq created
      /\ task[t].op = "store" => t \in Clients
      /\ \A c \in Clients : Storing(task[c]) => task[c].job \notin Range(order)
  BY Parts, Bounds DEF AtHome, RoomInv, TypeOK, Fits, ClientOps
<1>1. task'[t].copy # None => task'[t].dir = Home
  BY ReadAtHome DEF RoomInv
<1>2. created' = created
  BY DEF StoreCall, Load, Memo, Write, WriteFails, Save, Index, history
<1>3. ASSUME NEW k, Moves(t, k) PROVE task'[t] = k
  BY <1>0, <1>3 DEF Moves
<1>4. CASE Load(t)
  <2>1. PICK k \in Task :
          /\ Moves(t, k) /\ Fits(t, k)
          /\ k.phase \in {"memo", "load"}
    BY <1>0, <1>4, LoadShape
  <2>2. disk' = disk /\ Range(order') = Range(order) /\ IsInjective(order')
    BY <1>0, <1>4, NothingForgotten DEF Load
  <2> QED BY <1>0, <1>1, <1>2, <1>3, <2>1, <2>2, MoveKeepsRoom DEF Storing
<1>5. CASE Memo(t)
  <2>1. PICK k \in Task :
          /\ Moves(t, k) /\ Fits(t, k)
          /\ k.phase # "save" /\ ~Storing(k)
    BY <1>0, <1>5, MemoShape DEF Storing, Updates
  <2>2. disk' = disk /\ order' = order
    BY <1>5 DEF Memo
  <2> QED BY <1>0, <1>1, <1>2, <1>3, <2>1, <2>2, MoveKeepsRoom
<1>6. CASE Write(t)
  <2>1. PICK k \in Task :
          /\ Moves(t, k) /\ Fits(t, k)
          /\ task[t].job \in Jobs /\ task[t].phase = "write"
          /\ k.phase = "save" /\ k.op = task[t].op /\ k.job = task[t].job
          /\ k.copy \in Record
          /\ \A p \in Projects : \A j \in Jobs :
               disk'[p][j] = IF p = jobsDir /\ j = k.job THEN k.copy ELSE disk[p][j]
    BY <1>0, <1>6, WriteShape
  <2>2. order' = order /\ k.copy # None
    BY <1>6, <2>1, NoneIsNoRecord DEF Write
  <2>3. \A j \in Jobs : disk'[Home][j] = IF j = k.job THEN k.copy ELSE disk[Home][j]
    BY <1>0, <2>1
  <2>4. Storing(k) => k.job \notin Range(order')
    BY <1>0, <2>1, <2>2 DEF Storing
  <2> QED BY <1>0, <1>1, <1>2, <1>3, <2>1, <2>2, <2>3, <2>4, MoveKeepsRoom
<1>7. CASE WriteFails(t)
  <2>1. PICK k \in Task : Moves(t, k) /\ Fits(t, k) /\ k.phase = "load"
    BY <1>0, <1>7, WriteFailsShape
  <2>2. disk' = disk /\ order' = order
    BY <1>7 DEF WriteFails, storeVars
  <2> QED BY <1>0, <1>1, <1>2, <1>3, <2>1, <2>2, MoveKeepsRoom DEF Storing
<1>8. CASE Save(t)
  <2>1. PICK k \in Task :
          Moves(t, k) /\ Fits(t, k) /\ k.phase = "load" /\ task[t].phase = "save"
    BY <1>0, <1>8, SaveShape
  <2>2. task[t].dir = Home /\ disk[Home][task[t].job] # None
    <3>1. task[t].copy # None
      BY <1>0, <2>1 DEF Fits
    <3> QED BY <2>1, <3>1 DEF RoomInv
  <2>3. disk' = disk /\ order' = order
    BY <1>8, <2>2 DEF Save
  <2> QED BY <1>0, <1>1, <1>2, <1>3, <2>1, <2>3, MoveKeepsRoom DEF Storing
<1>9. CASE Index(t)
  <2> DEFINE a == task[t]
             s == Append(order, a.job)
             m == [mem EXCEPT ![a.job] = a.copy]
  <2>1. PICK k \in Task :
          /\ Moves(t, k) /\ Fits(t, k) /\ k.phase = "enqueue"
          /\ a.op = "store" /\ a.phase = "save" /\ a.job \in Jobs /\ a.copy \in Record
    BY <1>0, <1>9, IndexShape
  <2>2. t \in Clients /\ a.job \in created /\ a.job \notin Range(order)
    BY <1>0, <2>1, Bounds DEF Storing, Placed
  <2>3. Prune(s, m)
    BY <1>9 DEF Index
  <2>4. s \in Seq(Jobs) /\ IsInjective(s) /\ Range(s) = Range(order) \cup {a.job}
    <3> HIDE DEF a
    <3>1. /\ s \in Seq(Jobs) /\ Len(order) \in Nat /\ DOMAIN order = 1..Len(order)
          /\ DOMAIN s = 1..Len(order) + 1 /\ s[Len(order) + 1] = a.job
          /\ \A i \in 1..Len(order) : s[i] = order[i]
      BY <1>0, <2>1, LenProperties, AppendProperties
    <3>2. \A i \in DOMAIN order : order[i] # a.job
      BY <2>2 DEF Range
    <3>3. IsInjective(s)
      BY <1>0, <3>1, <3>2 DEF IsInjective
    <3>4. Range(s) = Range(order) \cup {a.job}
      BY <3>1 DEF Range
    <3> QED BY <3>1, <3>3, <3>4
  <2>5. m \in [Jobs -> Record \cup {None}]
    BY <1>0, <2>1
  <2> HIDE DEF s, m
  <2>6. disk' = disk /\ Range(order') = Range(order) \cup {a.job} /\ IsInjective(order')
    BY <1>0, <2>3, <2>4, <2>5, NothingForgotten
  <2>7. \A c \in Clients \ {t} : Storing(task[c]) => task[c].job # a.job
    BY <1>0, <2>1, <2>2 DEF Placed, Storing, Starts
  <2> QED BY <1>0, <1>1, <1>2, <1>3, <2>1, <2>2, <2>6, <2>7, MoveKeepsRoom DEF Storing
<1> QED BY <1>4, <1>5, <1>6, <1>7, <1>8, <1>9 DEF StoreCall

LEMMA NextKeepsRoom ==
  ASSUME Roomy, Inv, RoomInv, AtHome, AtHome', [Next]_vars
  PROVE  RoomInv' /\ \A j \in Jobs : disk[Home][j] # None => disk'[Home][j] # None
<1> DEFINE Goal == RoomInv' /\ \A j \in Jobs : disk[Home][j] # None => disk'[Home][j] # None
<1>0. /\ TypeOK /\ TasksFit /\ Clients \subseteq Threads /\ Workers \subseteq Threads
      /\ task \in [Threads -> Task] /\ created \subseteq Jobs
      /\ IsInjective(order) /\ Range(order) \subseteq created
      /\ \A c \in Clients : Storing(task[c]) => task[c].job \notin Range(order)
  BY Parts DEF RoomInv
<1>1. ASSUME NEW t \in Threads, NEW k, Moves(t, k), k.phase = "load", k.copy = None,
             UNCHANGED <<storeVars, created>>
      PROVE  Goal
  <2>1. disk' = disk /\ order' = order /\ created' = created
    BY <1>1 DEF storeVars
  <2> QED BY <1>0, <1>1, <2>1, MoveKeepsRoom DEF Storing
<1>2. ASSUME UNCHANGED <<disk, order, task, created>> PROVE Goal
  BY <1>2 DEF RoomInv, Storing
<1>3. ASSUME NEW t \in Threads, StoreCall(t) \/ Index(t) PROVE Goal
  BY <1>3, CallKeepsRoom
<1>4. ASSUME NEW c \in Clients, Submit(c) PROVE Goal
  <2>1. PICK k : Moves(c, k) /\ k.phase = "load" /\ k.copy = None
    <3>1. CASE Becomes(c, {Idle})
      BY <3>1, IdleShape DEF Becomes, Moves
    <3>2. CASE Becomes(c, {Refused(task[c])})
      BY <1>0, <1>4, <3>2, RefusedShape DEF Submit
    <3> QED BY <1>4, <3>1, <3>2 DEF Submit
  <2> QED BY <1>0, <1>1, <1>4, <2>1 DEF Submit, history
<1>5. ASSUME NEW c \in Clients, NEW j \in Jobs, StartJob(c, j) PROVE Goal
  <2>1. PICK k \in Task :
          Moves(c, k) /\ j \notin created /\ k.phase = "write" /\ k.job = j
    BY <1>0, <1>5, StartShape
  <2>2. task'[c] = k /\ k.dir = Home
    <3>1. task'[c] = k
      BY <1>0, <2>1 DEF Moves
    <3>2. task'[c] = [Idle EXCEPT !.op = "store", !.phase = "write", !.job = j, !.copy =
            [status |-> "Queued", at |-> now, born |-> now, result |-> FALSE]]
      BY <1>0, <1>5 DEF StartJob, Becomes
    <3> QED BY <3>1, <3>2 DEF Idle
  <2>3. disk' = disk /\ order' = order /\ created' = created \cup {j}
    BY <1>5 DEF StartJob, storeVars
  <2> QED BY <1>0, <2>1, <2>2, <2>3, MoveKeepsRoom
<1>6. ASSUME NEW c \in Clients, NEW j \in Jobs, NEW op \in {"status", "cancel"}, Ask(c, j, op)
      PROVE  Goal
  <2>1. PICK k \in Task : Moves(c, k) /\ k.phase = "load" /\ k.copy = None
    BY <1>0, <1>6, AskShape
  <2> QED BY <1>0, <1>1, <1>6, <2>1 DEF Ask, history
<1>7. ASSUME NEW w \in Workers, TakeJob(w) \/ Work(w) \/ FinishJob(w) PROVE Goal
  <2>1. PICK k : Moves(w, k) /\ k.phase = "load" /\ k.copy = None
    <3>1. CASE TakeJob(w)
      BY <3>1, TakenShape
    <3>2. CASE Work(w)
      BY <1>0, <3>2, WorkShape
    <3>3. CASE FinishJob(w)
      BY <3>3, IdleShape DEF FinishJob, Becomes, Moves
    <3> QED BY <1>7, <3>1, <3>2, <3>3
  <2> QED BY <1>0, <1>1, <1>7, <2>1 DEF TakeJob, Work, FinishJob, history
<1>8. ASSUME NEW w \in Workers, SleepOnQueue(w) \/ WakeUp(w) PROVE Goal
  BY <1>2, <1>8 DEF SleepOnQueue, WakeUp, storeVars, history
<1>9. ASSUME Tick PROVE Goal
  BY <1>2, <1>9 DEF Tick, storeVars, history
<1>10. ASSUME NEW p \in Projects, SwitchProject(p) PROVE Goal
  <2>1. switches \in 0..MaxSwitches /\ switches < MaxSwitches
    BY <1>0, <1>10 DEF TypeOK, SwitchProject
  <2> QED BY <2>1 DEF Roomy
<1>11. ASSUME Restart PROVE Goal
  <2>1. \A t \in Threads : task'[t] = Idle
    BY <1>11 DEF Restart
  <2> QED BY <1>0, <1>11, <2>1, RestartKeepsRoom, IdleShape DEF RoomInv, Storing
<1>12. ASSUME UNCHANGED vars PROVE Goal
  BY <1>2, <1>12 DEF vars, storeVars, history
<1> HIDE DEF Goal
<1>13. ASSUME NEW c \in Clients, ClientStep(c) PROVE Goal
  BY <1>0, <1>3, <1>4, <1>13 DEF ClientStep
<1>14. ASSUME NEW w \in Workers, WorkerStep(w) PROVE Goal
  BY <1>0, <1>3, <1>7, <1>8, <1>14 DEF WorkerStep
<1>15. ASSUME NEW c \in Clients, NEW j \in Jobs, Ask(c, j, "status") \/ Ask(c, j, "cancel")
       PROVE  Goal
  BY <1>6, <1>15
<1>16. Goal
  <2>1. CASE \E c \in Clients :
               \/ ClientStep(c)
               \/ \E j \in Jobs : StartJob(c, j) \/ Ask(c, j, "status") \/ Ask(c, j, "cancel")
    BY <1>5, <1>13, <1>15, <2>1
  <2>2. CASE \E w \in Workers : WorkerStep(w) \/ WakeUp(w)
    BY <1>8, <1>14, <2>2
  <2>3. CASE Tick \/ Restart \/ \E p \in Projects : SwitchProject(p)
    BY <1>9, <1>10, <1>11, <2>3
  <2> QED BY <1>12, <2>1, <2>2, <2>3 DEF Next
<1> QED BY <1>16 DEF Goal

LEMMA RoomHolds == ASSUME Roomy PROVE Spec => [](AtHome /\ RoomInv) /\ [][RecordsStay]_vars
<1>1. Init => RoomInv
  <2> SUFFICES ASSUME Init PROVE RoomInv
    OBVIOUS
  <2>1. Range(order) = {} /\ IsInjective(order) /\ \A t \in Threads : task[t] = Idle
        /\ Clients \subseteq Threads
    BY DEF Init, Range, IsInjective, Threads
  <2> QED BY <2>1, IdleShape DEF RoomInv, Storing
<1>2. Inv /\ AtHome /\ AtHome' /\ RoomInv /\ [Next]_vars => RoomInv'
  BY NextKeepsRoom
<1>3. Inv /\ AtHome /\ AtHome' /\ RoomInv /\ [Next]_vars => [RecordsStay]_vars
  BY NextKeepsRoom DEF RecordsStay
<1>4. Spec => []AtHome
  BY WithoutSwitchesAtHome DEF Roomy
<1> QED BY <1>1, <1>2, <1>3, <1>4, InvHolds, PTL DEF Spec

(* The two properties above for a store that is large enough for its jobs, on a clock
   that no record outlives, without the hypotheses on the behaviour: no job cancelled in
   the queue runs, and results are exact, whatever the threads, writes, retries and
   restarts do. *)
THEOREM EnoughRoomSuffices ==
  ASSUME MaxSwitches = 0, MaxClock <= TTL, IsFiniteSet(Jobs), Cardinality(Jobs) <= MaxJobs
  PROVE  Spec => []CancelledWhileQueuedNeverRuns /\ []ResultIffReportCompleted
<1>1. Roomy
  BY DEF Roomy
<1> QED BY <1>1, RoomHolds, CancelledJobsNeverRun, ResultsAreExact, PTL

(***************************************************************************)
(* The queue.                                                              *)
(***************************************************************************)
(* What the worker loop and the request threads do to the queue are steps of the queue as
   AnalysisQueue describes it, or leave it alone; a restart starts it again.  No write that
   fails, no record that was lost and no retry makes them take, finish or submit a job
   otherwise.  This is the safety part of ImplementsQueue; its fairness stays with TLC. *)
THEOREM DrivesTheQueue ==
  Spec => Queue!Init /\ [][Queue!Next \/ (Queue!Init)']_(Queue!vars)
<1>1. Init => Queue!Init
  BY DEF Init
<1>2. ASSUME Inv, [Next]_vars
      PROVE  [Queue!Next \/ (Queue!Init)']_(Queue!vars)
  <2>1. ASSUME UNCHANGED queueVars PROVE UNCHANGED Queue!vars
    BY <2>1 DEF queueVars, Queue!vars
  <2>2. ASSUME NEW c \in Clients, Submit(c) PROVE [Queue!Next]_(Queue!vars)
    <3>1. task[c].job \in Jobs
      <4>1. c \in Threads /\ Fits(c, task[c]) /\ task[c] \in Task
        BY <1>2, Parts DEF Fits
      <4>2. task[c].op # "idle"
        BY <2>2, <4>1 DEF Submit, Fits, Reads, Checks, Updates
      <4>3. task[c].job # NoJob /\ task[c].job \in Jobs \cup {NoJob}
        BY <4>1, <4>2 DEF Fits, Task
      <4> QED BY <4>3
    <3> QED BY <2>1, <2>2, <3>1 DEF Submit, Queue!Next
  <2>3. ASSUME NEW w \in Workers,
               TakeJob(w) \/ SleepOnQueue(w) \/ WakeUp(w) \/ FinishJob(w)
        PROVE  Queue!Next
    BY <2>3 DEF TakeJob, SleepOnQueue, WakeUp, FinishJob, Queue!Next
  <2>4. CASE Restart
    BY <2>4 DEF Restart, Queue!Init
  <2>5. ASSUME NEW t, StoreCall(t) \/ Index(t) \/ Work(t) PROVE UNCHANGED queueVars
    BY <2>5 DEF StoreCall, Load, Memo, Write, WriteFails, Save, Index, Work
  <2>6. ASSUME NEW c, NEW j, NEW op, StartJob(c, j) \/ Ask(c, j, op) PROVE UNCHANGED queueVars
    BY <2>6 DEF StartJob, Ask
  <2>7. ASSUME Tick \/ (\E p \in Projects : SwitchProject(p)) \/ UNCHANGED vars
        PROVE  UNCHANGED queueVars
    BY <2>7 DEF Tick, SwitchProject, vars
  <2> HIDE DEF Queue!Next, Queue!Init, Queue!vars
  <2> QED BY <1>2, <2>1, <2>2, <2>3, <2>4, <2>5, <2>6, <2>7 DEF Next, ClientStep, WorkerStep
<1> QED BY <1>1, <1>2, InvHolds, PTL DEF Spec
=============================================================================
