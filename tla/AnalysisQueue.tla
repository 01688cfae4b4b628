---------------------------- MODULE AnalysisQueue ----------------------------
(***************************************************************************)
(* JobService, the background queue of analysis jobs                       *)
(* (crates/codelens-mcp/src/analysis_queue.rs): a bounded priority queue   *)
(* under one mutex and one condition variable, served by a fixed pool of   *)
(* worker threads.  Every action below is one critical section of that     *)
(* mutex; what a worker does with a job between taking and finishing it    *)
(* is the subject of AnalysisJobs.                                         *)
(***************************************************************************)
EXTENDS Integers, Sequences, FiniteSets, SequencesExt

CONSTANTS
  Jobs,         \* the ids of the requests ever submitted; an id is used once
  NoJob,        \* what an idle worker holds
  Workers,      \* the threads of the pool
  Cost,         \* cost_units of each job
  Parallelism,  \* how many jobs may be active once this one has started
  CostBudget,   \* analysis_cost_budget of the transport
  MaxPending    \* MAX_PENDING_ANALYSIS_REQUESTS

ASSUME QueueAssumption ==
  /\ NoJob \notin Jobs
  /\ IsFiniteSet(Workers)
  /\ Cost \in [Jobs -> Nat \ {0}]
  /\ Parallelism \in [Jobs -> Nat \ {0}]
  /\ CostBudget \in Nat
  /\ MaxPending \in Nat

VARIABLES
  pending,      \* the queue, cheapest first
  pendingCost,  \* pending_cost_units
  activeJobs,   \* active_jobs
  activeCost,   \* active_cost_units
  holding,      \* the job each worker runs, NoJob between two jobs
  asleep,       \* the workers blocked in condvar.wait
  arrived       \* history: the accepted jobs in order of arrival

vars == <<pending, pendingCost, activeJobs, activeCost, holding, asleep, arrived>>

TypeOK ==
  /\ pending \in Seq(Jobs)
  /\ Len(pending) <= MaxPending
  /\ pendingCost \in Nat
  /\ activeJobs \in Nat
  /\ activeCost \in Nat
  /\ holding \in [Workers -> Jobs \cup {NoJob}]
  /\ asleep \in SUBSET Workers
  /\ arrived \in Seq(Jobs)
-----------------------------------------------------------------------------
(* usize::saturating_sub *)
Monus(a, b) == IF b <= a THEN a - b ELSE 0

Busy == {w \in Workers : holding[w] # NoJob}

Held == {holding[w] : w \in Busy}

AdmitsWithinBudgetOnly(j) ==                                       \* mutant
  /\ activeJobs < Parallelism[j]
  /\ activeCost + Cost[j] <= CostBudget

AdmitsByHeadroom(j) ==                                             \* mutant
  /\ activeJobs < Parallelism[j]
  /\ activeCost < CostBudget \/ activeJobs = 0

(* A job priced above the whole budget starts only in an idle pool. *)
Admits(j) ==
  /\ activeJobs < Parallelism[j]
  /\ activeCost + Cost[j] <= CostBudget \/ activeJobs = 0

Startable == {i \in DOMAIN pending : Admits(pending[i])}

InsertionPointBeforeEquals(i, j) ==                                \* mutant
  /\ i \in 1..Len(pending) + 1
  /\ \A k \in 1..i - 1 : Cost[pending[k]] < Cost[j]
  /\ i <= Len(pending) => Cost[pending[i]] >= Cost[j]

(* Before the first queued job that costs more, so equal costs keep their
   order of arrival. *)
InsertionPoint(i, j) ==
  /\ i \in 1..Len(pending) + 1
  /\ \A k \in 1..i - 1 : Cost[pending[k]] <= Cost[j]
  /\ i <= Len(pending) => Cost[pending[i]] > Cost[j]

DequeueBack(i) == Front(pending)                                   \* mutant

(* VecDeque::remove(index) *)
Dequeue(i) == RemoveAt(pending, i)

FullPastTheEnd == Len(pending) > MaxPending                        \* mutant

Full == Len(pending) >= MaxPending

NotifyOne == asleep' \in {asleep \ {w} : w \in asleep} \cup {{}}      \* mutant

NotifyAll == asleep' = {}
-----------------------------------------------------------------------------
Init ==
  /\ pending = <<>>
  /\ pendingCost = 0
  /\ activeJobs = 0
  /\ activeCost = 0
  /\ holding = [w \in Workers |-> NoJob]
  /\ asleep = {}
  /\ arrived = <<>>

(* JobService::enqueue.  A full queue refuses the request and changes nothing. *)
Enqueue(j) ==
  /\ j \notin Range(arrived)
  /\ ~Full
  /\ \E i \in 1..Len(pending) + 1 :
       /\ InsertionPoint(i, j)
       /\ pending' = InsertAt(pending, i, j)
  /\ pendingCost' = pendingCost + Cost[j]
  /\ NotifyAll
  /\ arrived' = Append(arrived, j)
  /\ UNCHANGED <<activeJobs, activeCost, holding>>

(* An awake worker takes the first job the pool has room for ... *)
Take(w) ==
  /\ w \notin Busy \cup asleep
  /\ \E i \in Startable :
       /\ \A k \in Startable : i <= k
       /\ pending' = Dequeue(i)
       /\ pendingCost' = Monus(pendingCost, Cost[pending[i]])
       /\ activeCost' = activeCost + Cost[pending[i]]
       /\ holding' = [holding EXCEPT ![w] = pending[i]]
  /\ activeJobs' = activeJobs + 1
  /\ UNCHANGED <<asleep, arrived>>

(* ... or waits, the queue being empty or holding nothing that fits. *)
Sleep(w) ==
  /\ w \notin Busy \cup asleep
  /\ Startable = {}
  /\ asleep' = asleep \cup {w}
  /\ UNCHANGED <<pending, pendingCost, activeJobs, activeCost, holding, arrived>>

(* A condition variable may wake a thread nobody notified. *)
WakeSpuriously(w) ==
  /\ w \in asleep
  /\ asleep' = asleep \ {w}
  /\ UNCHANGED <<pending, pendingCost, activeJobs, activeCost, holding, arrived>>

(* The job ended, or was found cancelled before it ran: the same bookkeeping. *)
Finish(w) ==
  /\ w \in Busy
  /\ activeJobs' = Monus(activeJobs, 1)
  /\ activeCost' = Monus(activeCost, Cost[holding[w]])
  /\ holding' = [holding EXCEPT ![w] = NoJob]
  /\ NotifyAll
  /\ UNCHANGED <<pending, pendingCost, arrived>>

Next ==
  \/ \E j \in Jobs : Enqueue(j)
  \/ \E w \in Workers : Take(w) \/ Sleep(w) \/ WakeSpuriously(w) \/ Finish(w)

(* A worker thread that can go on does, and a job it runs ends: its deadline
   and its attempts are bounded.  Nobody has to submit a job, and the operating
   system owes no spurious wake-up. *)
Fairness ==
  \A w \in Workers : WF_vars(Take(w)) /\ WF_vars(Sleep(w)) /\ WF_vars(Finish(w))

Spec == Init /\ [][Next]_vars /\ Fairness
-----------------------------------------------------------------------------
(* The counters the admission test reads are what the pool really holds: a
   saturating subtraction never hides a miscount, so capacity is neither
   leaked nor invented over any sequence of submissions and completions. *)
SumOfCosts(S) == MapThenSumSet(LAMBDA j : Cost[j], S)

CountersAgree ==
  /\ activeJobs = Cardinality(Busy)
  /\ activeCost = SumOfCosts(Held)
  /\ pendingCost = SumOfCosts(Range(pending))

(* Jobs running together fit the budget; only a job running alone exceeds it. *)
BudgetRespected == activeJobs > 1 => activeCost <= CostBudget

(* A request is in one place: never queued twice, never run by two workers,
   never still queued while it runs. *)
OnePlaceEach ==
  /\ IsInjective(pending)
  /\ \A w, x \in Busy : holding[w] = holding[x] => w = x
  /\ Held \cap Range(pending) = {}

(* The queue is ordered by cost, and by arrival among equal costs. *)
Precedes(s, a, b) ==
  \E k, l \in DOMAIN s : k < l /\ s[k] = a /\ s[l] = b

CheapestThenOldest ==
  \A i, k \in DOMAIN pending : i < k =>
    \/ Cost[pending[i]] < Cost[pending[k]]
    \/ /\ Cost[pending[i]] = Cost[pending[k]]
       /\ Precedes(arrived, pending[i], pending[k])

(* No lost wake-up: while some worker sleeps nothing in the queue could start,
   so every job the pool has room for is about to be looked at by all idle
   workers. *)
NoLostWakeup == asleep # {} => Startable = {}

(* Every accepted job is taken up in the end, the ones priced above the whole
   budget too (the queue used to leave those queued for ever). *)
EveryAcceptedJobStarts ==
  \A j \in Jobs : j \in Range(pending) ~> j \in Held

(* The queue is a job pool: accepted jobs wait, run once and end. *)
Pool == INSTANCE JobPool WITH
  waiting <- Range(pending),
  running <- Held,
  done    <- Range(arrived) \ (Range(pending) \cup Held)

ImplementsPool == Pool!Spec
=============================================================================
