------------------------- MODULE AnalysisQueueProofs -------------------------
(***************************************************************************)
(* Proofs about the job queue, for any set of jobs, pool, prices, budget   *)
(* and capacity.                                                           *)
(***************************************************************************)
EXTENDS AnalysisQueue, SequenceLemmas

-----------------------------------------------------------------------------
(* An accepted request is the one element the queue gains. *)
LEMMA EnqueueShape ==
  ASSUME TypeOK, NEW j \in Jobs, Enqueue(j)
  PROVE  \E i \in 1..Len(pending) + 1 :
           /\ InsertionPoint(i, j)
           /\ pending' \in Seq(Jobs)
           /\ Len(pending') = Len(pending) + 1
           /\ \A k \in 1..Len(pending) + 1 :
                pending'[k] = IF k < i THEN pending[k]
                              ELSE IF k = i THEN j ELSE pending[k - 1]
           /\ Range(pending') = Range(pending) \cup {j}
<1>1. PICK i \in 1..Len(pending) + 1 :
        InsertionPoint(i, j) /\ pending' = InsertAt(pending, i, j)
  BY DEF Enqueue
<1>2. pending \in Seq(Jobs)
  BY DEF TypeOK
<1>3. /\ InsertAt(pending, i, j) \in Seq(Jobs)
      /\ Len(InsertAt(pending, i, j)) = Len(pending) + 1
      /\ \A k \in 1..Len(pending) + 1 :
           InsertAt(pending, i, j)[k] = IF k < i THEN pending[k]
                                        ELSE IF k = i THEN j ELSE pending[k - 1]
      /\ Range(InsertAt(pending, i, j)) = Range(pending) \cup {j}
  BY <1>2, InsertAtProperties
<1> WITNESS i \in 1..Len(pending) + 1
<1> QED BY <1>1, <1>3

(* A request taken is the one element the queue loses. *)
LEMMA TakeShape ==
  ASSUME TypeOK, NEW w \in Workers, Take(w)
  PROVE  \E i \in Startable :
           /\ i \in 1..Len(pending)
           /\ pending[i] \in Jobs
           /\ pendingCost' = Monus(pendingCost, Cost[pending[i]])
           /\ activeCost' = activeCost + Cost[pending[i]]
           /\ holding' = [holding EXCEPT ![w] = pending[i]]
           /\ pending' \in Seq(Jobs)
           /\ Len(pending') = Len(pending) - 1
           /\ \A k \in 1..Len(pending) - 1 :
                pending'[k] = IF k < i THEN pending[k] ELSE pending[k + 1]
           /\ Range(pending) = Range(pending') \cup {pending[i]}
<1>1. PICK i \in Startable :
        /\ pending' = RemoveAt(pending, i)
        /\ pendingCost' = Monus(pendingCost, Cost[pending[i]])
        /\ activeCost' = activeCost + Cost[pending[i]]
        /\ holding' = [holding EXCEPT ![w] = pending[i]]
  BY DEF Take, Dequeue
<1>2. pending \in Seq(Jobs)
  BY DEF TypeOK
<1>3. i \in 1..Len(pending) /\ pending[i] \in Jobs
  BY <1>2, LenProperties, ElementOfSeq DEF Startable
<1>4. /\ RemoveAt(pending, i) \in Seq(Jobs)
      /\ Len(RemoveAt(pending, i)) = Len(pending) - 1
      /\ \A k \in 1..Len(pending) - 1 :
           RemoveAt(pending, i)[k] = IF k < i THEN pending[k] ELSE pending[k + 1]
      /\ Range(pending) = Range(RemoveAt(pending, i)) \cup {pending[i]}
  BY <1>2, <1>3, RemoveAtProperties
<1> WITNESS i \in Startable
<1> QED BY <1>1, <1>3, <1>4
-----------------------------------------------------------------------------
(* A saturating subtraction stays a number and never grows. *)
LEMMA MonusIsNat == \A a, b \in Nat : Monus(a, b) \in Nat /\ Monus(a, b) <= a
BY DEF Monus

LEMMA InitTypeOK == Init => TypeOK
<1> SUFFICES ASSUME Init PROVE TypeOK
  OBVIOUS
<1>1. <<>> \in Seq(Jobs) /\ Len(<<>>) = 0
  OBVIOUS
<1> QED BY <1>1, QueueAssumption DEF Init, TypeOK

LEMMA NextTypeOK == TypeOK /\ [Next]_vars => TypeOK'
<1> SUFFICES ASSUME TypeOK, [Next]_vars PROVE TypeOK'
  OBVIOUS
<1> USE QueueAssumption
<1>1. ASSUME NEW j \in Jobs, Enqueue(j) PROVE TypeOK'
  <2>1. pending' \in Seq(Jobs) /\ Len(pending') = Len(pending) + 1
    BY <1>1, EnqueueShape
  <2>2. Len(pending') <= MaxPending
    <3>1. Len(pending) \in Nat
      BY LenProperties DEF TypeOK
    <3> QED BY <1>1, <2>1, <3>1 DEF Enqueue, Full
  <2>3. arrived' \in Seq(Jobs)
    BY <1>1, AppendProperties DEF Enqueue, TypeOK
  <2>4. pendingCost' \in Nat
    BY <1>1 DEF Enqueue, TypeOK
  <2> QED BY <1>1, <2>1, <2>2, <2>3, <2>4 DEF Enqueue, NotifyAll, TypeOK
<1>2. ASSUME NEW w \in Workers, Take(w) PROVE TypeOK'
  <2>1. PICK i \in Startable :
          /\ pending[i] \in Jobs
          /\ pendingCost' = Monus(pendingCost, Cost[pending[i]])
          /\ activeCost' = activeCost + Cost[pending[i]]
          /\ holding' = [holding EXCEPT ![w] = pending[i]]
          /\ pending' \in Seq(Jobs)
          /\ Len(pending') = Len(pending) - 1
    BY <1>2, TakeShape
  <2>2. Len(pending') <= MaxPending
    <3>1. Len(pending) \in Nat
      BY LenProperties DEF TypeOK
    <3> QED BY <2>1, <3>1 DEF TypeOK
  <2>3. Cost[pending[i]] \in Nat
    BY <2>1
  <2>4. pendingCost \in Nat /\ activeCost \in Nat
    BY DEF TypeOK
  <2>5. pendingCost' \in Nat /\ activeCost' \in Nat
    <3> DEFINE c == Cost[pending[i]]
    <3>1. c \in Nat /\ pendingCost' = Monus(pendingCost, c) /\ activeCost' = activeCost + c
      BY <2>1, <2>3
    <3> HIDE DEF c
    <3> QED BY <2>4, <3>1, MonusIsNat
  <2>6. holding' \in [Workers -> Jobs \cup {NoJob}]
    BY <2>1 DEF TypeOK
  <2>7. activeJobs' \in Nat /\ UNCHANGED <<asleep, arrived>>
    BY <1>2 DEF Take, TypeOK
  <2> QED BY <2>1, <2>2, <2>5, <2>6, <2>7 DEF TypeOK
<1>3. ASSUME NEW w \in Workers, Sleep(w) PROVE TypeOK'
  BY <1>3 DEF Sleep, TypeOK
<1>4. ASSUME NEW w \in Workers, WakeSpuriously(w) PROVE TypeOK'
  BY <1>4 DEF WakeSpuriously, TypeOK
<1>5. ASSUME NEW w \in Workers, Finish(w) PROVE TypeOK'
  <2>1. Cost[holding[w]] \in Nat
    BY <1>5 DEF Finish, Busy, TypeOK
  <2>2. activeJobs' \in Nat /\ activeCost' \in Nat
    BY <1>5, <2>1, MonusIsNat DEF Finish, TypeOK
  <2> QED BY <1>5, <2>2 DEF Finish, NotifyAll, TypeOK
<1>6. CASE UNCHANGED vars
  BY <1>6 DEF vars, TypeOK
<1> QED BY <1>1, <1>2, <1>3, <1>4, <1>5, <1>6 DEF Next

(* Type correctness; in particular the queue never outgrows its capacity. *)
THEOREM TypeCorrect == Spec => []TypeOK
BY InitTypeOK, NextTypeOK, PTL DEF Spec
-----------------------------------------------------------------------------
(* Jobs that run together fit the budget.  The counters alone carry the
   argument: a job joins others only within the budget, and one that leaves
   can only make room. *)
THEOREM BudgetHolds == Spec => []BudgetRespected
<1>1. Init => BudgetRespected
  BY DEF Init, BudgetRespected
<1>2. TypeOK /\ BudgetRespected /\ [Next]_vars => BudgetRespected'
  <2> SUFFICES ASSUME TypeOK, BudgetRespected, [Next]_vars
               PROVE  BudgetRespected'
    OBVIOUS
  <2> USE QueueAssumption DEF BudgetRespected
  <2>1. ASSUME NEW j \in Jobs, Enqueue(j) PROVE BudgetRespected'
    BY <2>1 DEF Enqueue
  <2>2. ASSUME NEW w \in Workers, Take(w) PROVE BudgetRespected'
    <3>1. PICK i \in Startable :
            pending[i] \in Jobs /\ activeCost' = activeCost + Cost[pending[i]]
      BY <2>2, TakeShape
    <3>2. activeCost + Cost[pending[i]] <= CostBudget \/ activeJobs = 0
      BY <3>1 DEF Startable, Admits
    <3> QED BY <2>2, <3>1, <3>2, SMTT(30) DEF Take, TypeOK
  <2>3. ASSUME NEW w \in Workers, Sleep(w) PROVE BudgetRespected'
    BY <2>3 DEF Sleep
  <2>4. ASSUME NEW w \in Workers, WakeSpuriously(w) PROVE BudgetRespected'
    BY <2>4 DEF WakeSpuriously
  <2>5. ASSUME NEW w \in Workers, Finish(w) PROVE BudgetRespected'
    <3>1. Cost[holding[w]] \in Nat
      BY <2>5 DEF Finish, Busy, TypeOK
    <3>2. /\ activeJobs' \in Nat /\ activeJobs' <= activeJobs
          /\ activeCost' \in Nat /\ activeCost' <= activeCost
      BY <2>5, <3>1, MonusIsNat DEF Finish, TypeOK
    <3> QED BY <3>2 DEF TypeOK
  <2>6. CASE UNCHANGED vars
    BY <2>6 DEF vars
  <2> QED BY <2>1, <2>2, <2>3, <2>4, <2>5, <2>6 DEF Next
<1> QED BY <1>1, <1>2, TypeCorrect, PTL DEF Spec
-----------------------------------------------------------------------------
(* A worker never sleeps while the queue holds a job the pool has room for.
   Taking a job only shrinks the set of startable ones, and every other event
   that could enlarge it wakes all sleepers. *)
THEOREM WakeupsAreNotLost == Spec => []NoLostWakeup
<1>1. Init => NoLostWakeup
  BY DEF Init, NoLostWakeup
<1>2. TypeOK /\ NoLostWakeup /\ [Next]_vars => NoLostWakeup'
  <2> SUFFICES ASSUME TypeOK, NoLostWakeup, [Next]_vars
               PROVE  NoLostWakeup'
    OBVIOUS
  <2> USE QueueAssumption DEF NoLostWakeup
  <2>1. ASSUME NEW j \in Jobs, Enqueue(j) PROVE NoLostWakeup'
    BY <2>1 DEF Enqueue, NotifyAll
  <2>2. ASSUME NEW w \in Workers, Take(w) PROVE NoLostWakeup'
    <3>1. PICK i \in Startable :
            /\ i \in 1..Len(pending)
            /\ pending[i] \in Jobs
      BY <2>2, TakeShape
    <3> QED BY <2>2, <3>1 DEF Take
  <2>3. ASSUME NEW w \in Workers, Sleep(w) PROVE NoLostWakeup'
    BY <2>3 DEF Sleep, Startable, Admits
  <2>4. ASSUME NEW w \in Workers, WakeSpuriously(w) PROVE NoLostWakeup'
    <3>1. asleep # {}
      BY <2>4 DEF WakeSpuriously
    <3> QED BY <2>4, <3>1 DEF WakeSpuriously, Startable, Admits
  <2>5. ASSUME NEW w \in Workers, Finish(w) PROVE NoLostWakeup'
    BY <2>5 DEF Finish, NotifyAll
  <2>6. CASE UNCHANGED vars
    BY <2>6 DEF vars, Startable, Admits
  <2> QED BY <2>1, <2>2, <2>3, <2>4, <2>5, <2>6 DEF Next
<1> QED BY <1>1, <1>2, TypeCorrect, PTL DEF Spec
-----------------------------------------------------------------------------
(* active_jobs is the number of workers that hold a job. *)
ActiveJobsCounted == activeJobs = Cardinality(Busy)

(* The pool is full exactly when the counter says so: no worker is leaked. *)
THEOREM ActiveJobsAreCounted == Spec => []ActiveJobsCounted
<1>0. ASSUME TypeOK PROVE IsFiniteSet(Busy) /\ Cardinality(Busy) \in Nat
  BY QueueAssumption, FS_Subset, FS_CardinalityType DEF Busy
<1>1. Init => ActiveJobsCounted
  <2> SUFFICES ASSUME Init PROVE ActiveJobsCounted
    OBVIOUS
  <2>1. Busy = {}
    BY DEF Init, Busy
  <2> QED BY <2>1, FS_EmptySet DEF Init, ActiveJobsCounted
<1>2. TypeOK /\ ActiveJobsCounted /\ [Next]_vars => ActiveJobsCounted'
  <2> SUFFICES ASSUME TypeOK, ActiveJobsCounted, [Next]_vars
               PROVE  ActiveJobsCounted'
    OBVIOUS
  <2> USE QueueAssumption DEF ActiveJobsCounted
  <2>0. IsFiniteSet(Busy)
    BY <1>0
  <2>1. ASSUME NEW j \in Jobs, Enqueue(j) PROVE ActiveJobsCounted'
    BY <2>1 DEF Enqueue, Busy
  <2>2. ASSUME NEW w \in Workers, Take(w) PROVE ActiveJobsCounted'
    <3>1. PICK i \in Startable :
            pending[i] \in Jobs /\ holding' = [holding EXCEPT ![w] = pending[i]]
      BY <2>2, TakeShape
    <3>2. w \notin Busy /\ Busy' = Busy \cup {w}
      BY <2>2, <3>1, SMTT(30) DEF Take, Busy, TypeOK
    <3>3. Cardinality(Busy') = Cardinality(Busy) + 1
      BY <2>0, <3>2, FS_AddElement
    <3> QED BY <2>2, <3>3 DEF Take
  <2>3. ASSUME NEW w \in Workers, Sleep(w) PROVE ActiveJobsCounted'
    BY <2>3 DEF Sleep, Busy
  <2>4. ASSUME NEW w \in Workers, WakeSpuriously(w) PROVE ActiveJobsCounted'
    BY <2>4 DEF WakeSpuriously, Busy
  <2>5. ASSUME NEW w \in Workers, Finish(w) PROVE ActiveJobsCounted'
    <3>1. w \in Busy /\ Busy' = Busy \ {w}
      BY <2>5 DEF Finish, Busy, TypeOK
    <3>2. Cardinality(Busy') = Cardinality(Busy) - 1 /\ Cardinality(Busy') \in Nat
      BY <2>0, <3>1, FS_RemoveElement, FS_CardinalityType
    <3>3. activeJobs \in Nat /\ activeJobs' = Monus(activeJobs, 1)
      BY <2>5 DEF Finish, TypeOK
    <3> QED BY <3>2, <3>3 DEF Monus
  <2>6. CASE UNCHANGED vars
    BY <2>6 DEF vars, Busy
  <2> QED BY <2>1, <2>2, <2>3, <2>4, <2>5, <2>6 DEF Next
<1> QED BY <1>1, <1>2, TypeCorrect, PTL DEF Spec
-----------------------------------------------------------------------------
(* OnePlaceEach is preserved because ids are used once, which the queue itself
   cannot see: the history must hold every id now queued or running. *)
Known == Range(pending) \cup Held \subseteq Range(arrived)

OnePlaceInv == OnePlaceEach /\ Known

(* Removing a request leaves the others, each still once. *)
LEMMA TakeLeavesTheOthers ==
  ASSUME TypeOK, IsInjective(pending), NEW w \in Workers, Take(w)
  PROVE  \E j \in Range(pending) :
           /\ j \in Jobs
           /\ holding' = [holding EXCEPT ![w] = j]
           /\ Range(pending') = Range(pending) \ {j}
           /\ IsInjective(pending')
<1>1. PICK i \in Startable :
        /\ i \in 1..Len(pending)
        /\ pending[i] \in Jobs
        /\ holding' = [holding EXCEPT ![w] = pending[i]]
        /\ pending' \in Seq(Jobs)
        /\ Len(pending') = Len(pending) - 1
        /\ \A k \in 1..Len(pending) - 1 :
             pending'[k] = IF k < i THEN pending[k] ELSE pending[k + 1]
        /\ Range(pending) = Range(pending') \cup {pending[i]}
  BY TakeShape
<1>2. /\ Len(pending) \in Nat
      /\ DOMAIN pending = 1..Len(pending)
      /\ DOMAIN pending' = 1..Len(pending) - 1
  BY <1>1, LenProperties DEF TypeOK
<1>3. ASSUME NEW k \in 1..Len(pending) - 1 PROVE pending'[k] # pending[i]
  <2>1. CASE k < i
    BY <1>1, <1>2, <2>1 DEF IsInjective
  <2>2. CASE k >= i
    <3>1. k + 1 \in DOMAIN pending /\ k + 1 # i /\ pending'[k] = pending[k + 1]
      BY <1>1, <1>2, <2>2
    <3> QED BY <1>1, <1>2, <3>1 DEF IsInjective
  <2> QED BY <1>1, <1>2, <2>1, <2>2
<1>4. IsInjective(pending')
  <2> DEFINE old(k) == IF k < i THEN k ELSE k + 1
  <2>1. \A k \in DOMAIN pending' : old(k) \in DOMAIN pending /\ pending'[k] = pending[old(k)]
    BY <1>1, <1>2
  <2>2. \A k, l \in DOMAIN pending' : old(k) = old(l) => k = l
    BY <1>1, <1>2
  <2> HIDE DEF old
  <2> QED BY <2>1, <2>2 DEF IsInjective
<1>5. pending[i] \in Range(pending)
  BY <1>1, <1>2 DEF Range
<1>6. pending[i] \notin Range(pending')
  BY <1>2, <1>3 DEF Range
<1> WITNESS pending[i] \in Range(pending)
<1> QED BY <1>1, <1>4, <1>6

LEMMA OnePlaceInvariant == Spec => []OnePlaceInv
<1>1. Init => OnePlaceInv
  BY DEF Init, OnePlaceInv, OnePlaceEach, Known, Busy, Held, Range, IsInjective
<1>2. TypeOK /\ OnePlaceInv /\ [Next]_vars => OnePlaceInv'
  <2> SUFFICES ASSUME TypeOK, OnePlaceInv, [Next]_vars
               PROVE  OnePlaceInv'
    OBVIOUS
  <2> USE DEF OnePlaceInv, OnePlaceEach
  <2>1. ASSUME NEW j \in Jobs, Enqueue(j) PROVE OnePlaceInv'
    <3>1. PICK i \in 1..Len(pending) + 1 :
            /\ pending' \in Seq(Jobs)
            /\ Len(pending') = Len(pending) + 1
            /\ \A k \in 1..Len(pending) + 1 :
                 pending'[k] = IF k < i THEN pending[k]
                               ELSE IF k = i THEN j ELSE pending[k - 1]
            /\ Range(pending') = Range(pending) \cup {j}
      BY <2>1, EnqueueShape
    <3>2. /\ Len(pending) \in Nat
          /\ DOMAIN pending = 1..Len(pending)
          /\ DOMAIN pending' = 1..Len(pending) + 1
      BY <3>1, LenProperties DEF TypeOK
    <3>3. j \notin Range(pending) /\ j \notin Held
      BY <2>1 DEF Enqueue, Known
    <3>4. IsInjective(pending')
      <4> DEFINE old(k) == IF k < i THEN k ELSE k - 1
      <4>1. \A k \in DOMAIN pending' \ {i} :
               old(k) \in DOMAIN pending /\ pending'[k] = pending[old(k)]
        BY <3>1, <3>2
      <4>2. \A k, l \in DOMAIN pending' \ {i} : old(k) = old(l) => k = l
        BY <3>1, <3>2
      <4>3. pending'[i] = j /\ i \in DOMAIN pending'
        BY <3>1, <3>2
      <4>4. \A k \in DOMAIN pending : pending[k] # j
        BY <3>3 DEF Range
      <4> HIDE DEF old
      <4> QED BY <4>1, <4>2, <4>3, <4>4 DEF IsInjective
    <3>5. Busy' = Busy /\ Held' = Held /\ UNCHANGED holding
      BY <2>1 DEF Enqueue, Busy, Held
    <3>6. Range(arrived') = Range(arrived) \cup {j}
      <4>1. /\ arrived' = Append(arrived, j)
            /\ arrived \in Seq(Jobs)
        BY <2>1 DEF Enqueue, TypeOK
      <4>2. /\ Len(arrived) \in Nat
            /\ DOMAIN arrived = 1..Len(arrived)
            /\ DOMAIN arrived' = 1..Len(arrived) + 1
            /\ \A k \in 1..Len(arrived) : arrived'[k] = arrived[k]
            /\ arrived'[Len(arrived) + 1] = j
        BY <4>1, LenProperties, AppendProperties
      <4> QED BY <4>2 DEF Range
    <3> QED BY <3>1, <3>3, <3>4, <3>5, <3>6 DEF Known
  <2>2. ASSUME NEW w \in Workers, Take(w) PROVE OnePlaceInv'
    <3>1. PICK j \in Range(pending) :
            /\ j \in Jobs
            /\ holding' = [holding EXCEPT ![w] = j]
            /\ Range(pending') = Range(pending) \ {j}
            /\ IsInjective(pending')
      BY <2>2, TakeLeavesTheOthers
    <3>2. w \notin Busy /\ Busy' = Busy \cup {w}
      BY <2>2, <3>1, QueueAssumption DEF Take, Busy, TypeOK
    <3>3. Held' = Held \cup {j}
      BY <3>1, <3>2 DEF Held, Busy, TypeOK
    <3>4. j \notin Held
      BY <3>1
    <3>5. \A x, y \in Busy' : holding'[x] = holding'[y] => x = y
      <4>1. \A x \in Busy : holding'[x] = holding[x] /\ holding[x] # j
        BY <3>1, <3>2, <3>4 DEF Held, Busy, TypeOK
      <4>2. holding'[w] = j
        BY <3>1 DEF TypeOK
      <4> QED BY <3>2, <4>1, <4>2
    <3>6. arrived' = arrived
      BY <2>2 DEF Take
    <3> QED BY <3>1, <3>3, <3>5, <3>6 DEF Known
  <2>3. ASSUME NEW w \in Workers, Sleep(w) PROVE OnePlaceInv'
    BY <2>3 DEF Sleep, Known, Held, Busy
  <2>4. ASSUME NEW w \in Workers, WakeSpuriously(w) PROVE OnePlaceInv'
    BY <2>4 DEF WakeSpuriously, Known, Held, Busy
  <2>5. ASSUME NEW w \in Workers, Finish(w) PROVE OnePlaceInv'
    <3>1. Busy' = Busy \ {w} /\ \A x \in Busy' : holding'[x] = holding[x]
      BY <2>5 DEF Finish, Busy, TypeOK
    <3>2. Held' \subseteq Held
      BY <3>1 DEF Held
    <3>3. UNCHANGED <<pending, arrived>>
      BY <2>5 DEF Finish
    <3> QED BY <3>1, <3>2, <3>3 DEF Known
  <2>6. CASE UNCHANGED vars
    BY <2>6 DEF vars, Known, Held, Busy
  <2> QED BY <2>1, <2>2, <2>3, <2>4, <2>5, <2>6 DEF Next
<1> QED BY <1>1, <1>2, TypeCorrect, PTL DEF Spec

(* A request is queued once, run by one worker, and never both. *)
THEOREM JobsAreInOnePlace == Spec => []OnePlaceEach
<1>1. OnePlaceInv => OnePlaceEach
  BY DEF OnePlaceInv
<1> QED BY <1>1, OnePlaceInvariant, PTL
-----------------------------------------------------------------------------
(* The sums of the counters are folds over sets of jobs.  SumOfCosts(S) is the
   value at S of a function on the subsets of S that takes one chosen job away
   at a time; these are the facts about it, for finite S. *)
Chosen(s) == CHOOSE x \in s : TRUE

SumStep(g, s) == IF s = {} THEN 0 ELSE Cost[Chosen(s)] + g[s \ {Chosen(s)}]

Sums(S) == CHOOSE g : g = [s \in SUBSET S |-> SumStep(g, s)]

LEMMA SumIsAtTheTop == ASSUME NEW S PROVE SumOfCosts(S) = Sums(S)[S]
BY DEF SumOfCosts, MapThenSumSet, MapThenFoldSet, Sums, SumStep, Chosen

(* A set without one of its elements is smaller. *)
LEMMA OneLess ==
  ASSUME NEW S, IsFiniteSet(S), NEW s \in SUBSET S, NEW x \in s
  PROVE  /\ s \ {x} \in SUBSET S
         /\ Cardinality(s) \in Nat /\ Cardinality(s \ {x}) \in Nat
         /\ Cardinality(s \ {x}) = Cardinality(s) - 1
<1>1. IsFiniteSet(s)
  BY FS_Subset
<1>2. IsFiniteSet(s \ {x}) /\ Cardinality(s \ {x}) = Cardinality(s) - 1
  BY <1>1, FS_RemoveElement
<1> QED BY <1>1, <1>2, FS_CardinalityType

(* Among some subsets of a finite set there is one that no longer is among them
   whichever element it loses. *)
LEMMA SmallestSubset ==
  ASSUME NEW S, IsFiniteSet(S), NEW B \in SUBSET (SUBSET S), B # {}
  PROVE  \E s \in B : \A x \in s : s \ {x} \notin B
<1> DEFINE Sizes == {n \in Nat : \E s \in B : Cardinality(s) = n}
<1>1. \A s \in B : Cardinality(s) \in Nat
  BY FS_Subset, FS_CardinalityType
<1>2. PICK n \in Sizes : \A m \in Sizes : n <= m
  <2>1. Sizes \subseteq Nat /\ Sizes # {}
    BY <1>1
  <2> HIDE DEF Sizes
  <2> QED BY <2>1, LeastNumber
<1>3. PICK s \in B : Cardinality(s) = n
  BY <1>2
<1>4. ASSUME NEW x \in s, s \ {x} \in B PROVE FALSE
  <2>1. Cardinality(s \ {x}) \in Nat /\ Cardinality(s \ {x}) = n - 1 /\ n \in Nat
    BY <1>2, <1>3, OneLess
  <2>2. Cardinality(s \ {x}) \in Sizes
    BY <1>4, <2>1
  <2> HIDE DEF Sizes
  <2> QED BY <1>2, <2>1, <2>2
<1> QED BY <1>3, <1>4

(* The function exists on the subsets of a finite set: on those of at most n
   elements for every n, each time from the one before. *)
LEMMA SumsExist ==
  ASSUME NEW S, IsFiniteSet(S)
  PROVE  Sums(S) = [s \in SUBSET S |-> SumStep(Sums(S), s)]
<1> DEFINE Up(n) == {s \in SUBSET S : Cardinality(s) <= n}
           Defined(n) == \E g : g = [s \in Up(n) |-> SumStep(g, s)]
           Missing == {n \in Nat : ~ Defined(n)}
<1>0. \A s \in SUBSET S : Cardinality(s) \in Nat /\ Cardinality(s) <= Cardinality(S)
  BY FS_Subset, FS_CardinalityType
<1>1. ASSUME NEW n \in Missing, \A m \in Missing : n <= m PROVE FALSE
  <2>1. CASE n = 0
    <3> DEFINE g == [s \in Up(0) |-> 0]
    <3>1. \A s \in Up(0) : s = {}
      BY <1>0, FS_Subset, FS_EmptySet
    <3>2. g = [s \in Up(0) |-> SumStep(g, s)]
      BY <3>1 DEF SumStep
    <3> QED BY <2>1, <3>2
  <2>2. CASE n # 0
    <3>0. n \in Nat /\ n - 1 \in Nat /\ ~ (n <= n - 1) /\ ~ Defined(n)
      <4>1. n \in Nat /\ ~ Defined(n)
        BY <1>1
      <4> HIDE DEF Defined
      <4> QED BY <2>2, <4>1
    <3>1. Defined(n - 1)
      BY <1>1, <3>0
    <3>2. PICK g : g = [s \in Up(n - 1) |-> SumStep(g, s)]
      BY <3>1
    <3> DEFINE h == [s \in Up(n) |-> SumStep(g, s)]
    <3>3. ASSUME NEW s \in Up(n) PROVE h[s] = SumStep(h, s)
      <4>1. CASE s = {}
        BY <4>1 DEF SumStep
      <4>2. CASE s # {}
        <5> DEFINE t == s \ {Chosen(s)}
        <5>1. Chosen(s) \in s
          BY <4>2 DEF Chosen
        <5>2. t \in SUBSET S /\ Cardinality(t) \in Nat /\ Cardinality(t) = Cardinality(s) - 1
              /\ Cardinality(s) \in Nat /\ Cardinality(s) <= n
          BY <5>1, OneLess
        <5>3. t \in Up(n - 1) /\ t \in Up(n)
          BY <3>0, <5>2
        <5> HIDE DEF t
        <5>4. g[t] = SumStep(g, t) /\ h[t] = SumStep(g, t)
          <6> HIDE DEF Up
          <6>1. g[t] = [u \in Up(n - 1) |-> SumStep(g, u)][t]
            BY <3>2
          <6> QED BY <5>3, <6>1
        <5>5. h[s] = Cost[Chosen(s)] + g[t] /\ SumStep(h, s) = Cost[Chosen(s)] + h[t]
          BY <4>2 DEF SumStep, t
        <5> QED BY <5>4, <5>5
      <4> QED BY <4>1, <4>2
    <3>4. h = [s \in Up(n) |-> SumStep(h, s)]
      <4> HIDE DEF Up
      <4> QED BY <3>3
    <3> QED BY <3>0, <3>4
  <2> QED BY <2>1, <2>2
<1>2. Missing = {}
  <2>1. Missing \subseteq Nat
    OBVIOUS
  <2> HIDE DEF Missing
  <2> QED BY <1>1, <2>1, LeastNumber
<1>3. Cardinality(S) \in Nat /\ Up(Cardinality(S)) = SUBSET S
  BY <1>0, FS_CardinalityType
<1>4. \E g : g = [s \in SUBSET S |-> SumStep(g, s)]
  <2>1. Defined(Cardinality(S))
    BY <1>2, <1>3
  <2> HIDE DEF Up
  <2> QED BY <1>3, <2>1
<1> QED BY <1>4 DEF Sums

(* Its values, spelled out. *)
LEMMA SumsUnfold ==
  ASSUME NEW S, IsFiniteSet(S), NEW s \in SUBSET S
  PROVE  /\ s = {} => Sums(S)[s] = 0
         /\ s # {} => /\ Chosen(s) \in s
                      /\ Sums(S)[s] = Cost[Chosen(s)] + Sums(S)[s \ {Chosen(s)}]
<1>1. Sums(S)[s] = SumStep(Sums(S), s)
  <2>1. Sums(S)[s] = [u \in SUBSET S |-> SumStep(Sums(S), u)][s]
    BY SumsExist
  <2> QED BY <2>1
<1>2. s # {} => Chosen(s) \in s
  BY DEF Chosen
<1> QED BY <1>1, <1>2 DEF SumStep

LEMMA SumsAreNumbers ==
  ASSUME NEW S \in SUBSET Jobs, IsFiniteSet(S)
  PROVE  \A s \in SUBSET S : Sums(S)[s] \in Nat
<1> DEFINE B == {s \in SUBSET S : Sums(S)[s] \notin Nat}
<1>1. ASSUME NEW s \in B, \A x \in s : s \ {x} \notin B PROVE FALSE
  <2>0. s \in SUBSET S /\ Sums(S)[s] \notin Nat
    OBVIOUS
  <2> HIDE DEF B
  <2>1. s # {} /\ Chosen(s) \in s /\ Sums(S)[s] = Cost[Chosen(s)] + Sums(S)[s \ {Chosen(s)}]
    <3>1. s = {} => Sums(S)[s] = 0
      BY <2>0, SumsUnfold
    <3>2. s # {}
      BY <2>0, <3>1
    <3> QED BY <2>0, <3>2, SumsUnfold
  <2>2. Cost[Chosen(s)] \in Nat /\ Sums(S)[s \ {Chosen(s)}] \in Nat
    BY <1>1, <2>0, <2>1, QueueAssumption DEF B
  <2> QED BY <2>0, <2>1, <2>2
<1>2. B = {}
  <2>1. B \in SUBSET (SUBSET S)
    OBVIOUS
  <2> HIDE DEF B
  <2> QED BY <1>1, <2>1, SmallestSubset
<1> QED BY <1>2

(* It does not depend on the larger set it was defined for. *)
LEMMA SumsAgree ==
  ASSUME NEW S, IsFiniteSet(S), NEW T \in SUBSET S
  PROVE  \A t \in SUBSET T : Sums(S)[t] = Sums(T)[t]
<1> DEFINE B == {t \in SUBSET T : Sums(S)[t] # Sums(T)[t]}
<1>0. IsFiniteSet(T)
  BY FS_Subset
<1>1. ASSUME NEW t \in B, \A x \in t : t \ {x} \notin B PROVE FALSE
  <2>0. t \in SUBSET S /\ t \in SUBSET T
    OBVIOUS
  <2>1. CASE t = {}
    BY <1>0, <2>0, <2>1, SumsUnfold
  <2>2. CASE t # {}
    <3>1. /\ Chosen(t) \in t
          /\ Sums(S)[t] = Cost[Chosen(t)] + Sums(S)[t \ {Chosen(t)}]
          /\ Sums(T)[t] = Cost[Chosen(t)] + Sums(T)[t \ {Chosen(t)}]
      BY <1>0, <2>0, <2>2, SumsUnfold
    <3>2. Sums(S)[t \ {Chosen(t)}] = Sums(T)[t \ {Chosen(t)}]
      BY <1>1, <3>1
    <3> QED BY <3>1, <3>2
  <2> QED BY <2>1, <2>2
<1>2. B = {}
  <2>1. B \in SUBSET (SUBSET T)
    OBVIOUS
  <2> HIDE DEF B
  <2> QED BY <1>0, <1>1, <2>1, SmallestSubset
<1> QED BY <1>2

(* It does not depend on which element is taken away first. *)
LEMMA SumsPeel ==
  ASSUME NEW S \in SUBSET Jobs, IsFiniteSet(S)
  PROVE  \A s \in SUBSET S : \A y \in s : Sums(S)[s] = Cost[y] + Sums(S)[s \ {y}]
<1> DEFINE Peels(s) == \A y \in s : Sums(S)[s] = Cost[y] + Sums(S)[s \ {y}]
           B == {s \in SUBSET S : ~ Peels(s)}
<1>1. ASSUME NEW s \in B, \A x \in s : s \ {x} \notin B PROVE FALSE
  <2>1. PICK y \in s : Sums(S)[s] # Cost[y] + Sums(S)[s \ {y}]
    BY <1>1
  <2> DEFINE z == Chosen(s)
             rest == (s \ {y}) \ {z}
  <2>2. s \in SUBSET S /\ z \in s /\ Sums(S)[s] = Cost[z] + Sums(S)[s \ {z}]
    BY SumsUnfold
  <2> HIDE DEF z
  <2>3. z # y
    BY <2>1, <2>2
  <2>4. s \ {z} \in SUBSET S /\ s \ {y} \in SUBSET S /\ rest = (s \ {z}) \ {y}
    BY <2>2
  <2>5. Peels(s \ {z}) /\ Peels(s \ {y})
    BY <1>1, <2>2, <2>4
  <2>6. Sums(S)[s \ {z}] = Cost[y] + Sums(S)[rest]
    BY <2>3, <2>4, <2>5
  <2>7. Sums(S)[s \ {y}] = Cost[z] + Sums(S)[rest]
    BY <2>2, <2>3, <2>5
  <2>8. Cost[y] \in Nat /\ Cost[z] \in Nat /\ Sums(S)[rest] \in Nat
    <3>1. y \in Jobs /\ z \in Jobs /\ rest \in SUBSET S
      BY <2>2
    <3> HIDE DEF rest
    <3> QED BY <3>1, SumsAreNumbers, QueueAssumption
  <2> HIDE DEF rest
  <2> QED BY <2>1, <2>2, <2>6, <2>7, <2>8
<1>2. B = {}
  <2>1. B \in SUBSET (SUBSET S)
    OBVIOUS
  <2> HIDE DEF B
  <2> QED BY <1>1, <2>1, SmallestSubset
<1> QED BY <1>2

(* What the counters need: the sum over no job, and over one job more. *)
LEMMA SumOfNone == SumOfCosts({}) = 0
BY FS_EmptySet, SumIsAtTheTop, SumsUnfold

LEMMA SumIsNat ==
  ASSUME NEW S \in SUBSET Jobs, IsFiniteSet(S)
  PROVE  SumOfCosts(S) \in Nat
BY SumIsAtTheTop, SumsAreNumbers

LEMMA SumOfOneLess ==
  ASSUME NEW S \in SUBSET Jobs, IsFiniteSet(S), NEW y \in S
  PROVE  SumOfCosts(S) = Cost[y] + SumOfCosts(S \ {y})
<1>1. Sums(S)[S] = Cost[y] + Sums(S)[S \ {y}]
  BY SumsPeel
<1>2. Sums(S)[S \ {y}] = Sums(S \ {y})[S \ {y}]
  BY SumsAgree
<1> QED BY <1>1, <1>2, SumIsAtTheTop

LEMMA SumOfOneMore ==
  ASSUME NEW S \in SUBSET Jobs, IsFiniteSet(S), NEW y \in Jobs \ S
  PROVE  SumOfCosts(S \cup {y}) = SumOfCosts(S) + Cost[y]
<1>1. /\ S \cup {y} \in SUBSET Jobs /\ y \in S \cup {y} /\ (S \cup {y}) \ {y} = S
      /\ IsFiniteSet(S \cup {y})
  BY FS_AddElement
<1>2. SumOfCosts(S \cup {y}) = Cost[y] + SumOfCosts((S \cup {y}) \ {y})
  BY <1>1, SumOfOneLess
<1> QED BY <1>1, <1>2, SumIsNat, QueueAssumption

(* The queue and the pool hold finitely many jobs. *)
LEMMA HeldAreFinite ==
  ASSUME TypeOK
  PROVE  Held \in SUBSET Jobs /\ IsFiniteSet(Held)
<1>1. IsFiniteSet(Busy)
  BY QueueAssumption, FS_Subset DEF Busy
<1>2. Held \in SUBSET Jobs
  BY DEF TypeOK, Held, Busy
<1>3. [w \in Busy |-> holding[w]] \in Surjection(Busy, Held)
  BY DEF Held, Surjection
<1> QED BY <1>1, <1>2, <1>3, FS_Surjection

LEMMA QueuedAreFinite ==
  ASSUME TypeOK
  PROVE  Range(pending) \in SUBSET Jobs /\ IsFiniteSet(Range(pending))
<1>1. /\ pending \in Seq(Jobs) /\ Len(pending) \in Nat
      /\ DOMAIN pending = 1..Len(pending)
  BY LenProperties DEF TypeOK
<1>2. Range(pending) \in SUBSET Jobs
  BY <1>1, ElementOfSeq DEF Range
<1>3. [i \in DOMAIN pending |-> pending[i]] \in Surjection(DOMAIN pending, Range(pending))
  BY DEF Range, Surjection
<1>4. IsFiniteSet(DOMAIN pending)
  BY <1>1, FS_Interval
<1> QED BY <1>2, <1>3, <1>4, FS_Surjection

(* The two sums follow from one another only with OnePlaceInv: a job queued
   twice would be counted twice, and taken off once. *)
CostsAgree ==
  /\ activeCost = SumOfCosts(Held)
  /\ pendingCost = SumOfCosts(Range(pending))

(* A saturating subtraction of what is in a sum is exact. *)
LEMMA MonusIsExact == ASSUME NEW a \in Nat, NEW b \in Nat PROVE Monus(a + b, a) = b
BY DEF Monus

LEMMA CostsAgreeKept ==
  ASSUME TypeOK, OnePlaceInv, TypeOK', OnePlaceInv', CostsAgree, [Next]_vars
  PROVE  CostsAgree'
<1>0. /\ Held \in SUBSET Jobs /\ IsFiniteSet(Held)
      /\ Range(pending) \in SUBSET Jobs /\ IsFiniteSet(Range(pending))
  BY HeldAreFinite, QueuedAreFinite
<1>1. ASSUME NEW j \in Jobs, Enqueue(j) PROVE CostsAgree'
  <2>1. Range(pending') = Range(pending) \cup {j}
    BY <1>1, EnqueueShape
  <2>2. j \notin Range(pending)
    BY <1>1 DEF Enqueue, OnePlaceInv, Known
  <2>3. SumOfCosts(Range(pending')) = SumOfCosts(Range(pending)) + Cost[j]
    BY <1>0, <2>1, <2>2, SumOfOneMore
  <2>4. Held' = Held /\ activeCost' = activeCost /\ pendingCost' = pendingCost + Cost[j]
    BY <1>1 DEF Enqueue, Held, Busy
  <2> QED BY <2>3, <2>4 DEF CostsAgree
<1>2. ASSUME NEW w \in Workers, Take(w) PROVE CostsAgree'
  <2>1. PICK i \in Startable :
          /\ i \in 1..Len(pending)
          /\ pending[i] \in Jobs
          /\ pendingCost' = Monus(pendingCost, Cost[pending[i]])
          /\ activeCost' = activeCost + Cost[pending[i]]
          /\ holding' = [holding EXCEPT ![w] = pending[i]]
    BY <1>2, TakeShape
  <2> DEFINE j == pending[i]
  <2>2. j \in Range(pending) /\ Range(pending') = Range(pending) \ {j}
    <3>1. PICK k \in Range(pending) :
            /\ holding' = [holding EXCEPT ![w] = k]
            /\ Range(pending') = Range(pending) \ {k}
      BY <1>2, TakeLeavesTheOthers DEF OnePlaceInv, OnePlaceEach
    <3>2. j = k
      BY <2>1, <3>1 DEF TypeOK
    <3> QED BY <3>1, <3>2
  <2>3. j \notin Held /\ Held' = Held \cup {j}
    <3>1. w \notin Busy /\ Busy' = Busy \cup {w}
      <4>1. j \in Jobs /\ holding' = [holding EXCEPT ![w] = j]
        BY <2>1
      <4> HIDE DEF j
      <4> QED BY <1>2, <4>1, QueueAssumption DEF Take, Busy, TypeOK
    <3>2. Held' = Held \cup {j}
      BY <2>1, <3>1 DEF Held, Busy, TypeOK
    <3> QED BY <2>2, <3>2 DEF OnePlaceInv, OnePlaceEach
  <2>4. /\ j \in Jobs /\ pendingCost' = Monus(pendingCost, Cost[j])
        /\ activeCost' = activeCost + Cost[j]
    BY <2>1
  <2> HIDE DEF j
  <2>5. SumOfCosts(Held') = SumOfCosts(Held) + Cost[j]
    BY <1>0, <2>3, <2>4, SumOfOneMore
  <2>6. SumOfCosts(Range(pending)) = Cost[j] + SumOfCosts(Range(pending'))
    BY <1>0, <2>2, SumOfOneLess
  <2>7. SumOfCosts(Range(pending')) \in Nat /\ Cost[j] \in Nat
    BY <1>0, <2>2, <2>4, SumIsNat, FS_Subset, QueueAssumption
  <2> QED BY <2>4, <2>5, <2>6, <2>7, MonusIsExact DEF CostsAgree
<1>3. ASSUME NEW w \in Workers, Sleep(w) PROVE CostsAgree'
  BY <1>3 DEF Sleep, CostsAgree, Held, Busy
<1>4. ASSUME NEW w \in Workers, WakeSpuriously(w) PROVE CostsAgree'
  BY <1>4 DEF WakeSpuriously, CostsAgree, Held, Busy
<1>5. ASSUME NEW w \in Workers, Finish(w) PROVE CostsAgree'
  <2> DEFINE j == holding[w]
  <2>1. w \in Busy /\ Busy' = Busy \ {w} /\ \A x \in Busy' : holding'[x] = holding[x]
    BY <1>5 DEF Finish, Busy, TypeOK
  <2>2. j \in Held /\ j \in Jobs
    BY <1>0, <2>1 DEF Held
  <2>3. Held' = Held \ {j}
    <3>1. \A x \in Busy' : x \in Busy /\ holding[x] # j
      BY <2>1 DEF OnePlaceInv, OnePlaceEach
    <3>2. \A x \in Busy : holding[x] # j => x \in Busy'
      BY <2>1
    <3>3. Held' = {holding'[x] : x \in Busy'}
      BY DEF Held
    <3> HIDE DEF j
    <3> QED BY <2>1, <3>1, <3>2, <3>3 DEF Held
  <2>4. activeCost' = Monus(activeCost, Cost[j]) /\ UNCHANGED <<pending, pendingCost>>
    BY <1>5 DEF Finish
  <2> HIDE DEF j
  <2>5. SumOfCosts(Held) = Cost[j] + SumOfCosts(Held')
    BY <1>0, <2>2, <2>3, SumOfOneLess
  <2>6. SumOfCosts(Held') \in Nat /\ Cost[j] \in Nat
    BY <1>0, <2>2, <2>3, SumIsNat, FS_Subset, QueueAssumption
  <2> QED BY <2>4, <2>5, <2>6, MonusIsExact DEF CostsAgree
<1>6. CASE UNCHANGED vars
  BY <1>6 DEF vars, CostsAgree, Held, Busy
<1> QED BY <1>1, <1>2, <1>3, <1>4, <1>5, <1>6 DEF Next

(* The counters the admission test reads are exact after any sequence of
   submissions, starts and completions, whatever the jobs cost: no saturating
   subtraction ever hides a miscount, so no capacity leaks. *)
THEOREM CountersAreExact == Spec => []CountersAgree
<1>1. Init => CostsAgree
  <2> SUFFICES ASSUME Init PROVE CostsAgree
    OBVIOUS
  <2>1. Held = {} /\ Range(pending) = {}
    BY DEF Init, Held, Busy, Range
  <2> QED BY <2>1, SumOfNone DEF Init, CostsAgree
<1>2. TypeOK /\ OnePlaceInv /\ TypeOK' /\ OnePlaceInv' /\ CostsAgree /\ [Next]_vars
      => CostsAgree'
  BY CostsAgreeKept
<1>3. ActiveJobsCounted /\ CostsAgree => CountersAgree
  BY DEF ActiveJobsCounted, CostsAgree, CountersAgree
<1> QED BY <1>1, <1>2, <1>3, TypeCorrect, OnePlaceInvariant, ActiveJobsAreCounted, PTL DEF Spec
-----------------------------------------------------------------------------
OrderInv == CheapestThenOldest /\ Range(pending) \subseteq Range(arrived)

(* Equal prices are served in order of arrival: the history only grows, and a
   newcomer is placed behind every queued job of its own price. *)
THEOREM QueueIsOrdered == Spec => []CheapestThenOldest
<1>1. Init => OrderInv
  BY DEF Init, OrderInv, CheapestThenOldest, Range
<1>2. TypeOK /\ OrderInv /\ [Next]_vars => OrderInv'
  <2> SUFFICES ASSUME TypeOK, OrderInv, [Next]_vars
               PROVE  OrderInv'
    OBVIOUS
  <2>0. /\ Len(pending) \in Nat
        /\ DOMAIN pending = 1..Len(pending)
        /\ \A k \in 1..Len(pending) : pending[k] \in Jobs /\ Cost[pending[k]] \in Nat
    BY QueueAssumption, LenProperties, ElementOfSeq DEF TypeOK
  <2>1. ASSUME NEW j \in Jobs, Enqueue(j) PROVE OrderInv'
    <3>1. PICK i \in 1..Len(pending) + 1 :
            /\ InsertionPoint(i, j)
            /\ pending' \in Seq(Jobs)
            /\ Len(pending') = Len(pending) + 1
            /\ \A k \in 1..Len(pending) + 1 :
                 pending'[k] = IF k < i THEN pending[k]
                               ELSE IF k = i THEN j ELSE pending[k - 1]
            /\ Range(pending') = Range(pending) \cup {j}
      BY <2>1, EnqueueShape
    <3>2. DOMAIN pending' = 1..Len(pending) + 1
      BY <3>1, LenProperties
    <3>3. /\ arrived' = Append(arrived, j)
          /\ arrived \in Seq(Jobs)
      BY <2>1 DEF Enqueue, TypeOK
    <3>4. /\ Len(arrived) \in Nat
          /\ DOMAIN arrived = 1..Len(arrived)
          /\ DOMAIN arrived' = 1..Len(arrived) + 1
          /\ \A k \in 1..Len(arrived) : arrived'[k] = arrived[k]
          /\ arrived'[Len(arrived) + 1] = j
      BY <3>3, LenProperties, AppendProperties
    <3>5. Range(arrived') = Range(arrived) \cup {j}
      BY <3>4 DEF Range
    <3>6. ASSUME NEW a, NEW b, Precedes(arrived, a, b) PROVE Precedes(arrived', a, b)
      BY <3>4, <3>6 DEF Precedes
    <3>7. ASSUME NEW a \in Range(pending) PROVE Precedes(arrived', a, j)
      <4>1. PICK k \in DOMAIN arrived : arrived[k] = a
        BY <3>7 DEF OrderInv, Range
      <4>2. /\ k \in DOMAIN arrived' /\ Len(arrived) + 1 \in DOMAIN arrived'
            /\ k < Len(arrived) + 1 /\ arrived'[k] = a
        BY <3>4, <4>1
      <4> QED BY <3>4, <4>2 DEF Precedes
    <3>8. \A k \in 1..i - 1 : Cost[pending[k]] <= Cost[j]
      BY <3>1 DEF InsertionPoint
    <3>9. \A k \in i..Len(pending) : Cost[pending[k]] > Cost[j]
      <4> SUFFICES ASSUME NEW k \in i..Len(pending) PROVE Cost[pending[k]] > Cost[j]
        OBVIOUS
      <4>1. /\ Cost[pending[i]] > Cost[j]
            /\ Cost[pending[i]] \in Nat /\ Cost[pending[k]] \in Nat /\ Cost[j] \in Nat
        BY <2>0, <3>1, QueueAssumption, SMTT(30) DEF InsertionPoint
      <4>2. Cost[pending[i]] <= Cost[pending[k]]
        <5>1. CASE i = k
          BY <4>1, <5>1
        <5>2. CASE i < k
          BY <2>0, <4>1, <5>2, SMTT(30) DEF OrderInv, CheapestThenOldest
        <5> QED BY <5>1, <5>2
      <4> QED BY <4>1, <4>2
    <3>10. CheapestThenOldest'
      <4> SUFFICES ASSUME NEW k \in 1..Len(pending) + 1, NEW l \in 1..Len(pending) + 1, k < l
                   PROVE  \/ Cost[pending'[k]] < Cost[pending'[l]]
                          \/ /\ Cost[pending'[k]] = Cost[pending'[l]]
                             /\ Precedes(arrived', pending'[k], pending'[l])
        BY <3>2 DEF CheapestThenOldest
      <4>1. CASE k # i /\ l # i
        <5> DEFINE old(x) == IF x < i THEN x ELSE x - 1
        <5>1. /\ old(k) \in DOMAIN pending /\ old(l) \in DOMAIN pending /\ old(k) < old(l)
              /\ pending'[k] = pending[old(k)] /\ pending'[l] = pending[old(l)]
          BY <2>0, <3>1, <4>1
        <5> HIDE DEF old
        <5> QED BY <3>6, <5>1 DEF OrderInv, CheapestThenOldest
      <4>2. CASE l = i
        <5>1. k \in 1..i - 1 /\ k \in DOMAIN pending /\ pending'[k] = pending[k] /\ pending'[l] = j
          BY <2>0, <3>1, <4>2
        <5>2. Cost[pending[k]] \in Nat /\ Cost[j] \in Nat /\ Cost[pending[k]] <= Cost[j]
          BY <2>0, <3>8, <5>1, QueueAssumption
        <5>3. Precedes(arrived', pending[k], j)
          BY <3>7, <5>1 DEF Range
        <5> QED BY <5>1, <5>2, <5>3
      <4>3. CASE k = i
        <5>1. l - 1 \in i..Len(pending) /\ pending'[k] = j /\ pending'[l] = pending[l - 1]
          BY <2>0, <3>1, <4>3
        <5>2. Cost[pending[l - 1]] > Cost[j]
          BY <3>9, <5>1
        <5>3. Cost[pending[l - 1]] \in Nat /\ Cost[j] \in Nat
          BY <2>0, <5>1, QueueAssumption
        <5> QED BY <5>1, <5>2, <5>3
      <4> QED BY <4>1, <4>2, <4>3
    <3> QED BY <3>1, <3>5, <3>10 DEF OrderInv
  <2>2. ASSUME NEW w \in Workers, Take(w) PROVE OrderInv'
    <3>1. PICK i \in Startable :
            /\ i \in 1..Len(pending)
            /\ pending' \in Seq(Jobs)
            /\ Len(pending') = Len(pending) - 1
            /\ \A k \in 1..Len(pending) - 1 :
                 pending'[k] = IF k < i THEN pending[k] ELSE pending[k + 1]
            /\ Range(pending) = Range(pending') \cup {pending[i]}
      BY <2>2, TakeShape
    <3>2. DOMAIN pending' = 1..Len(pending) - 1 /\ arrived' = arrived
      BY <2>0, <2>2, <3>1, LenProperties DEF Take
    <3>3. CheapestThenOldest'
      <4> SUFFICES ASSUME NEW k \in 1..Len(pending) - 1, NEW l \in 1..Len(pending) - 1, k < l
                   PROVE  \/ Cost[pending'[k]] < Cost[pending'[l]]
                          \/ /\ Cost[pending'[k]] = Cost[pending'[l]]
                             /\ Precedes(arrived, pending'[k], pending'[l])
        BY <3>2 DEF CheapestThenOldest
      <4> DEFINE old(x) == IF x < i THEN x ELSE x + 1
      <4>1. /\ old(k) \in DOMAIN pending /\ old(l) \in DOMAIN pending /\ old(k) < old(l)
            /\ pending'[k] = pending[old(k)] /\ pending'[l] = pending[old(l)]
        BY <2>0, <3>1
      <4> HIDE DEF old
      <4> QED BY <4>1 DEF OrderInv, CheapestThenOldest
    <3> QED BY <3>1, <3>2, <3>3 DEF OrderInv
  <2>3. ASSUME NEW w \in Workers, Sleep(w) PROVE OrderInv'
    BY <2>3 DEF Sleep, OrderInv, CheapestThenOldest
  <2>4. ASSUME NEW w \in Workers, WakeSpuriously(w) PROVE OrderInv'
    BY <2>4 DEF WakeSpuriously, OrderInv, CheapestThenOldest
  <2>5. ASSUME NEW w \in Workers, Finish(w) PROVE OrderInv'
    BY <2>5 DEF Finish, OrderInv, CheapestThenOldest
  <2>6. CASE UNCHANGED vars
    BY <2>6 DEF vars, OrderInv, CheapestThenOldest
  <2> QED BY <2>1, <2>2, <2>3, <2>4, <2>5, <2>6 DEF Next
<1>3. Spec => []OrderInv
  BY <1>1, <1>2, TypeCorrect, PTL DEF Spec
<1>4. OrderInv => CheapestThenOldest
  BY DEF OrderInv
<1> QED BY <1>3, <1>4, PTL
-----------------------------------------------------------------------------
(* The queue implements the safety part of a job pool: every step submits,
   starts or ends one job, or changes nothing a client sees. *)
THEOREM ImplementsPoolSafety == Spec => Pool!Safety
<1>1. Init => Pool!Init
  BY DEF Init, Pool!Init, Busy, Held, Range
<1>2. TypeOK /\ OnePlaceInv /\ [Next]_vars => [Pool!Next]_(Pool!vars)
  <2> SUFFICES ASSUME TypeOK, OnePlaceInv, [Next]_vars
               PROVE  Pool!Next \/ UNCHANGED Pool!vars
    BY DEF Pool!vars
  <2> USE DEF OnePlaceInv, OnePlaceEach, Known
  <2>1. ASSUME NEW j \in Jobs, Enqueue(j) PROVE Pool!Next
    <3>1. Range(pending') = Range(pending) \cup {j}
      BY <2>1, EnqueueShape
    <3>2. Held' = Held
      BY <2>1 DEF Enqueue, Busy, Held
    <3>3. j \notin Range(arrived)
      BY <2>1 DEF Enqueue
    <3>4. Range(arrived') = Range(arrived) \cup {j}
      <4>1. arrived' = Append(arrived, j) /\ arrived \in Seq(Jobs)
        BY <2>1 DEF Enqueue, TypeOK
      <4>2. /\ Len(arrived) \in Nat
            /\ DOMAIN arrived = 1..Len(arrived)
            /\ DOMAIN arrived' = 1..Len(arrived) + 1
            /\ \A k \in 1..Len(arrived) : arrived'[k] = arrived[k]
            /\ arrived'[Len(arrived) + 1] = j
        BY <4>1, LenProperties, AppendProperties
      <4> QED BY <4>2 DEF Range
    <3>5. Pool!Submit(j)
      BY <3>1, <3>2, <3>3, <3>4 DEF Pool!Submit
    <3> QED BY <3>5 DEF Pool!Next
  <2>2. ASSUME NEW w \in Workers, Take(w) PROVE Pool!Next
    <3>1. PICK j \in Range(pending) :
            /\ j \in Jobs
            /\ holding' = [holding EXCEPT ![w] = j]
            /\ Range(pending') = Range(pending) \ {j}
      BY <2>2, TakeLeavesTheOthers
    <3>2. w \notin Busy /\ Busy' = Busy \cup {w}
      BY <2>2, <3>1, QueueAssumption DEF Take, Busy, TypeOK
    <3>3. Held' = Held \cup {j} /\ j \notin Held
      BY <3>1, <3>2 DEF Held, Busy, TypeOK
    <3>4. arrived' = arrived
      BY <2>2 DEF Take
    <3>5. Pool!Start(j)
      BY <3>1, <3>3, <3>4 DEF Pool!Start
    <3> QED BY <3>1, <3>5 DEF Pool!Next
  <2>3. ASSUME NEW w \in Workers, Sleep(w) PROVE UNCHANGED Pool!vars
    BY <2>3 DEF Sleep, Held, Busy, Pool!vars
  <2>4. ASSUME NEW w \in Workers, WakeSpuriously(w) PROVE UNCHANGED Pool!vars
    BY <2>4 DEF WakeSpuriously, Held, Busy, Pool!vars
  <2>5. ASSUME NEW w \in Workers, Finish(w) PROVE Pool!Next
    <3> DEFINE j == holding[w]
    <3>1. /\ j \in Held /\ j \in Jobs /\ w \in Busy
          /\ Busy' = Busy \ {w}
          /\ \A x \in Busy' : holding'[x] = holding[x]
      BY <2>5 DEF Finish, Busy, Held, TypeOK
    <3>2. Held' = Held \ {j}
      BY <3>1 DEF Held
    <3>3. UNCHANGED <<pending, arrived>>
      BY <2>5 DEF Finish
    <3>4. Pool!End(j)
      BY <3>1, <3>2, <3>3 DEF Pool!End
    <3> QED BY <3>1, <3>4 DEF Pool!Next
  <2>6. CASE UNCHANGED vars
    BY <2>6 DEF vars, Held, Busy, Pool!vars
  <2> QED BY <2>1, <2>2, <2>3, <2>4, <2>5, <2>6 DEF Next
<1> QED BY <1>1, <1>2, TypeCorrect, OnePlaceInvariant, PTL DEF Spec, Pool!Safety
=============================================================================
