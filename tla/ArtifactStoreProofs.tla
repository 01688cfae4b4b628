------------------------ MODULE ArtifactStoreProofs ------------------------
(***************************************************************************)
(* Proofs about the stored analyses, for any processes, threads, caps and  *)
(* number of calls.                                                        *)
(***************************************************************************)
EXTENDS ArtifactStore, FiniteSetTheorems, NaturalsInduction, TLAPS

(* The inductive invariant.                                                *)

MapSteps == {"artifacts", "dirs", "order"}
PurgeSteps == {"purge order", "purge artifacts", "purge dirs"}
LookSteps == {"list", "load", "read", "pick", "amend"}
DiskOps == {"store", "get", "upsert", "lookup"}

(* Which call goes which way, and where it has an analysis in hand. *)
StepOfCall(t) ==
  /\ job[t].at = "publish" => job[t].op = "store"
  /\ job[t].at \in MapSteps \cup PurgeSteps \cup {"prune"} => job[t].op \in DiskOps
  /\ job[t].at \in LookSteps => job[t].op \in DiskOps \ {"store"}
  /\ job[t].op \in {"store", "get", "upsert"} => job[t].target \in Artifacts
  /\ job[t].at \in MapSteps \cup {"read", "amend"} => job[t].target \in Artifacts

(* A call that only reads has noted all that was ever on the disk during it. *)
ShelfIsSeen(t) == Working(t) /\ job[t].op # "store" => shelf \subseteq job[t].seen

(* What a thread enters is on the disk, or was removed meanwhile. *)
EntryIsThere(t) ==
  job[t].at \in MapSteps => job[t].target \in shelf \cup overlapped[ServerOf[t]]

(* What comes back into the first map before the second is purged is an overlap. *)
PurgeOverlaps(t) ==
  LET kept == resident[ServerOf[t]]["artifacts"]
  IN  /\ job[t].at = "purge dirs" => job[t].purge \cap kept \subseteq overlapped[ServerOf[t]]
      /\ job[t].at = "clear dirs" => kept \subseteq overlapped[ServerOf[t]]

(* From its prune on a call that reads finds in the second map only what it has seen on
   the disk. *)
DirsAreSeen(t) ==
  LET known == job[t].seen \cup overlapped[ServerOf[t]]
      dirs == resident[ServerOf[t]]["dirs"]
  IN  job[t].op # "store" =>
        /\ job[t].at \in PurgeSteps => dirs \ job[t].purge \subseteq known
        /\ job[t].at \in MapSteps \cup LookSteps => dirs \subseteq known

CallInv(t) ==
  StepOfCall(t) /\ ShelfIsSeen(t) /\ EntryIsThere(t) /\ PurgeOverlaps(t) /\ DirsAreSeen(t)

(* What the first map holds the second holds, or is about to. *)
EnteringDirs(s) ==
  {job[u].target : u \in {w \in Workers : ServerOf[w] = s /\ job[w].at = "dirs"}}

MapsAgree ==
  \A s \in Servers :
    resident[s]["artifacts"] \subseteq resident[s]["dirs"] \cup overlapped[s] \cup EnteringDirs(s)

(* What was evicted, and what is being evicted, had expired or had a cap of newer ones. *)
Doomed == UNION {job[t].evict : t \in {u \in Workers : job[u].at \in PurgeSteps}}

OutlivedOnly ==
  /\ shelf \subseteq stored
  /\ (stored \ shelf) \cup Doomed \subseteq Old(stored) \cup Excess(stored)

(* The disk holds more than the cap only for the stores that have not pruned it yet. *)
Unpruned ==
  {t \in Workers : job[t].op = "store" /\ job[t].at \in MapSteps \cup {"prune"}}

Fresh == {a \in shelf : a > expired} \ Doomed

CapByStores == Cardinality(Fresh) <= ArtifactCap + Cardinality(Unpruned)

ArtifactInv ==
  /\ ArtifactTypeOK /\ (\A t \in Workers : CallInv(t)) /\ MapsAgree
  /\ HandedOutWasThere /\ OutlivedOnly /\ CapByStores
-----------------------------------------------------------------------------
(* Sets of analyses *)

LEMMA SetsAreFinite ==
  ASSUME NEW as \in SUBSET Artifacts
  PROVE  IsFiniteSet(as) /\ Cardinality(as) \in Nat /\ as \subseteq Nat
<1>1. MaxStores \in Nat
  BY ArtifactAssumption
<1>2. IsFiniteSet(Artifacts) /\ Artifacts \subseteq Nat
  BY <1>1, FS_Interval DEF Artifacts
<1>3. IsFiniteSet(as)
  BY <1>2, FS_Subset
<1> QED BY <1>2, <1>3, FS_CardinalityType

LEMMA FewerOrAsMany ==
  ASSUME NEW as \in SUBSET Artifacts, NEW bs \in SUBSET as
  PROVE  Cardinality(bs) <= Cardinality(as)
<1>1. IsFiniteSet(as)
  BY SetsAreFinite
<1> QED BY <1>1, FS_Subset

(* What is evicted from some of the analyses would be evicted from all of them. *)
LEMMA ExcessGrows ==
  ASSUME NEW all \in SUBSET Artifacts, NEW some \in SUBSET all
  PROVE  Old(some) \subseteq Old(all) /\ Excess(some) \subseteq Excess(all)
<1>1. ASSUME NEW a \in some
      PROVE  Cardinality({b \in some : b > a}) <= Cardinality({b \in all : b > a})
  BY FewerOrAsMany
<1>2. ASSUME NEW a \in some
      PROVE  /\ Cardinality({b \in some : b > a}) \in Nat
             /\ Cardinality({b \in all : b > a}) \in Nat
  BY SetsAreFinite
<1>3. ASSUME NEW a \in some, Cardinality({b \in some : b > a}) >= ArtifactCap
      PROVE  Cardinality({b \in all : b > a}) >= ArtifactCap
  <2> DEFINE m == Cardinality({b \in some : b > a})
             n == Cardinality({b \in all : b > a})
  <2>1. m <= n /\ m \in Nat /\ n \in Nat /\ m >= ArtifactCap
    BY <1>1, <1>2, <1>3
  <2> HIDE DEF m, n
  <2>2. n >= ArtifactCap
    BY <2>1, ArtifactAssumption
  <2> QED BY <2>2 DEF n
<1> QED BY <1>3 DEF Old, Excess

LEMMA LeastOfSome ==
  ASSUME NEW some \in SUBSET Nat, some # {}
  PROVE  \E least \in some : \A a \in some : least <= a
<1>1. PICK x \in some : \A y \in some : ~(<<y, x>> \in OpToRel(<, Nat))
  BY NatLessThanWellFounded, WFMin
<1>2. \A y \in some : ~(y < x)
  <2> SUFFICES ASSUME NEW y \in some, y < x PROVE FALSE
    OBVIOUS
  <2>1. <<y, x>> \in OpToRel(<, Nat)
    BY DEF OpToRel
  <2> QED BY <1>1, <2>1
<1> QED BY <1>2

(* An eviction leaves no more than the cap. *)
LEMMA KeptIsCapped ==
  ASSUME NEW as \in SUBSET Artifacts
  PROVE  Cardinality(as \ Excess(as)) <= ArtifactCap
<1> DEFINE kept == as \ Excess(as)
<1>1. /\ kept \subseteq as /\ as \subseteq Nat
      /\ \A a \in kept : ~(Cardinality({b \in as : b > a}) >= ArtifactCap)
  <2>1. as \subseteq Nat
    BY SetsAreFinite
  <2> QED BY <2>1, Zenon DEF Excess
<1> HIDE DEF kept
<1>2. CASE kept = {}
  <2>1. Cardinality(kept) = 0
    BY <1>2, FS_EmptySet
  <2> QED BY <2>1, ArtifactAssumption DEF kept
<1>3. CASE kept # {}
  <2>1. PICK least \in kept : \A a \in kept : least <= a
    BY <1>1, <1>3, LeastOfSome
  <2> DEFINE newer == {b \in as : b > least}
  <2>2. newer \in SUBSET Artifacts /\ newer \cup {least} \in SUBSET Artifacts
    BY <1>1
  <2>3. kept \subseteq newer \cup {least} /\ least \notin newer
    <3>1. least \in Nat /\ least \in as /\ ~(least > least)
      <4>1. least \in Nat /\ least \in as
        BY <1>1, <2>1
      <4>2. ~(least > least)
        BY <4>1
      <4> QED BY <4>1, <4>2
    <3>2. ASSUME NEW a \in kept PROVE a \in as /\ (a > least \/ a = least)
      <4>1. a \in as /\ a \in Nat /\ least <= a
        BY <1>1, <2>1
      <4>2. least \in Nat
        BY <3>1
      <4>3. a > least \/ a = least
        BY <4>1, <4>2
      <4> QED BY <4>1, <4>3
    <3>3. \A a \in kept : a \in newer \cup {least}
      BY <3>2
    <3>4. least \notin newer
      BY <3>1
    <3> QED BY <3>3, <3>4
  <2>4. ~(Cardinality(newer) >= ArtifactCap)
    BY <1>1, <2>1, Zenon
  <2> HIDE DEF newer
  <2>5. /\ IsFiniteSet(newer) /\ Cardinality(newer) \in Nat /\ Cardinality(kept) \in Nat
    BY <1>1, <2>2, SetsAreFinite
  <2>6. Cardinality(newer \cup {least}) = Cardinality(newer) + 1
    BY <2>3, <2>5, FS_AddElement
  <2>7. Cardinality(kept) <= Cardinality(newer \cup {least})
    BY <2>2, <2>3, FewerOrAsMany
  <2>8. Cardinality(kept) <= ArtifactCap
    BY <2>4, <2>5, <2>6, <2>7, ArtifactAssumption
  <2> QED BY <2>8 DEF kept
<1> QED BY <1>2, <1>3
-----------------------------------------------------------------------------
(* Calls *)

LEMMA JobTypes ==
  /\ NoJob \in Jobs /\ NoJob.at = "idle" /\ NoJob.op = "none" /\ NoJob.target = NoArtifact
  /\ NoJob.seen = {} /\ NoJob.evict = {} /\ NoJob.purge = {}
  /\ NoArtifact \notin Artifacts
BY DEF NoJob, Jobs, JobOps, JobSteps, NoArtifact, Artifacts

(* A step of one thread changes of the others' calls what they have seen, at most. *)
Others(t) ==
  /\ job' \in [Workers -> Jobs]
  /\ \A u \in Workers \ {t} :
       /\ job'[u].at = job[u].at /\ job'[u].op = job[u].op
       /\ job'[u].target = job[u].target /\ job'[u].todo = job[u].todo
       /\ job'[u].evict = job[u].evict /\ job'[u].purge = job[u].purge
       /\ job'[u].seen = IF Working(u) THEN job[u].seen \cup shelf' ELSE job[u].seen

LEMMA OthersNote ==
  ASSUME ArtifactTypeOK, NEW t \in Workers, NEW new \in Jobs, Goes(t, new), shelf' \subseteq Artifacts
  PROVE  Others(t) /\ job'[t] = new
<1> USE DEF ArtifactTypeOK
<1>1. job' = [u \in Workers |-> IF u = t THEN new
                ELSE [job[u] EXCEPT !.seen = IF Working(u) THEN @ \cup shelf' ELSE @]]
  BY DEF Goes
<1>2. job'[t] = new
  BY <1>1
<1>3. ASSUME NEW u \in Workers \ {t}
      PROVE  /\ job'[u] \in Jobs
             /\ job'[u].at = job[u].at /\ job'[u].op = job[u].op
             /\ job'[u].target = job[u].target /\ job'[u].todo = job[u].todo
             /\ job'[u].evict = job[u].evict /\ job'[u].purge = job[u].purge
             /\ job'[u].seen = IF Working(u) THEN job[u].seen \cup shelf' ELSE job[u].seen
  <2> DEFINE saw == IF Working(u) THEN job[u].seen \cup shelf' ELSE job[u].seen
  <2>1. job[u] \in Jobs
    OBVIOUS
  <2>2. saw \in SUBSET Artifacts
    BY <2>1 DEF Jobs
  <2>3. job'[u] = [job[u] EXCEPT !.seen = saw]
    BY <1>1
  <2> HIDE DEF saw
  <2>4. /\ job'[u] \in Jobs /\ job'[u].seen = saw
        /\ job'[u].at = job[u].at /\ job'[u].op = job[u].op
        /\ job'[u].target = job[u].target /\ job'[u].todo = job[u].todo
        /\ job'[u].evict = job[u].evict /\ job'[u].purge = job[u].purge
    BY <2>1, <2>2, <2>3 DEF Jobs
  <2> QED BY <2>4 DEF saw
<1>4. job' \in [Workers -> Jobs]
  <2>1. job' = [u \in Workers |-> job'[u]]
    BY <1>1
  <2> QED BY <1>2, <1>3, <2>1
<1> QED BY <1>2, <1>3, <1>4 DEF Others

(* The call goes on at another step, with all it has. *)
LEMMA AtMoves ==
  ASSUME ArtifactTypeOK, NEW t \in Workers, NEW at \in JobSteps, At(t, at), shelf' \subseteq Artifacts
  PROVE  /\ Others(t) /\ UNCHANGED unseen
         /\ job'[t].at = at /\ job'[t].op = job[t].op
         /\ job'[t].target = job[t].target /\ job'[t].todo = job[t].todo
         /\ job'[t].evict = job[t].evict /\ job'[t].purge = job[t].purge
         /\ job'[t].seen = job[t].seen
<1> DEFINE new == [job[t] EXCEPT !.at = at]
<1>1. job[t] \in Jobs
  BY DEF ArtifactTypeOK
<1>2. /\ new \in Jobs /\ new.at = at /\ new.op = job[t].op
      /\ new.target = job[t].target /\ new.todo = job[t].todo /\ new.evict = job[t].evict
      /\ new.purge = job[t].purge /\ new.seen = job[t].seen
  BY <1>1 DEF Jobs
<1>3. Goes(t, new) /\ UNCHANGED unseen
  BY DEF At
<1> HIDE DEF new
<1>4. Others(t) /\ job'[t] = new
  BY <1>2, <1>3, OthersNote
<1> QED BY <1>2, <1>3, <1>4

LEMMA ReturnsMoves ==
  ASSUME ArtifactTypeOK, NEW t \in Workers, NEW as \in SUBSET Artifacts, Returns(t, as),
         shelf' \subseteq Artifacts
  PROVE  /\ Others(t) /\ job'[t] = NoJob
         /\ unseen' \in [Servers -> SUBSET Artifacts]
         /\ \A s \in Servers : s # ServerOf[t] => unseen'[s] = unseen[s]
         /\ unseen'[ServerOf[t]] = unseen[ServerOf[t]] \cup (as \ (job[t].seen \cup shelf'))
<1>1. Others(t) /\ job'[t] = NoJob
  BY JobTypes, OthersNote DEF Returns
<1>2. unseen' = [unseen EXCEPT ![ServerOf[t]] = @ \cup (as \ (job[t].seen \cup shelf'))]
  BY DEF Returns
<1>3. ServerOf[t] \in Servers
  BY ArtifactAssumption
<1> QED BY <1>1, <1>2, <1>3 DEF ArtifactTypeOK

LEMMA LoadMoves ==
  ASSUME ArtifactTypeOK, NEW t \in Workers, NEW as \in SUBSET Artifacts, LoadOf(t, as),
         shelf' \subseteq Artifacts
  PROVE  /\ Others(t) /\ UNCHANGED unseen
         /\ job'[t].at = "load" /\ job'[t].op = job[t].op /\ job'[t].target = job[t].target
         /\ job'[t].seen = job[t].seen
<1> DEFINE new == [job[t] EXCEPT !.at = "load", !.todo = as]
<1>1. job[t] \in Jobs
  BY DEF ArtifactTypeOK
<1>2. /\ new \in Jobs /\ new.at = "load" /\ new.op = job[t].op
      /\ new.target = job[t].target /\ new.seen = job[t].seen
  BY <1>1 DEF Jobs, JobSteps
<1>3. Goes(t, new) /\ UNCHANGED unseen
  BY DEF LoadOf
<1> HIDE DEF new
<1>4. Others(t) /\ job'[t] = new
  BY <1>2, <1>3, OthersNote
<1> QED BY <1>2, <1>3, <1>4

LEMMA BeginMoves ==
  ASSUME ArtifactTypeOK, NEW t \in Workers, NEW op \in DiskOps \cup {"activate"},
         NEW a \in {NoArtifact} \cup Artifacts, BeginCall(t, op, a)
  PROVE  /\ Others(t) /\ ~Working(t) /\ artCalls' \in 0..MaxArtifactCalls
         /\ UNCHANGED <<unseen, shelf, stored, expired, resident, diskIo, overlapped>>
         /\ job'[t].op = op /\ job'[t].target = a /\ job'[t].seen = shelf
         /\ job'[t].at = CASE op = "store" -> "publish"
                           [] op = "activate" -> "clear artifacts"
                           [] OTHER -> "prune"
<1> DEFINE at == CASE op = "store" -> "publish"
                   [] op = "activate" -> "clear artifacts"
                   [] OTHER -> "prune"
           new == [NoJob EXCEPT !.op = op, !.target = a, !.seen = shelf, !.at = at]
<1>1. at \in JobSteps
  BY DEF JobSteps
<1>2. Goes(t, new) /\ ~Working(t) /\ UNCHANGED <<unseen, shelf, stored, expired, resident, diskIo, overlapped>>
  BY DEF BeginCall
<1>3. artCalls' \in 0..MaxArtifactCalls
  BY ArtifactAssumption DEF BeginCall, ArtifactTypeOK
<1> HIDE DEF at
<1>4. new \in Jobs /\ new.op = op /\ new.target = a /\ new.seen = shelf /\ new.at = at
  BY <1>1, JobTypes DEF Jobs, JobOps, DiskOps, ArtifactTypeOK
<1> HIDE DEF new
<1>5. Others(t) /\ job'[t] = new
  BY <1>2, <1>4, OthersNote DEF ArtifactTypeOK
<1> QED BY <1>2, <1>3, <1>4, <1>5 DEF at

LEMMA PruneMoves ==
  ASSUME ArtifactTypeOK, NEW t \in Workers, StartPrune(t)
  PROVE  /\ Others(t) /\ UNCHANGED unseen /\ job[t].at = "prune"
         /\ job'[t].at = "purge order" /\ job'[t].op = job[t].op
         /\ job'[t].target = job[t].target /\ job'[t].seen = job[t].seen
         /\ job'[t].evict = Evicted /\ job'[t].purge = Forgotten(t)
<1> DEFINE new == [job[t] EXCEPT !.at = "purge order", !.evict = Evicted, !.purge = Forgotten(t)]
<1>1. job[t] \in Jobs
  BY DEF ArtifactTypeOK
<1>2. Evicted \in SUBSET Artifacts /\ Forgotten(t) \in SUBSET Artifacts
  <2>1. ServerOf[t] \in Servers /\ "dirs" \in Maps
    BY ArtifactAssumption DEF Maps
  <2> QED BY <2>1 DEF Evicted, Old, Excess, Forgotten, MapsOf, ArtifactTypeOK
<1>3. /\ new \in Jobs /\ new.at = "purge order" /\ new.op = job[t].op
      /\ new.target = job[t].target /\ new.seen = job[t].seen
      /\ new.evict = Evicted /\ new.purge = Forgotten(t)
  BY <1>1, <1>2 DEF Jobs, JobSteps
<1>4. Goes(t, new) /\ UNCHANGED unseen /\ UNCHANGED shelf /\ job[t].at = "prune"
  BY DEF StartPrune, DiskUnchanged
<1> HIDE DEF new
<1>5. Others(t) /\ job'[t] = new
  BY <1>3, <1>4, OthersNote DEF ArtifactTypeOK
<1> QED BY <1>3, <1>4, <1>5
-----------------------------------------------------------------------------
(* What a step of one thread leaves to the others, and to what is said of all *)

Loaded(s, map) == resident[s][map]

Harmless(t) ==
  /\ Others(t)
  /\ \A s \in Servers : overlapped[s] \subseteq overlapped'[s]
  /\ \A u \in Workers, a \in shelf \ shelf' : Entering(u, a) => a \in overlapped'[ServerOf[u]]
  /\ \A s \in Servers :
       /\ Loaded(s, "dirs")' \subseteq Loaded(s, "dirs") \cup shelf' \cup overlapped'[s]
       /\ Purging(s) => Loaded(s, "artifacts")' \subseteq Loaded(s, "artifacts") \cup overlapped'[s]

LEMMA OthersKeep ==
  ASSUME ArtifactInv, NEW t \in Workers, NEW u \in Workers \ {t}, Harmless(t)
  PROVE  CallInv(u)'
<1> DEFINE s == ServerOf[u]
<1>1. s \in Servers /\ CallInv(u)
  BY ArtifactAssumption DEF ArtifactInv
<1>2. /\ job'[u].at = job[u].at /\ job'[u].op = job[u].op
      /\ job'[u].target = job[u].target /\ job'[u].purge = job[u].purge
      /\ job'[u].seen = IF Working(u) THEN job[u].seen \cup shelf' ELSE job[u].seen
  BY DEF Harmless, Others
<1>3. StepOfCall(u)'
  BY <1>1, <1>2 DEF CallInv, StepOfCall
<1>4. ShelfIsSeen(u)'
  BY <1>2 DEF ShelfIsSeen, Working
<1>5. EntryIsThere(u)'
  BY <1>1, <1>2 DEF CallInv, EntryIsThere, Harmless, Entering, MapSteps
<1>6. PurgeOverlaps(u)'
  <2>1. ASSUME job[u].at \in {"purge dirs", "clear dirs"}
        PROVE  Loaded(s, "artifacts")' \subseteq Loaded(s, "artifacts") \cup overlapped'[s]
    BY <1>1, <2>1 DEF Harmless, Purging
  <2>2. overlapped[s] \subseteq overlapped'[s]
    BY <1>1 DEF Harmless
  <2> QED BY <1>1, <1>2, <2>1, <2>2 DEF CallInv, PurgeOverlaps, Loaded
<1>7. DirsAreSeen(u)'
  <2>1. job[u].at \in PurgeSteps \cup MapSteps \cup LookSteps => Working(u)
    BY DEF PurgeSteps, MapSteps, LookSteps, Working
  <2>2. /\ overlapped[s] \subseteq overlapped'[s]
        /\ Loaded(s, "dirs")' \subseteq Loaded(s, "dirs") \cup shelf' \cup overlapped'[s]
    BY <1>1 DEF Harmless
  <2> QED BY <1>1, <1>2, <2>1, <2>2 DEF CallInv, DirsAreSeen, Loaded
<1> QED BY <1>3, <1>4, <1>5, <1>6, <1>7 DEF CallInv

LEMMA EnteringStays ==
  ASSUME NEW t \in Workers, Others(t), job[t].at # "dirs", NEW s \in Servers
  PROVE  EnteringDirs(s) \subseteq EnteringDirs(s)'
<1> SUFFICES ASSUME NEW u \in Workers, ServerOf[u] = s, job[u].at = "dirs"
             PROVE  job[u].target \in EnteringDirs(s)'
  BY DEF EnteringDirs
<1>1. job'[u].at = "dirs" /\ job'[u].target = job[u].target
  BY DEF Others
<1> QED BY <1>1 DEF EnteringDirs

(* What is being evicted does not change. *)
DoomedAlike(t) ==
  \/ job[t].at \notin PurgeSteps /\ job'[t].at \notin PurgeSteps
  \/ /\ job[t].at \in PurgeSteps /\ job'[t].at \in PurgeSteps
     /\ job'[t].evict = job[t].evict

LEMMA DoomedStays ==
  ASSUME NEW t \in Workers, Others(t)
  PROVE  /\ job'[t].at \notin PurgeSteps => Doomed' \subseteq Doomed
         /\ DoomedAlike(t) => Doomed' = Doomed
<1>1. \A u \in Workers \ {t} : job'[u].at = job[u].at /\ job'[u].evict = job[u].evict
  BY DEF Others
<1>2. \A a : a \in Doomed <=> \E u \in Workers : job[u].at \in PurgeSteps /\ a \in job[u].evict
  BY DEF Doomed
<1>3. \A a : a \in Doomed' <=> \E u \in Workers : job'[u].at \in PurgeSteps /\ a \in job'[u].evict
  BY DEF Doomed
<1>4. ASSUME job'[t].at \notin PurgeSteps
      PROVE  Doomed' \subseteq Doomed
  BY <1>1, <1>2, <1>3, <1>4
<1>5. ASSUME DoomedAlike(t)
      PROVE  Doomed' = Doomed
  <2>1. ASSUME NEW a \in Doomed PROVE a \in Doomed'
    <3>1. PICK u \in Workers : job[u].at \in PurgeSteps /\ a \in job[u].evict
      BY <1>2, <2>1
    <3>2. job'[u].at \in PurgeSteps /\ a \in job'[u].evict
      BY <1>1, <1>5, <3>1 DEF DoomedAlike
    <3> QED BY <1>3, <3>2
  <2>2. ASSUME NEW a \in Doomed' PROVE a \in Doomed
    <3>1. PICK u \in Workers : job'[u].at \in PurgeSteps /\ a \in job'[u].evict
      BY <1>3, <2>2
    <3>2. job[u].at \in PurgeSteps /\ a \in job[u].evict
      BY <1>1, <1>5, <3>1 DEF DoomedAlike
    <3> QED BY <1>2, <3>2
  <2> QED BY <2>1, <2>2
<1> QED BY <1>4, <1>5

(* A step that takes from the disk at most what had expired or was doomed. *)
LEMMA DiskShrinks ==
  ASSUME ArtifactInv, NEW t \in Workers, Others(t), UNCHANGED <<stored, expired>>,
         shelf' \subseteq shelf, shelf \ shelf' \subseteq Old(stored) \cup Doomed,
         Doomed' \subseteq Doomed, (Doomed \ Doomed') \cap shelf' = {},
         t \in Unpruned => t \in Unpruned'
  PROVE  OutlivedOnly' /\ CapByStores'
<1>1. OutlivedOnly'
  BY DEF ArtifactInv, OutlivedOnly, Old, Excess
<1>2. CapByStores'
  <2>1. Fresh' \subseteq Fresh
    BY DEF Fresh
  <2>2. Unpruned \subseteq Unpruned'
    <3>1. ASSUME NEW u \in Unpruned PROVE u \in Unpruned'
      BY <3>1 DEF Unpruned, Others
    <3> QED BY <3>1
  <2>3. Fresh \in SUBSET Artifacts /\ Fresh' \in SUBSET Artifacts
    BY <2>1 DEF Fresh, ArtifactInv, ArtifactTypeOK
  <2>4. Cardinality(Fresh') <= Cardinality(Fresh)
    BY <2>1, <2>3, FewerOrAsMany
  <2>5. /\ Cardinality(Unpruned) \in Nat /\ Cardinality(Unpruned') \in Nat
        /\ Cardinality(Unpruned) <= Cardinality(Unpruned')
    <3>1. IsFiniteSet(Unpruned')
      BY ArtifactAssumption, FS_Subset DEF Unpruned
    <3> QED BY <2>2, <3>1, FS_Subset, FS_CardinalityType
  <2>6. Cardinality(Fresh) \in Nat /\ Cardinality(Fresh') \in Nat /\ ArtifactCap \in Nat
    BY <2>3, SetsAreFinite, ArtifactAssumption
  <2>7. Cardinality(Fresh) <= ArtifactCap + Cardinality(Unpruned)
    BY DEF ArtifactInv, CapByStores
  <2>8. Cardinality(Fresh') <= ArtifactCap + Cardinality(Unpruned')
    BY <2>4, <2>5, <2>6, <2>7
  <2> QED BY <2>8 DEF CapByStores
<1> QED BY <1>1, <1>2

(* A step that leaves the disk and its two inner maps alone. *)
LEMMA QuietStep ==
  ASSUME ArtifactInv, NEW t \in Workers, Others(t), DoomedAlike(t),
         UNCHANGED <<shelf, stored, expired, overlapped>>,
         \A s \in Servers : /\ Loaded(s, "artifacts")' = Loaded(s, "artifacts")
                            /\ Loaded(s, "dirs")' = Loaded(s, "dirs"),
         job[t].at # "dirs", t \in Unpruned => t \in Unpruned',
         ArtifactTypeOK', CallInv(t)', HandedOutWasThere'
  PROVE  ArtifactInv'
<1>1. Harmless(t)
  BY DEF Harmless
<1>2. \A u \in Workers : CallInv(u)'
  BY <1>1, OthersKeep
<1>3. MapsAgree'
  BY EnteringStays DEF MapsAgree, ArtifactInv, Loaded
<1>4. Doomed' = Doomed
  BY DoomedStays
<1>5. OutlivedOnly' /\ CapByStores'
  BY <1>4, DiskShrinks
<1> QED BY <1>2, <1>3, <1>5 DEF ArtifactInv

(* What a call hands out, it has seen, or it is an overlap. *)
LEMMA Handed ==
  ASSUME ArtifactInv, NEW t \in Workers, NEW as \in SUBSET Artifacts, Returns(t, as),
         shelf' \subseteq Artifacts,
         \A s \in Servers : overlapped[s] \subseteq overlapped'[s],
         as \subseteq job[t].seen \cup shelf' \cup overlapped'[ServerOf[t]]
  PROVE  HandedOutWasThere'
<1>1. ServerOf[t] \in Servers /\ ArtifactTypeOK /\ HandedOutWasThere
  BY ArtifactAssumption DEF ArtifactInv
<1>2. /\ \A s \in Servers : s # ServerOf[t] => unseen'[s] = unseen[s]
      /\ unseen'[ServerOf[t]] = unseen[ServerOf[t]] \cup (as \ (job[t].seen \cup shelf'))
  BY <1>1, ReturnsMoves
<1> QED BY <1>1, <1>2 DEF HandedOutWasThere

(* An idle thread's call claims nothing. *)
LEMMA IdleCall ==
  ASSUME NEW t \in Workers, job'[t] = NoJob
  PROVE  CallInv(t)' /\ job'[t].at \notin PurgeSteps
BY JobTypes DEF CallInv, StepOfCall, ShelfIsSeen, EntryIsThere, PurgeOverlaps, DirsAreSeen,
   Working, MapSteps, PurgeSteps, LookSteps, DiskOps

LEMMA KnownOfCall ==
  ASSUME ArtifactInv, NEW t \in Workers
  PROVE  /\ ArtifactTypeOK /\ job[t] \in Jobs /\ ServerOf[t] \in Servers
         /\ StepOfCall(t) /\ ShelfIsSeen(t) /\ EntryIsThere(t)
         /\ PurgeOverlaps(t) /\ DirsAreSeen(t)
BY ArtifactAssumption DEF ArtifactInv, CallInv, ArtifactTypeOK
-----------------------------------------------------------------------------
(* Each action keeps the invariant *)

LEMMA BeginKeeps ==
  ASSUME ArtifactInv, NEW t \in Workers, NEW op \in DiskOps \cup {"activate"},
         NEW a \in {NoArtifact} \cup Artifacts, BeginCall(t, op, a),
         lastMade' \in 0..MaxStores, op \in {"store", "get", "upsert"} => a \in Artifacts
  PROVE  ArtifactInv'
<1>1. /\ Others(t) /\ ~Working(t) /\ artCalls' \in 0..MaxArtifactCalls
      /\ UNCHANGED <<unseen, shelf, stored, expired, resident, diskIo, overlapped>>
      /\ job'[t].op = op /\ job'[t].target = a /\ job'[t].seen = shelf
      /\ job'[t].at = CASE op = "store" -> "publish"
                        [] op = "activate" -> "clear artifacts"
                        [] OTHER -> "prune"
  BY BeginMoves DEF ArtifactInv
<1>2. ArtifactTypeOK'
  BY <1>1 DEF ArtifactInv, ArtifactTypeOK, Others
<1>3. CallInv(t)'
  BY <1>1 DEF CallInv, StepOfCall, ShelfIsSeen, EntryIsThere, PurgeOverlaps, DirsAreSeen,
     MapSteps, PurgeSteps, LookSteps, DiskOps
<1>4. HandedOutWasThere'
  BY <1>1 DEF ArtifactInv, HandedOutWasThere
<1>5. DoomedAlike(t) /\ job[t].at # "dirs" /\ t \notin Unpruned
  BY <1>1 DEF DoomedAlike, Working, PurgeSteps, Unpruned, MapSteps, DiskOps
<1>6. \A s \in Servers : /\ Loaded(s, "artifacts")' = Loaded(s, "artifacts")
                         /\ Loaded(s, "dirs")' = Loaded(s, "dirs")
  BY <1>1 DEF Loaded
<1> QED BY <1>1, <1>2, <1>3, <1>4, <1>5, <1>6, QuietStep

LEMMA StartStoreKeeps ==
  ASSUME ArtifactInv, NEW t \in Workers, StartStore(t)
  PROVE  ArtifactInv'
<1>1. lastMade \in Nat /\ lastMade < MaxStores /\ MaxStores \in Nat
  BY ArtifactAssumption DEF StartStore, ArtifactInv, ArtifactTypeOK
<1>2. lastMade + 1 \in Artifacts /\ lastMade' \in 0..MaxStores
  BY <1>1 DEF StartStore, Artifacts
<1>3. BeginCall(t, "store", lastMade + 1)
  BY DEF StartStore
<1> QED BY <1>2, <1>3, BeginKeeps DEF DiskOps

LEMMA StartUseKeeps ==
  ASSUME ArtifactInv, NEW t \in Workers, StartUse(t)
  PROVE  ArtifactInv'
<1>1. lastMade' \in 0..MaxStores /\ stored \subseteq Artifacts
  BY DEF StartUse, ArtifactInv, ArtifactTypeOK
<1>2. ASSUME NEW a \in stored, NEW op \in {"get", "upsert"}, BeginCall(t, op, a)
      PROVE  ArtifactInv'
  BY <1>1, <1>2, BeginKeeps DEF DiskOps
<1>3. ASSUME NEW op \in {"lookup", "activate"}, BeginCall(t, op, NoArtifact)
      PROVE  ArtifactInv'
  BY <1>1, <1>3, BeginKeeps DEF DiskOps
<1> QED BY <1>2, <1>3 DEF StartUse

LEMMA EnterOrderKeeps ==
  ASSUME ArtifactInv, NEW t \in Workers, EnterOrder(t)
  PROVE  ArtifactInv'
<1>1. /\ ArtifactTypeOK /\ job[t] \in Jobs /\ ServerOf[t] \in Servers
      /\ StepOfCall(t) /\ ShelfIsSeen(t) /\ EntryIsThere(t) /\ DirsAreSeen(t)
  BY KnownOfCall
<1>2. /\ job[t].at = "order" /\ job[t].op \in DiskOps /\ job[t].target \in Artifacts
      /\ job[t].target \in shelf \cup overlapped[ServerOf[t]]
  BY <1>1 DEF EnterOrder, StepOfCall, EntryIsThere, MapSteps
<1>3. /\ UNCHANGED <<shelf, stored, expired, lastMade, artCalls, diskIo, overlapped>>
      /\ resident' = [resident EXCEPT ![ServerOf[t]]["order"] = @ \cup {job[t].target}]
  BY DEF EnterOrder, Enter, DiskUnchanged
<1>4. /\ resident' \in [Servers -> [Maps -> SUBSET Artifacts]]
      /\ \A s \in Servers : /\ Loaded(s, "artifacts")' = Loaded(s, "artifacts")
                            /\ Loaded(s, "dirs")' = Loaded(s, "dirs")
  BY <1>1, <1>2, <1>3 DEF ArtifactTypeOK, Loaded, Maps
<1>5. job[t].at # "dirs" /\ shelf' \subseteq Artifacts
  BY <1>1, <1>2, <1>3 DEF ArtifactTypeOK
<1>6. ASSUME NEW at \in {"prune", "load", "amend"}, At(t, at), at = "prune" <=> job[t].op = "store"
      PROVE  ArtifactInv'
  <2>1. /\ Others(t) /\ UNCHANGED unseen /\ job'[t].at = at /\ job'[t].op = job[t].op
        /\ job'[t].target = job[t].target /\ job'[t].purge = job[t].purge
        /\ job'[t].seen = job[t].seen
    BY <1>1, <1>5, <1>6, AtMoves DEF JobSteps
  <2>2. ArtifactTypeOK'
    BY <1>1, <1>3, <1>4, <2>1 DEF ArtifactTypeOK, Others
  <2>3. CallInv(t)'
    <3>1. StepOfCall(t)'
      BY <1>1, <1>2, <1>6, <2>1 DEF StepOfCall, MapSteps, PurgeSteps, LookSteps, DiskOps
    <3>2. ShelfIsSeen(t)' /\ EntryIsThere(t)' /\ PurgeOverlaps(t)'
      BY <1>1, <1>2, <1>3, <1>6, <2>1 DEF ShelfIsSeen, EntryIsThere, PurgeOverlaps, MapSteps, Working
    <3>3. DirsAreSeen(t)'
      BY <1>1, <1>2, <1>3, <1>4, <1>6, <2>1
      DEF DirsAreSeen, Loaded, MapSteps, PurgeSteps, LookSteps
    <3> QED BY <3>1, <3>2, <3>3 DEF CallInv
  <2>4. HandedOutWasThere'
    BY <1>3, <2>1 DEF ArtifactInv, HandedOutWasThere
  <2>5. DoomedAlike(t) /\ (t \in Unpruned => t \in Unpruned')
    BY <1>2, <1>6, <2>1 DEF DoomedAlike, PurgeSteps, Unpruned, MapSteps
  <2> QED BY <1>3, <1>4, <1>5, <2>1, <2>2, <2>3, <2>4, <2>5, QuietStep
<1>7. ASSUME job[t].op = "get", Returns(t, {job[t].target})
      PROVE  ArtifactInv'
  <2>1. /\ Others(t) /\ job'[t] = NoJob /\ unseen' \in [Servers -> SUBSET Artifacts]
    BY <1>1, <1>2, <1>5, <1>7, ReturnsMoves
  <2>2. ArtifactTypeOK'
    BY <1>1, <1>3, <1>4, <2>1 DEF ArtifactTypeOK, Others
  <2>3. CallInv(t)' /\ DoomedAlike(t) /\ t \notin Unpruned
    BY <1>2, <1>7, <2>1, IdleCall DEF DoomedAlike, PurgeSteps, Unpruned
  <2>4. HandedOutWasThere'
    <3>1. {job[t].target} \in SUBSET Artifacts
          /\ {job[t].target} \subseteq job[t].seen \cup shelf' \cup overlapped'[ServerOf[t]]
      BY <1>2, <1>3
    <3> QED BY <1>3, <1>5, <1>7, <3>1, Handed
  <2> QED BY <1>3, <1>4, <1>5, <2>1, <2>2, <2>3, <2>4, QuietStep
<1>8. \/ job[t].op = "store" /\ At(t, "prune")
      \/ job[t].op = "lookup" /\ At(t, "load")
      \/ job[t].op = "get" /\ Returns(t, {job[t].target})
      \/ job[t].op = "upsert" /\ At(t, "amend")
  BY <1>2 DEF EnterOrder, DiskOps
<1> QED BY <1>6, <1>7, <1>8

LEMMA EnterArtifactsKeeps ==
  ASSUME ArtifactInv, NEW t \in Workers, EnterArtifacts(t)
  PROVE  ArtifactInv'
<1> DEFINE s == ServerOf[t]
           a == job[t].target
<1>1. /\ ArtifactTypeOK /\ job[t] \in Jobs /\ s \in Servers
      /\ StepOfCall(t) /\ ShelfIsSeen(t) /\ EntryIsThere(t) /\ DirsAreSeen(t)
  BY KnownOfCall
<1>2. /\ job[t].at = "artifacts" /\ job[t].op \in DiskOps /\ a \in Artifacts
      /\ a \in shelf \cup overlapped[s]
  BY <1>1 DEF EnterArtifacts, StepOfCall, EntryIsThere, MapSteps
<1>3. /\ UNCHANGED <<shelf, stored, expired, lastMade, artCalls, diskIo>>
      /\ resident' = [resident EXCEPT ![s]["artifacts"] = @ \cup {a}]
      /\ overlapped' = [overlapped EXCEPT ![s] = IF Purging(s) THEN @ \cup {a} ELSE @]
      /\ At(t, "dirs")
  BY DEF EnterArtifacts, Enter, DiskUnchanged
<1> HIDE DEF s, a
<1>4. /\ resident' \in [Servers -> [Maps -> SUBSET Artifacts]]
      /\ overlapped' \in [Servers -> SUBSET Artifacts]
      /\ \A r \in Servers : /\ overlapped[r] \subseteq overlapped'[r]
                            /\ Loaded(r, "dirs")' = Loaded(r, "dirs")
                            /\ r # s => Loaded(r, "artifacts")' = Loaded(r, "artifacts")
      /\ Loaded(s, "artifacts")' = Loaded(s, "artifacts") \cup {a}
      /\ Purging(s) => a \in overlapped'[s]
  BY <1>1, <1>2, <1>3 DEF ArtifactTypeOK, Loaded, Maps
<1>5. /\ Others(t) /\ UNCHANGED unseen /\ job'[t].at = "dirs" /\ job'[t].op = job[t].op
      /\ job'[t].target = a /\ job'[t].purge = job[t].purge
      /\ job'[t].seen = job[t].seen
  <2>1. shelf' \subseteq Artifacts /\ "dirs" \in JobSteps
    BY <1>1, <1>3 DEF ArtifactTypeOK, JobSteps
  <2> QED BY <1>1, <1>3, <2>1, AtMoves DEF a
<1>6. ArtifactTypeOK'
  BY <1>1, <1>3, <1>4, <1>5 DEF ArtifactTypeOK, Others
<1>7. CallInv(t)'
  <2>1. StepOfCall(t)'
    BY <1>1, <1>2, <1>5 DEF StepOfCall, MapSteps, PurgeSteps, LookSteps
  <2>2. ShelfIsSeen(t)' /\ EntryIsThere(t)' /\ PurgeOverlaps(t)'
    BY <1>1, <1>2, <1>3, <1>4, <1>5
    DEF ShelfIsSeen, EntryIsThere, PurgeOverlaps, MapSteps, Working, s
  <2>3. DirsAreSeen(t)'
    BY <1>1, <1>2, <1>4, <1>5 DEF DirsAreSeen, Loaded, MapSteps, PurgeSteps, LookSteps, s
  <2> QED BY <2>1, <2>2, <2>3 DEF CallInv
<1>8. Harmless(t)
  BY <1>3, <1>4, <1>5 DEF Harmless
<1>9. \A u \in Workers : CallInv(u)'
  BY <1>7, <1>8, OthersKeep
<1>10. MapsAgree'
  <2>1. a \in EnteringDirs(s)'
    BY <1>5 DEF EnteringDirs, s
  <2>2. \A r \in Servers : EnteringDirs(r) \subseteq EnteringDirs(r)'
    BY <1>2, <1>5, EnteringStays
  <2> QED BY <1>4, <2>1, <2>2 DEF ArtifactInv, MapsAgree, Loaded
<1>11. HandedOutWasThere'
  BY <1>4, <1>5 DEF ArtifactInv, HandedOutWasThere
<1>12. OutlivedOnly' /\ CapByStores'
  <2>1. Doomed' = Doomed
    BY <1>2, <1>5, DoomedStays DEF DoomedAlike, PurgeSteps
  <2>2. t \in Unpruned => t \in Unpruned'
    BY <1>5 DEF Unpruned, MapSteps
  <2> QED BY <1>3, <1>5, <2>1, <2>2, DiskShrinks
<1> QED BY <1>6, <1>9, <1>10, <1>11, <1>12 DEF ArtifactInv

LEMMA EnterDirsKeeps ==
  ASSUME ArtifactInv, NEW t \in Workers, EnterDirs(t)
  PROVE  ArtifactInv'
<1> DEFINE s == ServerOf[t]
           a == job[t].target
<1>1. /\ ArtifactTypeOK /\ job[t] \in Jobs /\ s \in Servers
      /\ StepOfCall(t) /\ ShelfIsSeen(t) /\ EntryIsThere(t) /\ DirsAreSeen(t)
  BY KnownOfCall
<1>2. /\ job[t].at = "dirs" /\ job[t].op \in DiskOps /\ a \in Artifacts
      /\ a \in shelf \cup overlapped[s]
  BY <1>1 DEF EnterDirs, StepOfCall, EntryIsThere, MapSteps
<1>3. /\ UNCHANGED <<shelf, stored, expired, lastMade, artCalls, diskIo, overlapped>>
      /\ resident' = [resident EXCEPT ![s]["dirs"] = @ \cup {a}]
      /\ At(t, "order")
  BY DEF EnterDirs, Enter, DiskUnchanged
<1>4. job[t].op # "store" => a \in job[t].seen \cup overlapped[s]
  BY <1>1, <1>2 DEF ShelfIsSeen, Working
<1> HIDE DEF s, a
<1>5. /\ resident' \in [Servers -> [Maps -> SUBSET Artifacts]]
      /\ \A r \in Servers : /\ Loaded(r, "artifacts")' = Loaded(r, "artifacts")
                            /\ r # s => Loaded(r, "dirs")' = Loaded(r, "dirs")
      /\ Loaded(s, "dirs")' = Loaded(s, "dirs") \cup {a}
  BY <1>1, <1>2, <1>3 DEF ArtifactTypeOK, Loaded, Maps
<1>6. /\ Others(t) /\ UNCHANGED unseen /\ job'[t].at = "order" /\ job'[t].op = job[t].op
      /\ job'[t].target = a /\ job'[t].purge = job[t].purge
      /\ job'[t].seen = job[t].seen
  <2>1. shelf' \subseteq Artifacts /\ "order" \in JobSteps
    BY <1>1, <1>3 DEF ArtifactTypeOK, JobSteps
  <2> QED BY <1>1, <1>3, <2>1, AtMoves DEF a
<1>7. ArtifactTypeOK'
  BY <1>1, <1>3, <1>5, <1>6 DEF ArtifactTypeOK, Others
<1>8. CallInv(t)'
  <2>1. StepOfCall(t)'
    BY <1>1, <1>2, <1>6 DEF StepOfCall, MapSteps, PurgeSteps, LookSteps
  <2>2. ShelfIsSeen(t)' /\ EntryIsThere(t)' /\ PurgeOverlaps(t)'
    BY <1>1, <1>2, <1>3, <1>6
    DEF ShelfIsSeen, EntryIsThere, PurgeOverlaps, MapSteps, Working, s
  <2>3. job[t].op # "store" => Loaded(s, "dirs")' \subseteq job[t].seen \cup overlapped[s]
    BY <1>1, <1>2, <1>4, <1>5 DEF DirsAreSeen, Loaded, MapSteps, s
  <2>4. DirsAreSeen(t)'
    BY <1>3, <1>6, <2>3 DEF DirsAreSeen, Loaded, PurgeSteps, s
  <2> QED BY <2>1, <2>2, <2>4 DEF CallInv
<1>9. Harmless(t)
  BY <1>2, <1>3, <1>5, <1>6 DEF Harmless
<1>10. \A u \in Workers : CallInv(u)'
  BY <1>8, <1>9, OthersKeep
<1>11. MapsAgree'
  <2>1. ASSUME NEW r \in Servers, NEW b \in EnteringDirs(r), b \notin EnteringDirs(r)'
        PROVE  r = s /\ b = a
    <3>1. PICK u \in Workers : ServerOf[u] = r /\ job[u].at = "dirs" /\ b = job[u].target
      BY <2>1 DEF EnteringDirs
    <3>2. u # t => job'[u].at = "dirs" /\ job'[u].target = b
      BY <1>6, <3>1 DEF Others
    <3>3. u = t
      BY <2>1, <3>1, <3>2 DEF EnteringDirs
    <3> QED BY <3>1, <3>3 DEF s, a
  <2>2. ASSUME NEW r \in Servers
        PROVE  Loaded(r, "artifacts")' \subseteq
                 Loaded(r, "dirs")' \cup overlapped'[r] \cup EnteringDirs(r)'
    <3>1. Loaded(r, "artifacts") \subseteq Loaded(r, "dirs") \cup overlapped[r] \cup EnteringDirs(r)
      BY DEF ArtifactInv, MapsAgree, Loaded
    <3> QED BY <1>3, <1>5, <2>1, <3>1
  <2> QED BY <2>2 DEF MapsAgree, Loaded
<1>12. HandedOutWasThere'
  BY <1>3, <1>6 DEF ArtifactInv, HandedOutWasThere
<1>13. OutlivedOnly' /\ CapByStores'
  <2>1. Doomed' = Doomed
    BY <1>2, <1>6, DoomedStays DEF DoomedAlike, PurgeSteps
  <2>2. t \in Unpruned => t \in Unpruned'
    BY <1>6 DEF Unpruned, MapSteps
  <2> QED BY <1>3, <1>6, <2>1, <2>2, DiskShrinks
<1> QED BY <1>7, <1>10, <1>11, <1>12, <1>13 DEF ArtifactInv

LEMMA PurgeOrderKeeps ==
  ASSUME ArtifactInv, NEW t \in Workers, PurgeOrder(t)
  PROVE  ArtifactInv'
<1>1. /\ ArtifactTypeOK /\ job[t] \in Jobs /\ ServerOf[t] \in Servers
      /\ StepOfCall(t) /\ ShelfIsSeen(t) /\ DirsAreSeen(t)
  BY KnownOfCall
<1>2. /\ job[t].at = "purge order"
      /\ UNCHANGED <<shelf, stored, expired, lastMade, artCalls, diskIo, overlapped>>
      /\ resident' = [resident EXCEPT ![ServerOf[t]]["order"] = @ \ job[t].purge]
      /\ At(t, "purge artifacts")
  BY DEF PurgeOrder, Purge, DiskUnchanged
<1>3. /\ resident' \in [Servers -> [Maps -> SUBSET Artifacts]]
      /\ \A s \in Servers : /\ Loaded(s, "artifacts")' = Loaded(s, "artifacts")
                            /\ Loaded(s, "dirs")' = Loaded(s, "dirs")
  BY <1>1, <1>2, ZenonT(40) DEF ArtifactTypeOK, Loaded, Maps
<1>4. /\ Others(t) /\ UNCHANGED unseen /\ job'[t].at = "purge artifacts"
      /\ job'[t].op = job[t].op /\ job'[t].target = job[t].target
      /\ job'[t].purge = job[t].purge /\ job'[t].evict = job[t].evict
      /\ job'[t].seen = job[t].seen
  <2>1. shelf' \subseteq Artifacts /\ "purge artifacts" \in JobSteps
    BY <1>1, <1>2 DEF ArtifactTypeOK, JobSteps
  <2> QED BY <1>1, <1>2, <2>1, AtMoves
<1>5. ArtifactTypeOK'
  BY <1>1, <1>2, <1>3, <1>4 DEF ArtifactTypeOK, Others
<1>6. CallInv(t)'
  <2>1. StepOfCall(t)'
    BY <1>1, <1>2, <1>4 DEF StepOfCall, MapSteps, PurgeSteps, LookSteps
  <2>2. ShelfIsSeen(t)' /\ EntryIsThere(t)' /\ PurgeOverlaps(t)'
    BY <1>1, <1>2, <1>4 DEF ShelfIsSeen, EntryIsThere, PurgeOverlaps, MapSteps, Working
  <2>3. DirsAreSeen(t)'
    BY <1>1, <1>2, <1>3, <1>4 DEF DirsAreSeen, Loaded, MapSteps, PurgeSteps, LookSteps
  <2> QED BY <2>1, <2>2, <2>3 DEF CallInv
<1>7. HandedOutWasThere'
  BY <1>2, <1>4 DEF ArtifactInv, HandedOutWasThere
<1>8. DoomedAlike(t) /\ job[t].at # "dirs" /\ t \notin Unpruned
  BY <1>2, <1>4 DEF DoomedAlike, PurgeSteps, Unpruned, MapSteps
<1> QED BY <1>2, <1>3, <1>4, <1>5, <1>6, <1>7, <1>8, QuietStep

LEMMA PurgeArtifactsKeeps ==
  ASSUME ArtifactInv, NEW t \in Workers, PurgeArtifacts(t)
  PROVE  ArtifactInv'
<1> DEFINE s == ServerOf[t]
<1>1. /\ ArtifactTypeOK /\ job[t] \in Jobs /\ s \in Servers
      /\ StepOfCall(t) /\ ShelfIsSeen(t) /\ DirsAreSeen(t)
  BY KnownOfCall
<1>2. /\ job[t].at = "purge artifacts"
      /\ UNCHANGED <<shelf, stored, expired, lastMade, artCalls, diskIo, overlapped>>
      /\ resident' = [resident EXCEPT ![s]["artifacts"] = @ \ job[t].purge]
      /\ At(t, "purge dirs")
  BY DEF PurgeArtifacts, Purge, DiskUnchanged
<1> HIDE DEF s
<1>3. /\ resident' \in [Servers -> [Maps -> SUBSET Artifacts]]
      /\ \A r \in Servers : /\ Loaded(r, "artifacts")' \subseteq Loaded(r, "artifacts")
                            /\ Loaded(r, "dirs")' = Loaded(r, "dirs")
      /\ Loaded(s, "artifacts")' \cap job[t].purge = {}
  BY <1>1, <1>2, ZenonT(40) DEF ArtifactTypeOK, Loaded, Maps
<1>4. /\ Others(t) /\ UNCHANGED unseen /\ job'[t].at = "purge dirs"
      /\ job'[t].op = job[t].op /\ job'[t].target = job[t].target
      /\ job'[t].purge = job[t].purge /\ job'[t].evict = job[t].evict
      /\ job'[t].seen = job[t].seen
  <2>1. shelf' \subseteq Artifacts /\ "purge dirs" \in JobSteps
    BY <1>1, <1>2 DEF ArtifactTypeOK, JobSteps
  <2> QED BY <1>1, <1>2, <2>1, AtMoves
<1>5. ArtifactTypeOK'
  BY <1>1, <1>2, <1>3, <1>4 DEF ArtifactTypeOK, Others
<1>6. CallInv(t)'
  <2>1. StepOfCall(t)'
    BY <1>1, <1>2, <1>4 DEF StepOfCall, MapSteps, PurgeSteps, LookSteps
  <2>2. ShelfIsSeen(t)' /\ EntryIsThere(t)'
    BY <1>1, <1>2, <1>4 DEF ShelfIsSeen, EntryIsThere, MapSteps, Working
  <2>3. PurgeOverlaps(t)'
    BY <1>3, <1>4 DEF PurgeOverlaps, Loaded, s
  <2>4. DirsAreSeen(t)'
    BY <1>1, <1>2, <1>3, <1>4 DEF DirsAreSeen, Loaded, MapSteps, PurgeSteps, LookSteps, s
  <2> QED BY <2>1, <2>2, <2>3, <2>4 DEF CallInv
<1>7. Harmless(t)
  BY <1>2, <1>3, <1>4 DEF Harmless
<1>8. \A u \in Workers : CallInv(u)'
  BY <1>6, <1>7, OthersKeep
<1>9. MapsAgree'
  <2>1. \A r \in Servers : EnteringDirs(r) \subseteq EnteringDirs(r)'
    BY <1>2, <1>4, EnteringStays
  <2> QED BY <1>2, <1>3, <2>1 DEF ArtifactInv, MapsAgree, Loaded
<1>10. HandedOutWasThere'
  BY <1>2, <1>4 DEF ArtifactInv, HandedOutWasThere
<1>11. OutlivedOnly' /\ CapByStores'
  <2>1. Doomed' = Doomed
    BY <1>2, <1>4, DoomedStays DEF DoomedAlike, PurgeSteps
  <2>2. t \notin Unpruned
    BY <1>2 DEF Unpruned, MapSteps
  <2> QED BY <1>2, <1>4, <2>1, <2>2, DiskShrinks
<1> QED BY <1>5, <1>8, <1>9, <1>10, <1>11 DEF ArtifactInv

LEMMA ListKeeps ==
  ASSUME ArtifactInv, NEW t \in Workers, List(t)
  PROVE  ArtifactInv'
<1>1. /\ ArtifactTypeOK /\ job[t] \in Jobs /\ ServerOf[t] \in Servers
      /\ StepOfCall(t) /\ ShelfIsSeen(t) /\ DirsAreSeen(t)
  BY KnownOfCall
<1>2. /\ job[t].at = "list"
      /\ UNCHANGED <<shelf, stored, expired, lastMade, artCalls, resident, diskIo, overlapped>>
      /\ LoadOf(t, shelf)
  BY DEF List, DiskUnchanged
<1>3. /\ Others(t) /\ UNCHANGED unseen /\ job'[t].at = "load" /\ job'[t].op = job[t].op
      /\ job'[t].target = job[t].target /\ job'[t].seen = job[t].seen
  <2>1. shelf' \subseteq Artifacts /\ shelf \in SUBSET Artifacts
    BY <1>1, <1>2 DEF ArtifactTypeOK
  <2> QED BY <1>1, <1>2, <2>1, LoadMoves
<1>4. ArtifactTypeOK'
  BY <1>1, <1>2, <1>3 DEF ArtifactTypeOK, Others
<1>5. CallInv(t)'
  BY <1>1, <1>2, <1>3 DEF CallInv, StepOfCall, ShelfIsSeen, EntryIsThere, PurgeOverlaps,
     DirsAreSeen, MapSteps, PurgeSteps, LookSteps, Working
<1>6. HandedOutWasThere'
  BY <1>2, <1>3 DEF ArtifactInv, HandedOutWasThere
<1>7. DoomedAlike(t) /\ job[t].at # "dirs" /\ t \notin Unpruned
  BY <1>2, <1>3 DEF DoomedAlike, PurgeSteps, Unpruned, MapSteps
<1>8. \A s \in Servers : /\ Loaded(s, "artifacts")' = Loaded(s, "artifacts")
                         /\ Loaded(s, "dirs")' = Loaded(s, "dirs")
  BY <1>2 DEF Loaded
<1> QED BY <1>2, <1>3, <1>4, <1>5, <1>6, <1>7, <1>8, QuietStep

(* A step of a reading call that only looks, and goes on looking. *)
LEMMA LookingKeeps ==
  ASSUME ArtifactInv, NEW t \in Workers, job[t].at = "load",
         DiskUnchanged, UNCHANGED <<resident, diskIo, overlapped, unseen>>,
         Others(t), job'[t].op = job[t].op, job'[t].seen = job[t].seen,
         job'[t].at \in LookSteps,
         job'[t].target = job[t].target \/ job'[t].target \in Artifacts,
         job'[t].at \in {"read", "amend"} => job'[t].target \in Artifacts
  PROVE  ArtifactInv'
<1>1. /\ ArtifactTypeOK /\ job[t] \in Jobs /\ ServerOf[t] \in Servers
      /\ StepOfCall(t) /\ ShelfIsSeen(t) /\ DirsAreSeen(t)
  BY KnownOfCall
<1>2. UNCHANGED <<shelf, stored, expired, lastMade, artCalls>>
  BY DEF DiskUnchanged
<1>3. ArtifactTypeOK'
  BY <1>1, <1>2 DEF ArtifactTypeOK, Others
<1>4. CallInv(t)'
  BY <1>1, <1>2 DEF CallInv, StepOfCall, ShelfIsSeen, EntryIsThere, PurgeOverlaps,
     DirsAreSeen, MapSteps, PurgeSteps, LookSteps, Working
<1>5. HandedOutWasThere'
  BY DEF ArtifactInv, HandedOutWasThere
<1>6. DoomedAlike(t) /\ job[t].at # "dirs" /\ t \notin Unpruned
  BY DEF DoomedAlike, PurgeSteps, Unpruned, MapSteps, LookSteps
<1>7. \A s \in Servers : /\ Loaded(s, "artifacts")' = Loaded(s, "artifacts")
                         /\ Loaded(s, "dirs")' = Loaded(s, "dirs")
  BY DEF Loaded
<1> QED BY <1>2, <1>3, <1>4, <1>5, <1>6, <1>7, QuietStep

(* A reading call that hands out what it has seen, or nothing, from the maps as they are. *)
LEMMA AnsweringKeeps ==
  ASSUME ArtifactInv, NEW t \in Workers, job[t].at \in {"load", "pick"},
         NEW as \in SUBSET Artifacts, Returns(t, as),
         DiskUnchanged, UNCHANGED <<resident, diskIo, overlapped>>,
         as \subseteq job[t].seen \cup shelf \cup overlapped[ServerOf[t]]
  PROVE  ArtifactInv'
<1>1. /\ ArtifactTypeOK /\ job[t] \in Jobs /\ ServerOf[t] \in Servers
  BY KnownOfCall
<1>2. UNCHANGED <<shelf, stored, expired, lastMade, artCalls>> /\ shelf' \subseteq Artifacts
  BY <1>1 DEF DiskUnchanged, ArtifactTypeOK
<1>3. /\ Others(t) /\ job'[t] = NoJob /\ unseen' \in [Servers -> SUBSET Artifacts]
  BY <1>1, <1>2, ReturnsMoves
<1>4. ArtifactTypeOK'
  BY <1>1, <1>2, <1>3 DEF ArtifactTypeOK, Others
<1>5. CallInv(t)' /\ DoomedAlike(t) /\ t \notin Unpruned /\ job[t].at # "dirs"
  BY <1>3, IdleCall DEF DoomedAlike, PurgeSteps, Unpruned, MapSteps
<1>6. HandedOutWasThere'
  BY <1>2, Handed
<1>7. \A s \in Servers : /\ Loaded(s, "artifacts")' = Loaded(s, "artifacts")
                         /\ Loaded(s, "dirs")' = Loaded(s, "dirs")
  BY DEF Loaded
<1> QED BY <1>2, <1>3, <1>4, <1>5, <1>6, <1>7, QuietStep

LEMMA LoadKeeps ==
  ASSUME ArtifactInv, NEW t \in Workers, Load(t)
  PROVE  ArtifactInv'
<1>1. /\ ArtifactTypeOK /\ job[t] \in Jobs /\ ServerOf[t] \in Servers
      /\ StepOfCall(t) /\ DirsAreSeen(t)
  BY KnownOfCall
<1>2. /\ job[t].at = "load" /\ DiskUnchanged /\ UNCHANGED <<resident, diskIo, overlapped>>
      /\ shelf' \subseteq Artifacts
  BY <1>1 DEF Load, DiskUnchanged, ArtifactTypeOK
<1>3. ASSUME At(t, "pick")
      PROVE  ArtifactInv'
  <2>1. /\ Others(t) /\ UNCHANGED unseen /\ job'[t].at = "pick" /\ job'[t].op = job[t].op
        /\ job'[t].target = job[t].target /\ job'[t].seen = job[t].seen
    BY <1>1, <1>2, <1>3, AtMoves DEF JobSteps
  <2> QED BY <1>2, <2>1, LookingKeeps DEF LookSteps
<1>4. ASSUME NEW a \in job[t].todo, NEW step \in {"read", "amend", "load"},
             Goes(t, [[job[t] EXCEPT !.target = a, !.todo = @ \ {a}] EXCEPT !.at = step]),
             UNCHANGED unseen
      PROVE  ArtifactInv'
  <2> DEFINE new == [[job[t] EXCEPT !.target = a, !.todo = @ \ {a}] EXCEPT !.at = step]
  <2>1. a \in Artifacts /\ step \in JobSteps /\ job[t].todo \ {a} \in SUBSET Artifacts
    BY <1>1, <1>4 DEF Jobs, JobSteps
  <2>2. new \in Jobs /\ new.at = step /\ new.op = job[t].op /\ new.target = a
        /\ new.seen = job[t].seen
    BY <1>1, <2>1 DEF Jobs
  <2>3. Goes(t, new)
    BY <1>4
  <2> HIDE DEF new
  <2>4. Others(t) /\ job'[t] = new
    BY <1>1, <1>2, <2>2, <2>3, OthersNote
  <2> QED BY <1>2, <1>4, <2>1, <2>2, <2>4, LookingKeeps DEF LookSteps
<1>5. ASSUME NEW a \in job[t].todo, Resident(t, a), Returns(t, {a})
      PROVE  ArtifactInv'
  <2>1. {a} \in SUBSET Artifacts
    BY <1>1 DEF Jobs
  <2>2. job[t].op \in DiskOps \ {"store"}
    BY <1>1, <1>2 DEF StepOfCall, LookSteps
  <2>3. a \in job[t].seen \cup overlapped[ServerOf[t]]
    BY <1>1, <1>2, <1>5, <2>2 DEF DirsAreSeen, Resident, MapsOf, LookSteps
  <2> QED BY <1>2, <1>5, <2>1, <2>3, AnsweringKeeps
<1> QED BY <1>3, <1>4, <1>5 DEF Load

LEMMA PickKeeps ==
  ASSUME ArtifactInv, NEW t \in Workers, Pick(t)
  PROVE  ArtifactInv'
<1> DEFINE s == ServerOf[t]
<1>1. /\ ArtifactTypeOK /\ job[t] \in Jobs /\ s \in Servers
      /\ StepOfCall(t) /\ ShelfIsSeen(t) /\ DirsAreSeen(t)
  BY KnownOfCall
<1>2. job[t].at = "pick" /\ DiskUnchanged /\ UNCHANGED <<resident, diskIo, overlapped>>
  BY DEF Pick
<1>3. ASSUME Returns(t, {})
      PROVE  ArtifactInv'
  BY <1>2, <1>3, AnsweringKeeps
<1>4. ASSUME NEW a \in MapsOf(t)["artifacts"], Returns(t, {a})
      PROVE  ArtifactInv'
  <2>1. a \in resident[s]["artifacts"] /\ a \in Artifacts
    BY <1>1 DEF MapsOf, ArtifactTypeOK, Maps
  <2>2. job[t].op # "store" /\ shelf \subseteq job[t].seen
    BY <1>1, <1>2 DEF StepOfCall, ShelfIsSeen, LookSteps, Working
  <2>3. a \in resident[s]["dirs"] \cup overlapped[s] \cup EnteringDirs(s)
    BY <1>1, <2>1 DEF ArtifactInv, MapsAgree
  <2>4. resident[s]["dirs"] \subseteq job[t].seen \cup overlapped[s]
    BY <1>1, <1>2, <2>2 DEF DirsAreSeen, LookSteps
  <2>5. EnteringDirs(s) \subseteq shelf \cup overlapped[s]
    <3>1. ASSUME NEW u \in Workers, ServerOf[u] = s, job[u].at = "dirs"
          PROVE  job[u].target \in shelf \cup overlapped[s]
      BY <3>1, KnownOfCall DEF EntryIsThere, MapSteps
    <3> QED BY <3>1 DEF EnteringDirs
  <2> QED BY <1>2, <1>4, <2>1, <2>2, <2>3, <2>4, <2>5, AnsweringKeeps
<1> QED BY <1>3, <1>4 DEF Pick

LEMMA TakenOff ==
  ASSUME ArtifactTypeOK, NEW as \in SUBSET Artifacts, TakeOff(as)
  PROVE  /\ shelf' = shelf \ as /\ shelf' \subseteq Artifacts
         /\ overlapped' \in [Servers -> SUBSET Artifacts]
         /\ \A s \in Servers : overlapped[s] \subseteq overlapped'[s]
         /\ \A u \in Workers, a \in shelf \ shelf' : Entering(u, a) => a \in overlapped'[ServerOf[u]]
<1>1. /\ shelf' = shelf \ as
      /\ overlapped' = [s \in Servers |-> overlapped[s] \cup
           {a \in as : \E u \in Workers : ServerOf[u] = s /\ Entering(u, a)}]
  BY DEF TakeOff
<1>2. \A u \in Workers : ServerOf[u] \in Servers
  BY ArtifactAssumption
<1> QED BY <1>1, <1>2 DEF ArtifactTypeOK

LEMMA EndPruneKeeps ==
  ASSUME ArtifactInv, NEW t \in Workers, EndPrune(t)
  PROVE  ArtifactInv'
<1> DEFINE s == ServerOf[t]
<1>1. /\ ArtifactTypeOK /\ job[t] \in Jobs /\ s \in Servers
      /\ StepOfCall(t) /\ ShelfIsSeen(t) /\ PurgeOverlaps(t) /\ DirsAreSeen(t)
  BY KnownOfCall
<1>2. /\ job[t].at = "purge dirs" /\ TakeOff(job[t].evict)
      /\ UNCHANGED <<stored, expired, lastMade, artCalls>>
      /\ resident' = [resident EXCEPT ![s]["dirs"] = @ \ job[t].purge]
      /\ diskIo' = [diskIo EXCEPT ![s] = Free]
  BY DEF EndPrune, Purge
<1>3. job[t].op \in DiskOps
  BY <1>1, <1>2 DEF StepOfCall, PurgeSteps
<1>4. job[t].evict \in SUBSET Artifacts
  BY <1>1 DEF Jobs
<1>5. /\ shelf' = shelf \ job[t].evict /\ shelf' \subseteq Artifacts
      /\ overlapped' \in [Servers -> SUBSET Artifacts]
      /\ \A r \in Servers : overlapped[r] \subseteq overlapped'[r]
      /\ \A u \in Workers, a \in shelf \ shelf' : Entering(u, a) => a \in overlapped'[ServerOf[u]]
  BY <1>1, <1>2, <1>4, TakenOff
<1> HIDE DEF s
<1>6. /\ resident' \in [Servers -> [Maps -> SUBSET Artifacts]]
      /\ diskIo' \in [Servers -> Workers \cup {Free}]
      /\ \A r \in Servers : /\ Loaded(r, "artifacts")' = Loaded(r, "artifacts")
                            /\ Loaded(r, "dirs")' \subseteq Loaded(r, "dirs")
                            /\ r # s => Loaded(r, "dirs")' = Loaded(r, "dirs")
      /\ Loaded(s, "dirs")' = Loaded(s, "dirs") \ job[t].purge
  <2>1. diskIo' \in [Servers -> Workers \cup {Free}]
    BY <1>1, <1>2 DEF ArtifactTypeOK
  <2>2. resident' \in [Servers -> [Maps -> SUBSET Artifacts]]
    BY <1>1, <1>2, ZenonT(40) DEF ArtifactTypeOK, Maps
  <2>3. /\ \A r \in Servers : /\ Loaded(r, "artifacts")' = Loaded(r, "artifacts")
                              /\ r # s => Loaded(r, "dirs")' = Loaded(r, "dirs")
        /\ Loaded(s, "dirs")' = Loaded(s, "dirs") \ job[t].purge
    BY <1>1, <1>2 DEF ArtifactTypeOK, Loaded, Maps
  <2> QED BY <2>1, <2>2, <2>3
(* Whatever the call does next, this is what is left to show of it. *)
<1>7. SUFFICES /\ Others(t) /\ unseen' \in [Servers -> SUBSET Artifacts] /\ CallInv(t)'
               /\ HandedOutWasThere' /\ job'[t].at \notin PurgeSteps
  <2>1. ArtifactTypeOK'
    BY <1>1, <1>2, <1>5, <1>6, <1>7 DEF ArtifactTypeOK, Others
  <2>2. Harmless(t)
    BY <1>5, <1>6, <1>7 DEF Harmless
  <2>3. \A u \in Workers : CallInv(u)'
    BY <1>7, <2>2, OthersKeep
  <2>4. MapsAgree'
    <3>1. \A r \in Servers : EnteringDirs(r) \subseteq EnteringDirs(r)'
      BY <1>2, <1>7, EnteringStays
    <3>2. job[t].purge \cap Loaded(s, "artifacts") \subseteq overlapped[s]
      BY <1>1, <1>2 DEF PurgeOverlaps, Loaded, s
    <3>3. ASSUME NEW r \in Servers
          PROVE  Loaded(r, "artifacts")' \subseteq
                   Loaded(r, "dirs")' \cup overlapped'[r] \cup EnteringDirs(r)'
      <4>1. Loaded(r, "artifacts") \subseteq Loaded(r, "dirs") \cup overlapped[r] \cup EnteringDirs(r)
        BY DEF ArtifactInv, MapsAgree, Loaded
      <4> QED BY <1>5, <1>6, <3>1, <3>2, <4>1
    <3> QED BY <3>3 DEF MapsAgree, Loaded
  <2>5. OutlivedOnly' /\ CapByStores'
    <3>1. Doomed' \subseteq Doomed
      BY <1>7, DoomedStays
    <3>2. job[t].evict \subseteq Doomed
      BY <1>2 DEF Doomed, PurgeSteps
    <3>3. ASSUME NEW a \in Doomed, a \notin Doomed'
          PROVE  a \in job[t].evict
      <4>1. PICK u \in Workers : job[u].at \in PurgeSteps /\ a \in job[u].evict
        BY <3>3 DEF Doomed
      <4>2. u # t => job'[u].at \in PurgeSteps /\ a \in job'[u].evict
        BY <1>7, <4>1 DEF Others
      <4>3. u = t
        BY <3>3, <4>2 DEF Doomed
      <4> QED BY <4>1, <4>3
    <3>4. t \notin Unpruned
      BY <1>2 DEF Unpruned, MapSteps
    <3>5. shelf' \subseteq shelf /\ shelf \ shelf' \subseteq Old(stored) \cup Doomed
          /\ (Doomed \ Doomed') \cap shelf' = {}
      BY <1>5, <3>2, <3>3
    <3> QED BY <1>2, <1>7, <3>1, <3>4, <3>5, DiskShrinks
  <2> QED BY <1>7, <2>1, <2>3, <2>4, <2>5 DEF ArtifactInv
<1>8. ASSUME Returns(t, {})
      PROVE  /\ Others(t) /\ unseen' \in [Servers -> SUBSET Artifacts] /\ CallInv(t)'
             /\ HandedOutWasThere' /\ job'[t].at \notin PurgeSteps
  <2>1. Others(t) /\ job'[t] = NoJob /\ unseen' \in [Servers -> SUBSET Artifacts]
    BY <1>1, <1>5, <1>8, ReturnsMoves
  <2>2. HandedOutWasThere'
    BY <1>5, <1>8, Handed
  <2> QED BY <2>1, <2>2, IdleCall
<1>9. ASSUME job[t].op # "store", Others(t), UNCHANGED unseen, job'[t].at \in {"list", "load"},
             job'[t].op = job[t].op, job'[t].target = job[t].target, job'[t].seen = job[t].seen
      PROVE  /\ Others(t) /\ unseen' \in [Servers -> SUBSET Artifacts] /\ CallInv(t)'
             /\ HandedOutWasThere' /\ job'[t].at \notin PurgeSteps
  <2>1. StepOfCall(t)'
    BY <1>1, <1>3, <1>9 DEF StepOfCall, MapSteps, PurgeSteps, LookSteps
  <2>2. ShelfIsSeen(t)' /\ EntryIsThere(t)' /\ PurgeOverlaps(t)'
    BY <1>1, <1>2, <1>5, <1>9 DEF ShelfIsSeen, EntryIsThere, PurgeOverlaps, MapSteps, Working
  <2>3. DirsAreSeen(t)'
    <3>1. Loaded(s, "dirs") \ job[t].purge \subseteq job[t].seen \cup overlapped[s]
      BY <1>1, <1>2, <1>9 DEF DirsAreSeen, Loaded, PurgeSteps, s
    <3>2. overlapped[s] \subseteq overlapped'[s]
      BY <1>1, <1>5
    <3>3. Loaded(s, "dirs")' \subseteq job'[t].seen \cup overlapped'[s]
      BY <1>6, <1>9, <3>1, <3>2
    <3> QED BY <1>9, <3>3 DEF DirsAreSeen, Loaded, PurgeSteps, s
  <2>4. HandedOutWasThere'
    BY <1>5, <1>9 DEF ArtifactInv, HandedOutWasThere
  <2> QED BY <1>1, <1>9, <2>1, <2>2, <2>3, <2>4 DEF CallInv, ArtifactTypeOK, PurgeSteps
<1>10. CASE job[t].op = "lookup" /\ At(t, "list")
  <2>1. /\ Others(t) /\ UNCHANGED unseen /\ job'[t].at = "list" /\ job'[t].op = job[t].op
        /\ job'[t].target = job[t].target /\ job'[t].seen = job[t].seen
    BY <1>1, <1>5, <1>10, AtMoves DEF JobSteps
  <2> QED BY <1>9, <1>10, <2>1
<1>11. CASE job[t].op \in {"get", "upsert"} /\ LoadOf(t, {job[t].target})
  <2>1. {job[t].target} \in SUBSET Artifacts
    BY <1>1, <1>11 DEF StepOfCall
  <2>2. /\ Others(t) /\ UNCHANGED unseen /\ job'[t].at = "load" /\ job'[t].op = job[t].op
        /\ job'[t].target = job[t].target /\ job'[t].seen = job[t].seen
    BY <1>1, <1>5, <1>11, <2>1, LoadMoves
  <2> QED BY <1>9, <1>11, <2>2
<1>12. \/ Returns(t, {})
       \/ job[t].op = "lookup" /\ At(t, "list")
       \/ job[t].op \in {"get", "upsert"} /\ LoadOf(t, {job[t].target})
  BY <1>3 DEF EndPrune, DiskOps
<1> QED BY <1>8, <1>10, <1>11, <1>12

LEMMA StartPruneKeeps ==
  ASSUME ArtifactInv, NEW t \in Workers, StartPrune(t)
  PROVE  ArtifactInv'
<1> DEFINE s == ServerOf[t]
<1>1. /\ ArtifactTypeOK /\ job[t] \in Jobs /\ s \in Servers
      /\ StepOfCall(t) /\ ShelfIsSeen(t)
  BY KnownOfCall
<1>2. /\ Others(t) /\ UNCHANGED unseen /\ job[t].at = "prune"
      /\ job'[t].at = "purge order" /\ job'[t].op = job[t].op
      /\ job'[t].target = job[t].target /\ job'[t].seen = job[t].seen
      /\ job'[t].evict = Evicted /\ job'[t].purge = Forgotten(t)
  BY <1>1, PruneMoves
<1>3. /\ diskIo' = [diskIo EXCEPT ![s] = t]
      /\ UNCHANGED <<shelf, stored, expired, lastMade, artCalls, resident, overlapped>>
  BY DEF StartPrune, DiskUnchanged
<1>4. ArtifactTypeOK'
  BY <1>1, <1>2, <1>3 DEF ArtifactTypeOK, Others
<1>5. CallInv(t)'
  <2>1. StepOfCall(t)'
    BY <1>1, <1>2 DEF StepOfCall, MapSteps, PurgeSteps, LookSteps
  <2>2. ShelfIsSeen(t)' /\ EntryIsThere(t)' /\ PurgeOverlaps(t)'
    BY <1>1, <1>2, <1>3 DEF ShelfIsSeen, EntryIsThere, PurgeOverlaps, MapSteps, Working
  <2>3. DirsAreSeen(t)'
    <3>1. resident[s]["dirs"] \ Forgotten(t) \subseteq shelf
      BY DEF Forgotten, MapsOf
    <3>2. job[t].op # "store" => shelf \subseteq job[t].seen
      BY <1>1, <1>2 DEF ShelfIsSeen, Working
    <3> QED BY <1>2, <1>3, <3>1, <3>2 DEF DirsAreSeen, PurgeSteps, MapSteps, LookSteps
  <2> QED BY <2>1, <2>2, <2>3 DEF CallInv
<1>6. Harmless(t)
  BY <1>2, <1>3 DEF Harmless, Loaded
<1>7. \A u \in Workers : CallInv(u)'
  BY <1>5, <1>6, OthersKeep
<1>8. MapsAgree'
  <2>1. \A r \in Servers : EnteringDirs(r) \subseteq EnteringDirs(r)'
    BY <1>2, EnteringStays
  <2> QED BY <1>3, <2>1 DEF ArtifactInv, MapsAgree
<1>9. HandedOutWasThere'
  BY <1>2, <1>3 DEF ArtifactInv, HandedOutWasThere
<1>10. Doomed' = Doomed \cup Evicted
  <2>1. ASSUME NEW a PROVE a \in Doomed' <=> a \in Doomed \/ a \in Evicted
    <3>1. a \in Doomed <=> \E u \in Workers : job[u].at \in PurgeSteps /\ a \in job[u].evict
      BY DEF Doomed
    <3>2. a \in Doomed' <=> \E u \in Workers : job'[u].at \in PurgeSteps /\ a \in job'[u].evict
      BY DEF Doomed
    <3>3. \A u \in Workers \ {t} : job'[u].at = job[u].at /\ job'[u].evict = job[u].evict
      BY <1>2 DEF Others
    <3>4. job[t].at \notin PurgeSteps /\ job'[t].at \in PurgeSteps
      BY <1>2 DEF PurgeSteps
    <3> QED BY <1>2, <3>1, <3>2, <3>3, <3>4
  <2> QED BY <2>1
<1>11. shelf \subseteq stored /\ (stored \ shelf) \cup Doomed \subseteq Old(stored) \cup Excess(stored)
  BY DEF ArtifactInv, OutlivedOnly
<1>12. OutlivedOnly'
  <2>1. Old(shelf) \subseteq Old(stored)
    BY <1>11 DEF Old
  <2>2. Excess(shelf \ Old(shelf)) \subseteq Excess(stored)
    BY <1>1, <1>11, ExcessGrows DEF ArtifactTypeOK
  <2>3. Evicted \subseteq Old(stored) \cup Excess(stored)
    BY <2>1, <2>2 DEF Evicted
  <2>4. Old(stored)' = Old(stored) /\ Excess(stored)' = Excess(stored)
    BY <1>3 DEF Old, Excess
  <2> QED BY <1>3, <1>10, <1>11, <2>3, <2>4 DEF OutlivedOnly
<1>13. CapByStores'
  <2> DEFINE young == shelf \ Old(shelf)
  <2>1. young \in SUBSET Artifacts /\ young \ Excess(young) \in SUBSET Artifacts
    BY <1>1 DEF ArtifactTypeOK
  <2>2. Fresh' \subseteq young \ Excess(young)
    BY <1>3, <1>10 DEF Fresh, Old, Evicted
  <2>3. Cardinality(young \ Excess(young)) <= ArtifactCap
    BY <2>1, KeptIsCapped
  <2>4. /\ Cardinality(Fresh') <= Cardinality(young \ Excess(young))
        /\ Cardinality(Fresh') \in Nat /\ Cardinality(young \ Excess(young)) \in Nat
    BY <2>1, <2>2, FewerOrAsMany, SetsAreFinite
  <2>5. Cardinality(Unpruned') \in Nat
    <3>1. Unpruned' \subseteq Workers
      BY DEF Unpruned
    <3> QED BY <3>1, ArtifactAssumption, FS_Subset, FS_CardinalityType
  <2> HIDE DEF young
  <2>6. Cardinality(Fresh') <= ArtifactCap + Cardinality(Unpruned')
    BY <2>3, <2>4, <2>5, ArtifactAssumption
  <2> QED BY <2>6 DEF CapByStores
<1> QED BY <1>4, <1>7, <1>8, <1>9, <1>12, <1>13 DEF ArtifactInv

LEMMA PublishKeeps ==
  ASSUME ArtifactInv, NEW t \in Workers, Publish(t)
  PROVE  ArtifactInv'
<1> DEFINE a == job[t].target
<1>1. /\ ArtifactTypeOK /\ job[t] \in Jobs /\ ServerOf[t] \in Servers /\ StepOfCall(t)
  BY KnownOfCall
<1>2. /\ job[t].at = "publish" /\ job[t].op = "store" /\ a \in Artifacts
      /\ UNCHANGED <<expired, resident, diskIo, lastMade, overlapped, artCalls>>
  BY <1>1 DEF Publish, StepOfCall
<1>3. \A s \in Servers : /\ Loaded(s, "artifacts")' = Loaded(s, "artifacts")
                         /\ Loaded(s, "dirs")' = Loaded(s, "dirs")
  BY <1>2 DEF Loaded
<1>4. ASSUME UNCHANGED <<shelf, stored>>, Returns(t, {})
      PROVE  ArtifactInv'
  <2>1. shelf' \subseteq Artifacts
    BY <1>1, <1>4 DEF ArtifactTypeOK
  <2>2. Others(t) /\ job'[t] = NoJob /\ unseen' \in [Servers -> SUBSET Artifacts]
    BY <1>1, <1>4, <2>1, ReturnsMoves
  <2>3. ArtifactTypeOK'
    BY <1>1, <1>2, <1>4, <2>2 DEF ArtifactTypeOK, Others
  <2>4. CallInv(t)' /\ DoomedAlike(t) /\ t \notin Unpruned /\ job[t].at # "dirs"
    BY <1>2, <2>2, IdleCall DEF DoomedAlike, PurgeSteps, Unpruned, MapSteps
  <2>5. HandedOutWasThere'
    BY <1>2, <1>4, <2>1, Handed
  <2> QED BY <1>2, <1>3, <1>4, <2>2, <2>3, <2>4, <2>5, QuietStep
<1>5. ASSUME shelf' = shelf \cup {a}, stored' = stored \cup {a}, At(t, "artifacts")
      PROVE  ArtifactInv'
  <2>1. shelf' \in SUBSET Artifacts /\ stored' \in SUBSET Artifacts
    BY <1>1, <1>2, <1>5 DEF ArtifactTypeOK
  <2>2. /\ Others(t) /\ UNCHANGED unseen /\ job'[t].at = "artifacts" /\ job'[t].op = "store"
        /\ job'[t].target = a
    BY <1>1, <1>2, <1>5, <2>1, AtMoves DEF JobSteps
  <2> HIDE DEF a
  <2>3. ArtifactTypeOK'
    BY <1>1, <1>2, <2>1, <2>2 DEF ArtifactTypeOK, Others
  <2>4. CallInv(t)'
    BY <1>2, <1>5, <2>2 DEF CallInv, StepOfCall, ShelfIsSeen, EntryIsThere, PurgeOverlaps,
       DirsAreSeen, MapSteps, PurgeSteps, LookSteps, DiskOps
  <2>5. Harmless(t)
    BY <1>2, <1>3, <1>5, <2>2 DEF Harmless
  <2>6. \A u \in Workers : CallInv(u)'
    BY <2>4, <2>5, OthersKeep
  <2>7. MapsAgree'
    <3>1. \A r \in Servers : EnteringDirs(r) \subseteq EnteringDirs(r)'
      BY <1>2, <2>2, EnteringStays
    <3> QED BY <1>2, <3>1 DEF ArtifactInv, MapsAgree
  <2>8. HandedOutWasThere'
    BY <1>2, <2>2 DEF ArtifactInv, HandedOutWasThere
  <2>9. Doomed' = Doomed
    BY <1>2, <2>2, DoomedStays DEF DoomedAlike, PurgeSteps
  <2>10. OutlivedOnly'
    <3>1. shelf \subseteq stored /\ (stored \ shelf) \cup Doomed \subseteq Old(stored) \cup Excess(stored)
      BY DEF ArtifactInv, OutlivedOnly
    <3>2. Old(stored) \subseteq Old(stored') /\ Excess(stored) \subseteq Excess(stored')
      BY <1>5, <2>1, ExcessGrows
    <3>3. Old(stored)' = Old(stored') /\ Excess(stored)' = Excess(stored')
      BY <1>2 DEF Old, Excess
    <3> QED BY <1>5, <2>9, <3>1, <3>2, <3>3 DEF OutlivedOnly
  <2>11. CapByStores'
    <3>1. Fresh' \subseteq Fresh \cup {a}
      BY <1>2, <1>5, <2>9 DEF Fresh
    <3>2. Fresh \in SUBSET Artifacts /\ Fresh \cup {a} \in SUBSET Artifacts
      BY <1>1, <1>2 DEF Fresh, ArtifactTypeOK
    <3>3. Cardinality(Fresh \cup {a}) <= Cardinality(Fresh) + 1
      <4>1. IsFiniteSet(Fresh) /\ Cardinality(Fresh) \in Nat
        BY <3>2, SetsAreFinite
      <4>2. Cardinality(Fresh \cup {a}) = IF a \in Fresh THEN Cardinality(Fresh) ELSE Cardinality(Fresh) + 1
        BY <4>1, FS_AddElement
      <4> QED BY <4>1, <4>2
    <3>4. /\ Cardinality(Fresh') <= Cardinality(Fresh \cup {a}) /\ Cardinality(Fresh') \in Nat
          /\ Cardinality(Fresh) \in Nat /\ Cardinality(Fresh \cup {a}) \in Nat
      BY <3>1, <3>2, FewerOrAsMany, SetsAreFinite
    <3>5. Unpruned' = Unpruned \cup {t} /\ t \notin Unpruned /\ Unpruned \subseteq Workers
      <4>1. t \in Unpruned' /\ t \notin Unpruned
        BY <1>2, <2>2 DEF Unpruned, MapSteps
      <4>2. ASSUME NEW u \in Workers \ {t} PROVE u \in Unpruned' <=> u \in Unpruned
        BY <2>2 DEF Unpruned, Others
      <4>3. Unpruned \subseteq Workers /\ Unpruned' \subseteq Workers
        BY DEF Unpruned
      <4> QED BY <4>1, <4>2, <4>3
    <3>6. IsFiniteSet(Unpruned) /\ Cardinality(Unpruned) \in Nat
      BY <3>5, ArtifactAssumption, FS_Subset, FS_CardinalityType
    <3>7. Cardinality(Unpruned') = Cardinality(Unpruned) + 1
      BY <3>5, <3>6, FS_AddElement
    <3>8. Cardinality(Fresh) <= ArtifactCap + Cardinality(Unpruned)
      BY DEF ArtifactInv, CapByStores
    <3>9. Cardinality(Fresh') <= ArtifactCap + Cardinality(Unpruned')
      BY <3>3, <3>4, <3>6, <3>7, <3>8, ArtifactAssumption
    <3> QED BY <3>9 DEF CapByStores
  <2> QED BY <2>3, <2>6, <2>7, <2>8, <2>10, <2>11 DEF ArtifactInv
<1> QED BY <1>4, <1>5 DEF Publish

(* What a call removes from the disk because it has expired, with its last step or not. *)
LEMMA OldTakenOff ==
  ASSUME ArtifactInv, NEW t \in Workers, NEW as \in SUBSET Old(shelf), TakeOff(as),
         job[t].at \in {"read", "cleanup"}, Others(t), job'[t].at \notin PurgeSteps,
         UNCHANGED <<stored, expired, resident, diskIo, lastMade, artCalls>>,
         unseen' \in [Servers -> SUBSET Artifacts], CallInv(t)', HandedOutWasThere'
  PROVE  ArtifactInv'
<1>1. ArtifactTypeOK /\ as \in SUBSET Artifacts
  BY DEF ArtifactInv, ArtifactTypeOK, Old
<1>2. /\ shelf' = shelf \ as /\ shelf' \subseteq Artifacts
      /\ overlapped' \in [Servers -> SUBSET Artifacts]
      /\ \A s \in Servers : overlapped[s] \subseteq overlapped'[s]
      /\ \A u \in Workers, a \in shelf \ shelf' : Entering(u, a) => a \in overlapped'[ServerOf[u]]
  BY <1>1, TakenOff
<1>3. ArtifactTypeOK'
  BY <1>1, <1>2 DEF ArtifactTypeOK, Others
<1>4. Harmless(t)
  BY <1>2 DEF Harmless, Loaded
<1>5. \A u \in Workers : CallInv(u)'
  BY <1>4, OthersKeep
<1>6. MapsAgree'
  <2>1. \A r \in Servers : EnteringDirs(r) \subseteq EnteringDirs(r)'
    BY EnteringStays
  <2> QED BY <1>2, <2>1 DEF ArtifactInv, MapsAgree
<1>7. Doomed' = Doomed
  BY DoomedStays DEF DoomedAlike, PurgeSteps
<1>8. OutlivedOnly' /\ CapByStores'
  <2>1. shelf \ shelf' \subseteq Old(stored)
    BY <1>2 DEF ArtifactInv, OutlivedOnly, Old
  <2>2. t \notin Unpruned
    BY DEF Unpruned, MapSteps
  <2> QED BY <1>2, <1>7, <2>1, <2>2, DiskShrinks
<1> QED BY <1>3, <1>5, <1>6, <1>8 DEF ArtifactInv

LEMMA CleanUpKeeps ==
  ASSUME ArtifactInv, NEW t \in Workers, CleanUp(t)
  PROVE  ArtifactInv'
<1>1. ArtifactTypeOK /\ Old(shelf) \in SUBSET Artifacts
  BY DEF ArtifactInv, ArtifactTypeOK, Old
<1>2. /\ job[t].at = "cleanup" /\ TakeOff(Old(shelf)) /\ Returns(t, {})
      /\ UNCHANGED <<stored, expired, resident, diskIo, lastMade, artCalls>>
  BY DEF CleanUp
<1>3. shelf' \subseteq Artifacts /\ \A s \in Servers : overlapped[s] \subseteq overlapped'[s]
  BY <1>1, <1>2, TakenOff
<1>4. Others(t) /\ job'[t] = NoJob /\ unseen' \in [Servers -> SUBSET Artifacts]
  BY <1>1, <1>2, <1>3, ReturnsMoves
<1>5. HandedOutWasThere'
  BY <1>2, <1>3, Handed
<1>6. CallInv(t)' /\ job'[t].at \notin PurgeSteps
  BY <1>4, IdleCall
<1>7. Old(shelf) \in SUBSET Old(shelf)
  OBVIOUS
<1> QED BY <1>2, <1>4, <1>5, <1>6, <1>7, OldTakenOff

LEMMA ReadDiskKeeps ==
  ASSUME ArtifactInv, NEW t \in Workers, ReadDisk(t)
  PROVE  ArtifactInv'
<1> DEFINE a == job[t].target
<1>1. /\ ArtifactTypeOK /\ job[t] \in Jobs /\ ServerOf[t] \in Servers
      /\ StepOfCall(t) /\ ShelfIsSeen(t) /\ DirsAreSeen(t)
  BY KnownOfCall
<1>2. /\ job[t].at = "read" /\ job[t].op \in DiskOps \ {"store"} /\ a \in Artifacts
      /\ UNCHANGED <<stored, expired, resident, diskIo, lastMade, artCalls>>
  BY <1>1 DEF ReadDisk, StepOfCall, LookSteps
<1>3. /\ \A s \in Servers : /\ Loaded(s, "artifacts")' = Loaded(s, "artifacts")
                            /\ Loaded(s, "dirs")' = Loaded(s, "dirs")
      /\ job[t].at # "dirs" /\ t \notin Unpruned
  BY <1>2 DEF Loaded, Unpruned
<1>4. ASSUME a \in shelf, UNCHANGED <<shelf, overlapped>>, At(t, "artifacts")
      PROVE  ArtifactInv'
  <2>1. /\ Others(t) /\ UNCHANGED unseen /\ job'[t].at = "artifacts" /\ job'[t].op = job[t].op
        /\ job'[t].target = a /\ job'[t].seen = job[t].seen
    <3>1. shelf' \subseteq Artifacts /\ "artifacts" \in JobSteps
      BY <1>1, <1>4 DEF ArtifactTypeOK, JobSteps
    <3> QED BY <1>1, <1>4, <3>1, AtMoves
  <2>2. ArtifactTypeOK'
    BY <1>1, <1>2, <1>4, <2>1 DEF ArtifactTypeOK, Others
  <2>3. CallInv(t)'
    BY <1>1, <1>2, <1>4, <2>1 DEF CallInv, StepOfCall, ShelfIsSeen, EntryIsThere, PurgeOverlaps,
       DirsAreSeen, MapSteps, PurgeSteps, LookSteps, Working
  <2>4. HandedOutWasThere'
    BY <1>4, <2>1 DEF ArtifactInv, HandedOutWasThere
  <2>5. DoomedAlike(t)
    BY <1>2, <2>1 DEF DoomedAlike, PurgeSteps
  <2> QED BY <1>2, <1>3, <1>4, <2>1, <2>2, <2>3, <2>4, <2>5, QuietStep
(* A miss: whether the disk lost what has expired or had nothing. *)
<1>5. ASSUME Missed(t), shelf' \subseteq shelf, shelf' \subseteq Artifacts,
             \A s \in Servers : overlapped[s] \subseteq overlapped'[s]
      PROVE  /\ Others(t) /\ unseen' \in [Servers -> SUBSET Artifacts] /\ CallInv(t)'
             /\ HandedOutWasThere' /\ job'[t].at \notin PurgeSteps
  <2>1. CASE Returns(t, {})
    <3>1. Others(t) /\ job'[t] = NoJob /\ unseen' \in [Servers -> SUBSET Artifacts]
      BY <1>1, <1>5, <2>1, ReturnsMoves
    <3>2. HandedOutWasThere'
      BY <1>5, <2>1, Handed
    <3> QED BY <3>1, <3>2, IdleCall
  <2>2. CASE job[t].op = "lookup" /\ At(t, "load")
    <3>1. /\ Others(t) /\ UNCHANGED unseen /\ job'[t].at = "load" /\ job'[t].op = job[t].op
          /\ job'[t].target = a /\ job'[t].seen = job[t].seen
      BY <1>1, <1>5, <2>2, AtMoves DEF JobSteps
    <3>2. StepOfCall(t)' /\ ShelfIsSeen(t)' /\ EntryIsThere(t)' /\ PurgeOverlaps(t)'
      BY <1>1, <1>2, <1>5, <3>1 DEF StepOfCall, ShelfIsSeen, EntryIsThere, PurgeOverlaps,
         MapSteps, PurgeSteps, LookSteps, Working
    <3>3. DirsAreSeen(t)'
      <4>1. resident[ServerOf[t]]["dirs"] \subseteq job[t].seen \cup overlapped[ServerOf[t]]
        BY <1>1, <1>2 DEF DirsAreSeen, LookSteps
      <4>2. overlapped[ServerOf[t]] \subseteq overlapped'[ServerOf[t]]
        BY <1>1, <1>5
      <4> QED BY <1>2, <3>1, <4>1, <4>2 DEF DirsAreSeen, PurgeSteps
    <3>4. HandedOutWasThere'
      BY <1>5, <3>1 DEF ArtifactInv, HandedOutWasThere
    <3> QED BY <1>1, <3>1, <3>2, <3>3, <3>4 DEF CallInv, ArtifactTypeOK, PurgeSteps
  <2> QED BY <1>5, <2>1, <2>2 DEF Missed
<1>6. ASSUME UNCHANGED <<shelf, overlapped>>, Missed(t)
      PROVE  ArtifactInv'
  <2>1. /\ Others(t) /\ unseen' \in [Servers -> SUBSET Artifacts] /\ CallInv(t)'
        /\ HandedOutWasThere' /\ job'[t].at \notin PurgeSteps
    BY <1>1, <1>5, <1>6 DEF ArtifactTypeOK
  <2>2. ArtifactTypeOK' /\ DoomedAlike(t)
    BY <1>1, <1>2, <1>6, <2>1 DEF ArtifactTypeOK, Others, DoomedAlike, PurgeSteps
  <2> QED BY <1>2, <1>3, <1>6, <2>1, <2>2, QuietStep
<1>7. ASSUME a \in shelf, a <= expired, TakeOff({a}), Missed(t)
      PROVE  ArtifactInv'
  <2>1. {a} \in SUBSET Old(shelf)
    BY <1>7 DEF Old
  <2>2. /\ shelf' \subseteq shelf /\ shelf' \subseteq Artifacts
        /\ \A s \in Servers : overlapped[s] \subseteq overlapped'[s]
    BY <1>1, <1>2, <1>7, TakenOff
  <2>3. /\ Others(t) /\ unseen' \in [Servers -> SUBSET Artifacts] /\ CallInv(t)'
        /\ HandedOutWasThere' /\ job'[t].at \notin PurgeSteps
    BY <1>5, <1>7, <2>2
  <2> QED BY <1>2, <1>7, <2>1, <2>3, OldTakenOff
<1> QED BY <1>4, <1>6, <1>7 DEF ReadDisk

LEMMA AmendKeeps ==
  ASSUME ArtifactInv, NEW t \in Workers, Amend(t)
  PROVE  ArtifactInv'
<1> DEFINE s == ServerOf[t]
           a == job[t].target
<1>1. /\ ArtifactTypeOK /\ job[t] \in Jobs /\ s \in Servers /\ StepOfCall(t)
  BY KnownOfCall
<1>2. /\ job[t].at = "amend" /\ a \in Artifacts
      /\ UNCHANGED <<shelf, stored, expired, lastMade, artCalls, diskIo>>
  BY <1>1 DEF Amend, StepOfCall, DiskUnchanged
<1>3. shelf' \subseteq Artifacts /\ job[t].at # "dirs" /\ t \notin Unpruned
  BY <1>1, <1>2 DEF ArtifactTypeOK, Unpruned, MapSteps
<1>4. ASSUME NEW as \in SUBSET Artifacts, Returns(t, as)
      PROVE  /\ Others(t) /\ unseen' \in [Servers -> SUBSET Artifacts]
             /\ CallInv(t)' /\ DoomedAlike(t)
  <2>1. Others(t) /\ job'[t] = NoJob /\ unseen' \in [Servers -> SUBSET Artifacts]
    BY <1>1, <1>3, <1>4, ReturnsMoves
  <2> QED BY <1>2, <2>1, IdleCall DEF DoomedAlike, PurgeSteps
<1>5. ASSUME UNCHANGED <<resident, overlapped>>, Returns(t, {})
      PROVE  ArtifactInv'
  <2>1. /\ Others(t) /\ unseen' \in [Servers -> SUBSET Artifacts]
        /\ CallInv(t)' /\ DoomedAlike(t)
    BY <1>4, <1>5
  <2>2. ArtifactTypeOK'
    BY <1>1, <1>2, <1>5, <2>1 DEF ArtifactTypeOK, Others
  <2>3. HandedOutWasThere'
    BY <1>3, <1>5, Handed
  <2>4. \A r \in Servers : /\ Loaded(r, "artifacts")' = Loaded(r, "artifacts")
                           /\ Loaded(r, "dirs")' = Loaded(r, "dirs")
    BY <1>5 DEF Loaded
  <2> QED BY <1>2, <1>3, <1>5, <2>1, <2>2, <2>3, <2>4, QuietStep
<1>6. ASSUME a \in shelf, Returns(t, {a}),
             resident' = [resident EXCEPT ![s]["artifacts"] = @ \cup {a}],
             overlapped' = [overlapped EXCEPT ![s] =
               IF Purging(s) \/ a \notin resident[s]["dirs"] THEN @ \cup {a} ELSE @]
      PROVE  ArtifactInv'
  <2>1. {a} \in SUBSET Artifacts /\ {a} \subseteq shelf'
    BY <1>2, <1>6
  <2>2. /\ Others(t) /\ unseen' \in [Servers -> SUBSET Artifacts]
        /\ CallInv(t)' /\ DoomedAlike(t)
    BY <1>4, <1>6, <2>1
  <2> HIDE DEF s, a
  <2>3. /\ resident' \in [Servers -> [Maps -> SUBSET Artifacts]]
        /\ overlapped' \in [Servers -> SUBSET Artifacts]
    BY <1>1, <1>2, <1>6 DEF ArtifactTypeOK, Maps
  <2>4. /\ \A r \in Servers : /\ overlapped[r] \subseteq overlapped'[r]
                              /\ Loaded(r, "dirs")' = Loaded(r, "dirs")
                              /\ r # s => Loaded(r, "artifacts")' = Loaded(r, "artifacts")
        /\ Loaded(s, "artifacts")' = Loaded(s, "artifacts") \cup {a}
        /\ Purging(s) \/ a \notin Loaded(s, "dirs") => a \in overlapped'[s]
    BY <1>1, <1>2, <1>6 DEF ArtifactTypeOK, Loaded, Maps
  <2>5. ArtifactTypeOK'
    BY <1>1, <1>2, <2>2, <2>3 DEF ArtifactTypeOK, Others
  <2>6. Harmless(t)
    BY <1>2, <2>2, <2>4 DEF Harmless
  <2>7. \A u \in Workers : CallInv(u)'
    BY <2>2, <2>6, OthersKeep
  <2>8. MapsAgree'
    <3>1. \A r \in Servers : EnteringDirs(r) \subseteq EnteringDirs(r)'
      BY <1>3, <2>2, EnteringStays
    <3> QED BY <2>4, <3>1 DEF ArtifactInv, MapsAgree, Loaded
  <2>9. HandedOutWasThere'
    <3>1. \A r \in Servers : overlapped[r] \subseteq overlapped'[r]
      BY <2>4
    <3>2. Returns(t, {a}) /\ {a} \subseteq job[t].seen \cup shelf' \cup overlapped'[ServerOf[t]]
      BY <1>6, <2>1
    <3> QED BY <1>3, <2>1, <3>1, <3>2, Handed
  <2>10. OutlivedOnly' /\ CapByStores'
    <3>1. Doomed' = Doomed
      BY <2>2, DoomedStays
    <3> QED BY <1>2, <1>3, <2>2, <3>1, DiskShrinks
  <2> QED BY <2>5, <2>7, <2>8, <2>9, <2>10 DEF ArtifactInv
<1> QED BY <1>5, <1>6 DEF Amend, MapsOf

LEMMA ClearKeeps ==
  ASSUME ArtifactInv, NEW t \in Workers, ClearMaps(t)
  PROVE  ArtifactInv'
<1> DEFINE s == ServerOf[t]
           clearSteps == {"clear artifacts", "clear dirs", "clear order", "cleanup"}
<1>1. /\ ArtifactTypeOK /\ job[t] \in Jobs /\ s \in Servers
      /\ StepOfCall(t) /\ ShelfIsSeen(t) /\ PurgeOverlaps(t)
  BY KnownOfCall
<1> HIDE DEF s
<1>2. SUFFICES ASSUME NEW from \in clearSteps, NEW map \in Maps, NEW to \in clearSteps,
                      Clear(t, from, map, to),
                      \/ map = "artifacts" /\ to = "clear dirs"
                      \/ map = "dirs" /\ from = "clear dirs" /\ to = "clear order"
                      \/ map = "order" /\ to = "cleanup"
               PROVE  ArtifactInv'
  BY DEF ClearMaps, Maps
<1>3. /\ job[t].at = from
      /\ resident' = [resident EXCEPT ![s][map] = {}]
      /\ UNCHANGED <<shelf, stored, expired, lastMade, artCalls, diskIo, overlapped>>
      /\ At(t, to)
  BY <1>2 DEF Clear, DiskUnchanged, s
<1>4. /\ Others(t) /\ UNCHANGED unseen /\ job'[t].at = to /\ job'[t].op = job[t].op
      /\ job'[t].target = job[t].target /\ job'[t].seen = job[t].seen
  <2>1. shelf' \subseteq Artifacts /\ to \in JobSteps
    BY <1>1, <1>3 DEF ArtifactTypeOK, JobSteps
  <2> QED BY <1>1, <1>3, <2>1, AtMoves
<1>5. /\ resident' \in [Servers -> [Maps -> SUBSET Artifacts]]
      /\ \A r \in Servers, m \in Maps :
           /\ Loaded(r, m)' \subseteq Loaded(r, m)
           /\ r # s \/ m # map => Loaded(r, m)' = Loaded(r, m)
      /\ Loaded(s, map)' = {}
  BY <1>1, <1>3 DEF ArtifactTypeOK, Loaded
<1>6. ArtifactTypeOK'
  BY <1>1, <1>3, <1>4, <1>5 DEF ArtifactTypeOK, Others
<1>7. job[t].at \notin MapSteps \cup PurgeSteps /\ job'[t].at \notin MapSteps \cup PurgeSteps \cup LookSteps
  BY <1>3, <1>4 DEF MapSteps, PurgeSteps, LookSteps
<1>8. CallInv(t)'
  <2>1. StepOfCall(t)'
    BY <1>1, <1>4 DEF StepOfCall, MapSteps, PurgeSteps, LookSteps
  <2>2. ShelfIsSeen(t)' /\ EntryIsThere(t)' /\ DirsAreSeen(t)'
    BY <1>1, <1>3, <1>4, <1>7 DEF ShelfIsSeen, EntryIsThere, DirsAreSeen, Working
  <2>3. PurgeOverlaps(t)'
    BY <1>2, <1>4, <1>5 DEF PurgeOverlaps, Loaded, Maps, s
  <2> QED BY <2>1, <2>2, <2>3 DEF CallInv
<1>9. Harmless(t)
  BY <1>3, <1>4, <1>5 DEF Harmless, Maps
<1>10. \A u \in Workers : CallInv(u)'
  BY <1>8, <1>9, OthersKeep
<1>11. MapsAgree'
  <2>1. \A r \in Servers : EnteringDirs(r) \subseteq EnteringDirs(r)'
    BY <1>4, <1>7, EnteringStays DEF MapSteps
  <2>2. map = "dirs" => Loaded(s, "artifacts") \subseteq overlapped[s]
    BY <1>1, <1>2, <1>3 DEF PurgeOverlaps, Loaded, s
  <2>3. ASSUME NEW r \in Servers
        PROVE  Loaded(r, "artifacts")' \subseteq
                 Loaded(r, "dirs")' \cup overlapped'[r] \cup EnteringDirs(r)'
    <3>1. Loaded(r, "artifacts") \subseteq Loaded(r, "dirs") \cup overlapped[r] \cup EnteringDirs(r)
      BY DEF ArtifactInv, MapsAgree, Loaded
    <3> QED BY <1>3, <1>5, <2>1, <2>2, <3>1 DEF Maps
  <2> QED BY <2>3 DEF MapsAgree, Loaded
<1>12. HandedOutWasThere'
  BY <1>3, <1>4 DEF ArtifactInv, HandedOutWasThere
<1>13. OutlivedOnly' /\ CapByStores'
  <2>1. Doomed' = Doomed
    BY <1>4, <1>7, DoomedStays DEF DoomedAlike
  <2>2. t \notin Unpruned
    BY <1>3 DEF Unpruned, MapSteps
  <2> QED BY <1>3, <1>4, <2>1, <2>2, DiskShrinks
<1> QED BY <1>6, <1>10, <1>11, <1>12, <1>13 DEF ArtifactInv

LEMMA ExpireKeeps ==
  ASSUME ArtifactInv, Expire
  PROVE  ArtifactInv'
<1>1. /\ ArtifactTypeOK /\ expired' = expired + 1 /\ expired < lastMade
      /\ UNCHANGED <<shelf, stored, resident, diskIo, job, lastMade, overlapped, unseen, artCalls>>
  BY DEF ArtifactInv, Expire
<1>2. expired \in Nat /\ expired' \in 0..MaxStores
  BY <1>1, ArtifactAssumption DEF ArtifactTypeOK
<1>3. ArtifactTypeOK' /\ \A a \in Nat : a <= expired => a <= expired'
  <2>1. \A a \in Nat : a <= expired => a <= expired'
    BY <1>1, <1>2
  <2> QED BY <1>1, <1>2, <2>1 DEF ArtifactTypeOK
<1>4. ASSUME NEW u \in Workers PROVE CallInv(u)'
  BY <1>1 DEF ArtifactInv, CallInv, StepOfCall, ShelfIsSeen, EntryIsThere, PurgeOverlaps,
     DirsAreSeen, Working
<1>5. MapsAgree' /\ HandedOutWasThere'
  BY <1>1 DEF ArtifactInv, MapsAgree, HandedOutWasThere, EnteringDirs
<1>6. Doomed' = Doomed
  BY <1>1 DEF Doomed
<1>7. OutlivedOnly'
  <2>1. shelf \subseteq stored /\ (stored \ shelf) \cup Doomed \subseteq Old(stored) \cup Excess(stored)
    BY DEF ArtifactInv, OutlivedOnly
  <2>2. stored \subseteq Nat
    BY <1>1, SetsAreFinite DEF ArtifactTypeOK
  <2>3. Old(stored) \subseteq Old(stored)'
    BY <1>1, <1>3, <2>2, Zenon DEF Old
  <2>4. Excess(stored) = Excess(stored)'
    BY <1>1 DEF Excess
  <2> QED BY <1>1, <1>6, <2>1, <2>3, <2>4 DEF OutlivedOnly
<1>8. CapByStores'
  <2>1. shelf \subseteq Nat
    BY <1>1, SetsAreFinite DEF ArtifactTypeOK
  <2>2. Fresh' \subseteq Fresh /\ Fresh \in SUBSET Artifacts
    <3>1. \A a \in Nat : a > expired' => a > expired
      BY <1>1, <1>2
    <3>2. Fresh \in SUBSET Artifacts
      BY <1>1 DEF Fresh, ArtifactTypeOK
    <3> QED BY <1>1, <1>6, <2>1, <3>1, <3>2 DEF Fresh
  <2>3. /\ Cardinality(Fresh') <= Cardinality(Fresh)
        /\ Cardinality(Fresh') \in Nat /\ Cardinality(Fresh) \in Nat
    BY <2>2, FewerOrAsMany, SetsAreFinite
  <2>4. Unpruned' = Unpruned
    BY <1>1 DEF Unpruned
  <2>5. Cardinality(Unpruned) \in Nat
    <3>1. Unpruned \subseteq Workers
      BY DEF Unpruned
    <3> QED BY <3>1, ArtifactAssumption, FS_Subset, FS_CardinalityType
  <2>6. Cardinality(Fresh) <= ArtifactCap + Cardinality(Unpruned)
    BY DEF ArtifactInv, CapByStores
  <2>7. Cardinality(Fresh') <= ArtifactCap + Cardinality(Unpruned')
    BY <2>3, <2>4, <2>5, <2>6, ArtifactAssumption
  <2> QED BY <2>7 DEF CapByStores
<1> QED BY <1>3, <1>4, <1>5, <1>7, <1>8 DEF ArtifactInv

LEMMA StutterKeeps ==
  ASSUME ArtifactInv, UNCHANGED artVars
  PROVE  ArtifactInv'
<1>1. ArtifactTypeOK' /\ MapsAgree' /\ HandedOutWasThere' /\ OutlivedOnly'
  <2>1. ArtifactTypeOK' /\ HandedOutWasThere'
    BY DEF ArtifactInv, artVars, ArtifactTypeOK, HandedOutWasThere
  <2>2. MapsAgree'
    BY DEF ArtifactInv, artVars, MapsAgree, EnteringDirs
  <2>3. Doomed' = Doomed /\ Old(stored)' = Old(stored) /\ Excess(stored)' = Excess(stored)
    BY DEF artVars, Doomed, Old, Excess
  <2>4. OutlivedOnly'
    BY <2>3 DEF ArtifactInv, artVars, OutlivedOnly
  <2> QED BY <2>1, <2>2, <2>4
<1>2. ASSUME NEW u \in Workers PROVE CallInv(u)'
  BY DEF ArtifactInv, artVars, CallInv, StepOfCall, ShelfIsSeen, EntryIsThere, PurgeOverlaps,
     DirsAreSeen, Working
<1>3. CapByStores'
  <2>1. Fresh' = Fresh /\ Unpruned' = Unpruned
    BY DEF artVars, Fresh, Unpruned, Doomed
  <2> QED BY <2>1 DEF ArtifactInv, CapByStores
<1> QED BY <1>1, <1>2, <1>3 DEF ArtifactInv

-----------------------------------------------------------------------------
(* The invariant holds of every behaviour *)

LEMMA ArtifactInvHolds == ArtifactSpec => []ArtifactInv
<1>1. ArtifactInit => ArtifactInv
  <2> SUFFICES ASSUME ArtifactInit PROVE ArtifactInv
    OBVIOUS
  <2>1. \A t \in Workers : job[t] = NoJob /\ ServerOf[t] \in Servers
    BY ArtifactAssumption DEF ArtifactInit
  <2>2. ArtifactTypeOK
    BY JobTypes, ArtifactAssumption DEF ArtifactInit, ArtifactTypeOK
  <2>3. ASSUME NEW t \in Workers PROVE CallInv(t)
    BY <2>1, JobTypes DEF CallInv, StepOfCall, ShelfIsSeen, EntryIsThere, PurgeOverlaps,
       DirsAreSeen, Working, MapSteps, PurgeSteps, LookSteps
  <2>4. MapsAgree /\ HandedOutWasThere
    BY DEF ArtifactInit, MapsAgree, HandedOutWasThere, Maps
  <2>5. Doomed = {}
    BY <2>1, JobTypes DEF Doomed, PurgeSteps
  <2>6. OutlivedOnly
    BY <2>5 DEF ArtifactInit, OutlivedOnly
  <2>7. CapByStores
    <3>1. Fresh = {} /\ Unpruned = {}
      BY <2>1, JobTypes DEF ArtifactInit, Fresh, Unpruned
    <3>2. Cardinality(Fresh) = 0 /\ Cardinality(Unpruned) = 0
      BY <3>1, FS_EmptySet
    <3>3. 0 <= ArtifactCap + 0
      BY ArtifactAssumption
    <3> QED BY <3>2, <3>3 DEF CapByStores
  <2> QED BY <2>2, <2>3, <2>4, <2>6, <2>7 DEF ArtifactInv
<1>2. ArtifactInv /\ [ArtifactNext]_artVars => ArtifactInv'
  <2> SUFFICES ASSUME ArtifactInv, [ArtifactNext]_artVars PROVE ArtifactInv'
    OBVIOUS
  <2>1. CASE UNCHANGED artVars
    BY <2>1, StutterKeeps
  <2>2. CASE Expire
    BY <2>2, ExpireKeeps
  <2>3. ASSUME NEW t \in Workers,
               \/ StartStore(t) \/ StartUse(t) \/ Publish(t)
               \/ EnterArtifacts(t) \/ EnterDirs(t) \/ EnterOrder(t)
        PROVE  ArtifactInv'
    BY <2>3, StartStoreKeeps, StartUseKeeps, PublishKeeps,
       EnterArtifactsKeeps, EnterDirsKeeps, EnterOrderKeeps
  <2>4. ASSUME NEW t \in Workers,
               \/ StartPrune(t) \/ PurgeOrder(t) \/ PurgeArtifacts(t) \/ EndPrune(t)
        PROVE  ArtifactInv'
    BY <2>4, StartPruneKeeps, PurgeOrderKeeps, PurgeArtifactsKeeps, EndPruneKeeps
  <2>5. ASSUME NEW t \in Workers,
               \/ List(t) \/ Load(t) \/ ReadDisk(t) \/ Pick(t) \/ Amend(t)
               \/ ClearMaps(t) \/ CleanUp(t)
        PROVE  ArtifactInv'
    BY <2>5, ListKeeps, LoadKeeps, ReadDiskKeeps, PickKeeps, AmendKeeps, ClearKeeps, CleanUpKeeps
  <2>6. ArtifactsAtRest => UNCHANGED artVars
    BY DEF ArtifactsAtRest
  <2> QED BY <2>1, <2>2, <2>3, <2>4, <2>5, <2>6 DEF ArtifactNext
<1> QED BY <1>1, <1>2, PTL DEF ArtifactSpec

(* Every variable of the store holds a value of its kind, in every process and thread. *)
THEOREM ArtifactTypeCorrect == ArtifactSpec => []ArtifactTypeOK
<1>1. ArtifactInv => ArtifactTypeOK
  BY DEF ArtifactInv
<1> QED BY <1>1, ArtifactInvHolds, PTL

(* An analysis handed out was on the disk at some time during the call, or its entry in
   the maps crossed its removal or a purge or clear of them (prune_locked, the three maps
   and their locks). *)
THEOREM HandedOutTruly == ArtifactSpec => []HandedOutWasThere
<1>1. ArtifactInv => HandedOutWasThere
  BY DEF ArtifactInv
<1> QED BY <1>1, ArtifactInvHolds, PTL

(* Between calls the directory holds at most the cap of what has not expired, and lost only
   what had expired or had a cap of newer ones (prune_locked in several processes). *)
THEOREM NewestKept == ArtifactSpec => []NewestAreKept
<1>1. ArtifactInv => NewestAreKept
  <2> SUFFICES ASSUME ArtifactInv, \A t \in Workers : ~Working(t)
               PROVE  /\ Cardinality(shelf \ Old(shelf)) <= ArtifactCap
                      /\ stored \ shelf \subseteq Old(stored) \cup Excess(stored)
    BY DEF NewestAreKept
  <2>1. Doomed = {} /\ Unpruned = {}
    BY DEF Working, Doomed, Unpruned, PurgeSteps, MapSteps
  <2>2. Fresh = shelf \ Old(shelf)
    <3>1. shelf \subseteq Nat
      BY SetsAreFinite DEF ArtifactInv, ArtifactTypeOK
    <3>2. expired \in Nat
      BY ArtifactAssumption DEF ArtifactInv, ArtifactTypeOK
    <3>3. \A a \in Nat : a > expired <=> ~(a <= expired)
      BY <3>2
    <3> QED BY <2>1, <3>1, <3>3, Zenon DEF Fresh, Old
  <2>3. Cardinality(Fresh) \in Nat /\ Cardinality(Unpruned) = 0
    BY <2>1, SetsAreFinite, FS_EmptySet DEF Fresh, ArtifactInv, ArtifactTypeOK
  <2>4. Cardinality(Fresh) <= ArtifactCap + 0
    BY <2>3 DEF ArtifactInv, CapByStores
  <2>5. Cardinality(Fresh) <= ArtifactCap
    BY <2>3, <2>4, ArtifactAssumption
  <2> QED BY <2>2, <2>5 DEF ArtifactInv, OutlivedOnly
<1> QED BY <1>1, ArtifactInvHolds, PTL
=============================================================================
