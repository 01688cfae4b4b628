---------------------------- MODULE ArtifactStore ----------------------------
(***************************************************************************)
(* Stored analyses (crates/codelens-mcp/src/artifact_store.rs): a          *)
(* directory that several server processes write, list, prune and read,    *)
(* and in each process three maps of what it has loaded, each with a lock  *)
(* of its own.  disk_io serialises the disk within a process only, and     *)
(* does not cover the maps of a thread that loads or stores.  An action is *)
(* one critical section.                                                   *)
(*                                                                         *)
(* An analysis is the rank of its creation (created_at_ms, then id); all   *)
(* have one tool, cache key and scope, so that any may be reused; sections *)
(* and summaries are left out.                                             *)
(***************************************************************************)
EXTENDS Naturals, FiniteSets

CONSTANTS
  Servers,          \* the processes
  Workers,          \* their request threads
  ServerOf,         \* the process of each
  Does,             \* bound: the calls each makes
  Free,             \* no thread
  ArtifactCap,      \* MAX_ANALYSIS_ARTIFACTS
  MaxStores,        \* bound: analyses stored
  MaxArtifactCalls  \* bound: calls of the store

ASSUME ArtifactAssumption ==
  /\ IsFiniteSet(Workers) /\ ServerOf \in [Workers -> Servers] /\ Free \notin Workers
  /\ Does \in [Workers -> SUBSET {"store", "get", "upsert", "lookup", "activate"}]
  /\ ArtifactCap \in Nat \ {0} /\ {MaxStores, MaxArtifactCalls} \subseteq Nat

VARIABLES
  shelf,        \* the analyses in the directory
  stored,       \* history: those ever published
  expired,      \* analyses up to this one are older than the time to live
  resident,     \* artifacts, artifact_dirs and order of each process
  diskIo,       \* who holds disk_io over several steps
  job,          \* the call each thread is in
  lastMade,     \* the last one created
  overlapped,   \* history: analyses a process was entering in its maps while they were
                \* removed from the disk or its maps were being purged, and those an
                \* upsert put back in one map when they had been taken from another
  unseen,       \* history: those it handed out that no moment of the call saw on the disk
  artCalls      \* calls made

artVars == <<shelf, stored, expired, resident, diskIo, job, lastMade, overlapped, unseen,
             artCalls>>

Artifacts == 1..MaxStores
Maps == {"artifacts", "dirs", "order"}
NoArtifact == 0

NoJob == [op |-> "none", at |-> "idle", target |-> NoArtifact, todo |-> {}, evict |-> {},
          purge |-> {}, seen |-> {}]

JobOps == {"none", "store", "get", "upsert", "lookup", "activate"}
JobSteps == {"idle", "publish", "artifacts", "dirs", "order", "prune", "purge order",
             "purge artifacts", "purge dirs", "list", "load", "read", "pick", "amend",
             "clear artifacts", "clear dirs", "clear order", "cleanup"}

Jobs == [op : JobOps, at : JobSteps, target : {NoArtifact} \cup Artifacts,
         todo : SUBSET Artifacts, evict : SUBSET Artifacts, purge : SUBSET Artifacts,
         seen : SUBSET Artifacts]

(* Every variable holds a value of its kind. *)
ArtifactTypeOK ==
  /\ shelf \subseteq Artifacts /\ stored \subseteq Artifacts
  /\ expired \in 0..MaxStores /\ lastMade \in 0..MaxStores
  /\ resident \in [Servers -> [Maps -> SUBSET Artifacts]]
  /\ diskIo \in [Servers -> Workers \cup {Free}]
  /\ unseen \in [Servers -> SUBSET Artifacts] /\ overlapped \in [Servers -> SUBSET Artifacts]
  /\ job \in [Workers -> Jobs]
  /\ artCalls \in 0..MaxArtifactCalls

ArtifactInit ==
  /\ shelf = {} /\ stored = {} /\ expired = 0 /\ lastMade = 0
  /\ resident = [s \in Servers |-> [m \in Maps |-> {}]]
  /\ diskIo = [s \in Servers |-> Free]
  /\ job = [t \in Workers |-> NoJob]
  /\ overlapped = [s \in Servers |-> {}] /\ unseen = [s \in Servers |-> {}]
  /\ artCalls = 0

(* A thread goes on at the step at; every other call in flight notes what the disk holds. *)
Working(u) == job[u].at # "idle"

Goes(t, new) ==
  job' = [u \in Workers |-> IF u = t THEN new
                            ELSE [job[u] EXCEPT !.seen = IF Working(u) THEN @ \cup shelf' ELSE @]]

At(t, at) == Goes(t, [job[t] EXCEPT !.at = at]) /\ UNCHANGED unseen

(* The call ends, with these analyses. *)
Returns(t, as) ==
  /\ Goes(t, NoJob)
  /\ unseen' = [unseen EXCEPT ![ServerOf[t]] = @ \cup (as \ (job[t].seen \cup shelf'))]

MapsOf(t) == resident[ServerOf[t]]
DiskFree(t) == diskIo[ServerOf[t]] = Free
DiskUnchanged == UNCHANGED <<shelf, stored, expired, lastMade, artCalls>>

(* Threads between the disk and the last of their maps. *)
Entering(u, a) == job[u].at \in {"artifacts", "dirs", "order"} /\ job[u].target = a

TakeOff(as) ==
  /\ shelf' = shelf \ as
  /\ overlapped' = [s \in Servers |-> overlapped[s] \cup
       {a \in as : \E u \in Workers : ServerOf[u] = s /\ Entering(u, a)}]

(***************************************************************************)
(* store_in_dir, up to its prune                                           *)
(***************************************************************************)
BeginCall(t, op, a) ==
  /\ ~Working(t) /\ artCalls < MaxArtifactCalls /\ op \in Does[t]
  /\ artCalls' = artCalls + 1
  /\ UNCHANGED <<shelf, stored, expired, resident, diskIo, overlapped>>
  /\ Goes(t, [NoJob EXCEPT !.op = op, !.target = a, !.seen = shelf,
                !.at = CASE op = "store" -> "publish"
                         [] op = "activate" -> "clear artifacts"
                         [] OTHER -> "prune"])
  /\ UNCHANGED unseen

StartStore(t) ==
  /\ lastMade < MaxStores
  /\ lastMade' = lastMade + 1
  /\ BeginCall(t, "store", lastMade + 1)

StartUse(t) ==
  /\ UNCHANGED lastMade
  /\ \/ \E a \in stored, op \in {"get", "upsert"} : BeginCall(t, op, a)
     \/ \E op \in {"lookup", "activate"} : BeginCall(t, op, NoArtifact)

(* The staged directory is renamed into place, or the write fails. *)
Publish(t) ==
  /\ job[t].at = "publish" /\ DiskFree(t)
  /\ \/ /\ shelf' = shelf \cup {job[t].target} /\ stored' = stored \cup {job[t].target}
        /\ At(t, "artifacts")
     \/ UNCHANGED <<shelf, stored>> /\ Returns(t, {})
  /\ UNCHANGED <<expired, resident, diskIo, lastMade, overlapped, artCalls>>

(***************************************************************************)
(* The three maps, one after the other                                     *)
(***************************************************************************)
Enter(t, map) ==
  /\ resident' = [resident EXCEPT ![ServerOf[t]][map] = @ \cup {job[t].target}]
  /\ DiskUnchanged /\ UNCHANGED diskIo

Purging(s) == \E u \in Workers : ServerOf[u] = s /\ job[u].at \in {"purge dirs", "clear dirs"}

EnterArtifacts(t) ==
  /\ job[t].at = "artifacts" /\ Enter(t, "artifacts") /\ At(t, "dirs")
  /\ overlapped' = [overlapped EXCEPT ![ServerOf[t]] =
       IF Purging(ServerOf[t]) THEN @ \cup {job[t].target} ELSE @]

EnterDirs(t) ==
  job[t].at = "dirs" /\ Enter(t, "dirs") /\ At(t, "order") /\ UNCHANGED overlapped

EnterOrder(t) ==
  /\ job[t].at = "order" /\ Enter(t, "order") /\ UNCHANGED overlapped
  /\ CASE job[t].op = "store" -> At(t, "prune")
       [] job[t].op = "lookup" -> At(t, "load")
       [] job[t].op = "get" -> Returns(t, {job[t].target})
       [] job[t].op = "upsert" -> At(t, "amend")

(***************************************************************************)
(* prune_in_dir, under disk_io                                             *)
(***************************************************************************)
Old(as) == {a \in as : a <= expired}

(* Of the others, all but the newest. *)
Excess(as) == {a \in as : Cardinality({b \in as : b > a}) >= ArtifactCap}

(* A slip: what has expired counts towards the cap. *)
EvictedCountingOld ==
  Old(shelf) \cup {a \in shelf \ Old(shelf) :
                    Cardinality({b \in shelf \ Old(shelf) : b < a}) + ArtifactCap < Cardinality(shelf)}

Evicted == Old(shelf) \cup Excess(shelf \ Old(shelf))

(* A slip: only what this prune evicts is purged. *)
ForgottenIfEvicted(t) == MapsOf(t)["dirs"] \cap Evicted

(* What is resident but gone from the disk, or about to go. *)
Forgotten(t) == MapsOf(t)["dirs"] \ (shelf \ Evicted)

StartPrune(t) ==
  /\ job[t].at = "prune" /\ DiskFree(t)
  /\ diskIo' = [diskIo EXCEPT ![ServerOf[t]] = t]
  /\ DiskUnchanged /\ UNCHANGED <<resident, overlapped>>
  /\ Goes(t, [job[t] EXCEPT !.at = "purge order", !.evict = Evicted, !.purge = Forgotten(t)])
  /\ UNCHANGED unseen

Purge(t, map) ==
  resident' = [resident EXCEPT ![ServerOf[t]][map] = @ \ job[t].purge]

PurgeOrder(t) ==
  /\ job[t].at = "purge order" /\ Purge(t, "order") /\ DiskUnchanged
  /\ UNCHANGED <<diskIo, overlapped>> /\ At(t, "purge artifacts")

PurgeArtifacts(t) ==
  /\ job[t].at = "purge artifacts" /\ Purge(t, "artifacts") /\ DiskUnchanged
  /\ UNCHANGED <<diskIo, overlapped>> /\ At(t, "purge dirs")

LoadOf(t, as) == Goes(t, [job[t] EXCEPT !.at = "load", !.todo = as]) /\ UNCHANGED unseen

(* The last map, and the directories of the evicted. *)
EndPrune(t) ==
  /\ job[t].at = "purge dirs" /\ Purge(t, "dirs")
  /\ TakeOff(job[t].evict)
  /\ diskIo' = [diskIo EXCEPT ![ServerOf[t]] = Free]
  /\ CASE job[t].op = "store" -> Returns(t, {})
       [] job[t].op = "lookup" -> At(t, "list")
       [] OTHER -> LoadOf(t, {job[t].target})
  /\ UNCHANGED <<stored, expired, lastMade, artCalls>>

(***************************************************************************)
(* get_in_dir, find_reusable_tiered_in_dir, list_summaries_in_dir          *)
(***************************************************************************)
List(t) ==
  /\ job[t].at = "list" /\ DiskFree(t) /\ DiskUnchanged
  /\ UNCHANGED <<resident, diskIo, overlapped>>
  /\ LoadOf(t, shelf)

Resident(t, a) == a \in MapsOf(t)["artifacts"] \cap MapsOf(t)["dirs"]

Load(t) ==
  /\ job[t].at = "load" /\ DiskUnchanged
  /\ UNCHANGED <<resident, diskIo, overlapped>>
  /\ \/ job[t].todo = {} /\ At(t, "pick")
     \/ \E a \in job[t].todo :
          LET next == [job[t] EXCEPT !.target = a, !.todo = @ \ {a}]
              step == IF ~Resident(t, a) THEN "read"
                      ELSE IF job[t].op = "upsert" THEN "amend" ELSE "load"
          IN IF job[t].op = "get" /\ Resident(t, a)
             THEN Returns(t, {a})
             ELSE Goes(t, [next EXCEPT !.at = step]) /\ UNCHANGED unseen

(* What expired meanwhile is removed from the disk instead. *)
Missed(t) == IF job[t].op = "lookup" THEN At(t, "load") ELSE Returns(t, {})

ReadDisk(t) ==
  /\ job[t].at = "read" /\ DiskFree(t)
  /\ LET a == job[t].target
     IN \/ a \in shelf /\ a > expired /\ UNCHANGED <<shelf, overlapped>> /\ At(t, "artifacts")
        \/ a \notin shelf /\ UNCHANGED <<shelf, overlapped>> /\ Missed(t)
        \/ a \in shelf /\ a <= expired /\ TakeOff({a}) /\ Missed(t)
  /\ UNCHANGED <<stored, expired, resident, diskIo, lastMade, artCalls>>

(* The artifacts in the order of their entry; directories and the disk are not asked. *)
Pick(t) ==
  /\ job[t].at = "pick" /\ DiskUnchanged
  /\ UNCHANGED <<resident, diskIo, overlapped>>
  /\ LET found == MapsOf(t)["order"] \cap MapsOf(t)["artifacts"]
     IN \/ found = {} /\ Returns(t, {})
        \/ \E a \in found : Returns(t, {a})

(* upsert_section rewrites the summary of what is still on the disk, under disk_io, and
   puts it in the first map, in which it may have been cleared meanwhile. *)
Amend(t) ==
  /\ job[t].at = "amend" /\ DiskFree(t) /\ DiskUnchanged /\ UNCHANGED diskIo
  /\ IF job[t].target \in shelf
     THEN /\ resident' = [resident EXCEPT ![ServerOf[t]]["artifacts"] = @ \cup {job[t].target}]
          /\ overlapped' = [overlapped EXCEPT ![ServerOf[t]] =
               IF Purging(ServerOf[t]) \/ job[t].target \notin MapsOf(t)["dirs"]
               THEN @ \cup {job[t].target} ELSE @]
          /\ Returns(t, {job[t].target})
     ELSE UNCHANGED <<resident, overlapped>> /\ Returns(t, {})

(***************************************************************************)
(* activate_project_context: clear, then cleanup_stale_dirs                *)
(***************************************************************************)
Clear(t, from, map, to) ==
  /\ job[t].at = from
  /\ resident' = [resident EXCEPT ![ServerOf[t]][map] = {}]
  /\ DiskUnchanged /\ UNCHANGED <<diskIo, overlapped>>
  /\ At(t, to)

ClearMaps(t) ==
  \/ Clear(t, "clear artifacts", "artifacts", "clear dirs")
  \/ Clear(t, "clear dirs", "dirs", "clear order")
  \/ Clear(t, "clear order", "order", "cleanup")

CleanUp(t) ==
  /\ job[t].at = "cleanup" /\ DiskFree(t)
  /\ TakeOff(Old(shelf))
  /\ UNCHANGED <<stored, expired, resident, diskIo, lastMade, artCalls>>
  /\ Returns(t, {})

Expire ==
  /\ expired < lastMade /\ artCalls < MaxArtifactCalls
  /\ expired' = expired + 1
  /\ UNCHANGED <<shelf, stored, resident, diskIo, job, lastMade, overlapped, unseen,
                 artCalls>>

ArtifactsAtRest ==
  /\ \A t \in Workers : ~Working(t)
  /\ artCalls = MaxArtifactCalls
  /\ UNCHANGED artVars

ArtifactNext ==
  \/ \E t \in Workers :
       \/ StartStore(t) \/ StartUse(t) \/ Publish(t)
       \/ EnterArtifacts(t) \/ EnterDirs(t) \/ EnterOrder(t)
       \/ StartPrune(t) \/ PurgeOrder(t) \/ PurgeArtifacts(t) \/ EndPrune(t)
       \/ List(t) \/ Load(t) \/ ReadDisk(t) \/ Pick(t) \/ Amend(t)
       \/ ClearMaps(t) \/ CleanUp(t)
  \/ Expire \/ ArtifactsAtRest

ArtifactSpec == ArtifactInit /\ [][ArtifactNext]_artVars

(***************************************************************************)
(* Properties                                                              *)
(***************************************************************************)
(* An analysis handed out was on the disk at some time during the call, whichever process
   stored and whichever evicted it (prune_locked purges what vanished; Pick looks at the
   maps alone).  Excepted are those whose entry in the maps crossed their removal, or a
   purge or clear of the maps, and those an upsert put back in one map after such a clear,
   which the three separate locks allow. *)
HandedOutWasThere ==
  \A s \in Servers : unseen[s] \subseteq overlapped[s]

(* Between calls the directory holds no more than the cap of what has not expired, and
   lost only what had expired or had a cap of newer ones, however the prunes of several
   processes met (prune_locked). *)
NewestAreKept ==
  (\A t \in Workers : ~Working(t)) =>
    /\ Cardinality(shelf \ Old(shelf)) <= ArtifactCap
    /\ stored \ shelf \subseteq Old(stored) \cup Excess(stored)
=============================================================================
