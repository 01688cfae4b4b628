-------------------------- MODULE ProjectRuntimes --------------------------
(***************************************************************************)
(* The project runtimes of one server process                              *)
(* (crates/codelens-mcp/src/state/project_runtime.rs, project_accessors.rs *)
(* and project_runtime_lease.rs): each is built on a thread of its own     *)
(* while requests wait for it on a ticket, holds the writer lease of its   *)
(* project, is cached, lent to requests as a counted reference, evicted,   *)
(* swept when idle and reaped when its directory is gone.  Other processes *)
(* are "rivals": they take and give back leases.  An action is one         *)
(* critical section of the cache's mutex, or one step outside it.          *)
(***************************************************************************)
EXTENDS Integers, Sequences, FiniteSets, SequencesExt, Sublists

CONSTANTS
  Scopes,         \* project directories other than the server's default one
  Requests,       \* request threads and job workers
  Sessions,       \* the requests made by HTTP sessions, one session each
  Switchers,      \* the other requests that may switch the server's project
  JobWorkers,     \* job workers: their AppState has no session store
  Sweepers,       \* the idle sweeper of an analysis-lite stdio server
  Slots,          \* bound: the builds and runtimes of one scope that coexist
  None,
  CacheLimit,     \* PROJECT_CONTEXT_CACHE_LIMIT
  ReaderFallback, \* analysis_lite_reader_fallback
  Contested,      \* bound: the scopes whose lease rivals ever take
  MayVanish,      \* bound: may a build thread not start, or panic?
  MaxDeletes      \* bound: directories deleted

ASSUME RuntimesAssumption ==
  /\ Sessions \subseteq Requests /\ Switchers \subseteq Requests \ Sessions
  /\ JobWorkers \subseteq Requests \ (Sessions \cup Switchers)
  /\ Requests \cap Sweepers = {}
  /\ Contested \subseteq Scopes
  /\ Slots \subseteq Nat /\ IsFiniteSet(Slots)
  /\ None \notin Scopes \cup (Scopes \X Slots)
  /\ CacheLimit \in Nat /\ MaxDeletes \in Nat
  /\ {ReaderFallback, MayVanish} \subseteq BOOLEAN

VARIABLES
  builds,   \* each build with the runtime it made
  inFlight, \* ProjectContextCache.in_flight: the ticket of each scope
  entries,  \* ProjectContextCache.entries: the runtime of each scope
  recency,  \* ProjectContextCache.access_order
  quiet,    \* the cached scopes last_used long ago: before the last sweep
  active,   \* project_override
  pins,     \* the project each session is bound to
  served,   \* history: the runtime of a session's last request since it bound
  thread,   \* what each thread is doing
  rivals,   \* the scopes whose lease another process holds
  exists,   \* the directories on disk
  deletes

cacheVars == <<inFlight, entries, recency, quiet>>
sessionVars == <<pins, served>>
worldVars == <<rivals, exists, deletes>>
vars == <<builds, cacheVars, active, sessionVars, thread, worldVars>>

Threads == Requests \cup Sweepers

(* A build, its ticket and the runtime it makes have one id. *)
Builds == Scopes \X Slots

ScopeOf(b) == b[1]

Finished == {"ready", "failed", "taken", "told"}

Build ==
  [stage : {"unused", "spawned", "building", "lost"} \cup Finished,
   role : {"none", "writer", "reader"}, \* a writer holds the lease
   refused : BOOLEAN,                   \* refused the lease by a rival
   stopped : BOOLEAN,                   \* shutdown_resources was called
   reaped : BOOLEAN]                    \* its directory was found deleted

Blank == [stage |-> "unused", role |-> "none",
          refused |-> FALSE, stopped |-> FALSE, reaped |-> FALSE]

Task ==
  [pc : {"idle", "collect", "take", "install", "retire", "lookup",
         "wait", "await", "use", "sweep"},
   scope : Scopes \cup {None},   \* the project asked for
   ticket : Builds \cup {None},  \* the build waited for
   ctx : Builds \cup {None},     \* the runtime held
   todo : SUBSET Builds,         \* finished tickets still to install
   junk : SUBSET Builds]         \* runtimes still to shut down

Idle == [pc |-> "idle", scope |-> None, ticket |-> None, ctx |-> None,
         todo |-> {}, junk |-> {}]

Cached == {s \in Scopes : entries[s] # None}

TypeOK ==
  /\ builds \in [Builds -> Build]
  /\ inFlight \in [Scopes -> Builds \cup {None}]
  /\ entries \in [Scopes -> Builds \cup {None}]
  /\ recency \in Seq(Scopes) /\ IsInjective(recency) /\ Range(recency) = Cached
  /\ quiet \subseteq Cached
  /\ active \in Builds \cup {None}
  /\ pins \in [Sessions -> Scopes \cup {None}]
  /\ served \in [Sessions -> Builds \cup {None}]
  /\ thread \in [Threads -> Task]
  /\ rivals \cup exists \subseteq Scopes
  /\ deletes \in 0..MaxDeletes
-----------------------------------------------------------------------------
(* References. *)
TicketHeld(b) ==
  \/ \E s \in Scopes : inFlight[s] = b
  \/ \E t \in Threads : thread[t].ticket = b \/ b \in thread[t].todo

(* Arc::strong_count above the cache's own reference *)
Lent(b) == b = active \/ \E t \in Threads : thread[t].ctx = b

ContextHeld(b) ==
  \/ Lent(b)
  \/ \E s \in Scopes : entries[s] = b
  \/ \E t \in Threads : b \in thread[t].junk

(* The builds bs after a step: a runtime nobody refers to any more is dropped,
   and its lease with it. *)
Kept(bs) ==
  [b \in Builds |->
     IF bs[b].stage \in {"spawned", "building"} \/ ContextHeld(b)' THEN bs[b]
     ELSE IF ~TicketHeld(b)' THEN Blank
     ELSE IF bs[b].stage = "taken" THEN [bs[b] EXCEPT !.role = "none"]
     ELSE bs[b]]

Writing(s) == \E b \in Builds : ScopeOf(b) = s /\ builds[b].role = "writer"

(* The threads that see the sessions' bindings: clone_for_worker leaves the
   session store out. *)
SeesSessions(t) == Sessions # {} /\ t \notin JobWorkers

(* active_project_paths_guard: held by those threads from the choice of the
   runtimes to evict until they are shut down; no session binds meanwhile. *)
GuardFree == \A t \in Threads : SeesSessions(t) => thread[t].pc # "retire"

ProtectedWithoutPins(t, s) ==                                      \* mutant
  {s} \cup {ScopeOf(b) : b \in {active} \ {None}}

(* The scopes an eviction by t for the sake of s, or a sweep, leaves alone. *)
Protected(t, s) ==
  {s} \cup (IF t \in JobWorkers THEN {} ELSE {ScopeOf(b) : b \in {active} \ {None}})
      \cup (IF SeesSessions(t) THEN {pins[x] : x \in Sessions} ELSE {})

Touched(order, s) == Append(Dropping(order, {s}), s)

ForgetEntryOnly(gone) == recency                                   \* mutant

(* forget *)
Forget(gone) == Dropping(recency, gone)

EvictableIfUnprotected(t, x, s) == x \notin Protected(t, s)        \* mutant

Evictable(t, x, s) == x \notin Protected(t, s) /\ ~Lent(entries[x])

(* evict_until_within_limit: the least recently used ones it may take ... *)
Victims(t, order, s) ==
  LET may == {i \in DOMAIN order : Evictable(t, order[i], s)}
  IN {order[i] : i \in {k \in may : Cardinality({j \in may : j <= k}) <= Len(order) - CacheLimit}}

(* ... having moved those it passed over to the back. *)
Rotated(order, gone) ==
  LET last == CHOOSE i \in 0..Len(order) :
                /\ \A k \in DOMAIN order : order[k] \in gone => k <= i
                /\ i > 0 => order[i] \in gone
  IN SubSeq(order, last + 1, Len(order))
       \o Dropping(SubSeq(order, 1, last), gone)

Without(f, gone) == [s \in Scopes |-> IF s \in gone THEN None ELSE f[s]]

Becomes(t, k) == thread' = [thread EXCEPT ![t] = k]

(* Through with install_finished_builds: a request looks its project up, the
   sweeper sweeps. *)
Collected(t, k) == [k EXCEPT !.pc = IF t \in Sweepers THEN "sweep" ELSE "lookup"]

(* Through with one build: the next one, unless it was the request's own. *)
Installed(t, k) ==
  IF k.junk # {} THEN [k EXCEPT !.pc = "retire"]
  ELSE IF k.ticket # None THEN [k EXCEPT !.pc = "use", !.ticket = None]
  ELSE IF k.todo # {} THEN [k EXCEPT !.pc = "take", !.ctx = None]
  ELSE Collected(t, [k EXCEPT !.ctx = None])

Uses(k, b) == [k EXCEPT !.pc = "use", !.ctx = b, !.ticket = None]
-----------------------------------------------------------------------------
Init ==
  /\ builds = [b \in Builds |-> Blank]
  /\ inFlight = [s \in Scopes |-> None]
  /\ entries = [s \in Scopes |-> None]
  /\ recency = <<>>
  /\ quiet = {}
  /\ active = None
  /\ pins = [t \in Sessions |-> None]
  /\ served = [t \in Sessions |-> None]
  /\ thread = [t \in Threads |-> Idle]
  /\ rivals = {}
  /\ exists = Scopes
  /\ deletes = 0

(* A request names its project.  A session is bound to it first; then the
   runtimes of deleted directories are forgotten.  switch_project stops there
   when the project is the active one already. *)
Ask(t, s) ==
  LET dead == {x \in Cached : x \notin exists}
      gone == {entries[x] : x \in dead}
      stays(x) == served[x] \notin gone /\ (x = t => pins[x] = s)
  IN
  /\ thread[t].pc = "idle"
  /\ s \in exists
  /\ t \in Sessions => GuardFree
  /\ \/ Becomes(t, [Idle EXCEPT !.pc = "collect", !.scope = s])
     \/ /\ t \in Switchers /\ active # None /\ ScopeOf(active) = s
        /\ UNCHANGED thread
  /\ pins' = [x \in Sessions |-> IF x = t THEN s ELSE pins[x]]
  /\ served' = [x \in Sessions |-> IF stays(x) THEN served[x] ELSE None]
  /\ entries' = Without(entries, dead)
  /\ recency' = Forget(dead)
  /\ quiet' = quiet \ dead
  /\ UNCHANGED <<inFlight, active, worldVars>>
  /\ builds' = Kept([b \in Builds |-> [builds[b] EXCEPT !.reaped = @ \/ b \in gone]])

SweepAtOnce(t) == Becomes(t, [Idle EXCEPT !.pc = "sweep"])         \* mutant

(* release_idle_project_runtimes installs the abandoned builds first. *)
SweepBegins(t) == Becomes(t, [Idle EXCEPT !.pc = "collect"])

StartSweep(t) ==
  /\ thread[t].pc = "idle"
  /\ SweepBegins(t)
  /\ UNCHANGED <<builds, cacheVars, active, sessionVars, worldVars>>

(* install_finished_builds takes the finished tickets out of the cache ... *)
Collect(t) ==
  LET k == thread[t]
      done == {s \in Scopes : inFlight[s] # None /\ builds[inFlight[s]].stage \in Finished}
      tickets == {inFlight[s] : s \in done}
  IN
  /\ k.pc = "collect"
  /\ inFlight' = Without(inFlight, done)
  /\ Becomes(t, IF tickets = {} THEN Collected(t, k)
                ELSE [k EXCEPT !.pc = "take", !.todo = tickets])
  /\ UNCHANGED <<builds, entries, recency, quiet, active, sessionVars, worldVars>>

(* ... and then the outcome out of each ticket, unless somebody else has. *)
Take(t) ==
  LET k == thread[t] IN
  /\ k.pc = "take"
  /\ \E b \in k.todo :
       LET rest == [k EXCEPT !.todo = @ \ {b}] IN
       /\ Becomes(t, IF builds[b].stage = "ready"
                       THEN [rest EXCEPT !.pc = "install", !.ctx = b]
                       ELSE Installed(t, rest))
       /\ UNCHANGED <<cacheVars, active, sessionVars, worldVars>>
       /\ builds' = Kept([builds EXCEPT ![b].stage =
            CASE @ = "ready" -> "taken" [] @ = "failed" -> "told" [] OTHER -> @])

NothingCached(s) == None                                           \* mutant

AlreadyCached(s) == entries[s]

(* install_built_context: the runtime somebody else cached meanwhile wins, and
   the new one is shut down; else the new one is cached and makes room. *)
Install(t) ==
  LET k == thread[t]
      s == ScopeOf(k.ctx)
      order == Touched(recency, s)
      gone == Victims(t, order, s)
  IN
  /\ k.pc = "install"
  /\ SeesSessions(t) => GuardFree
  /\ \/ /\ AlreadyCached(s) # None
        /\ recency' = order /\ quiet' = quiet \ {s}
        /\ Becomes(t, Installed(t, [k EXCEPT !.ctx = entries[s], !.junk = {k.ctx}]))
        /\ UNCHANGED entries
     \/ /\ AlreadyCached(s) = None
        /\ entries' = Without([entries EXCEPT ![s] = k.ctx], gone)
        /\ recency' = Rotated(order, gone)
        /\ quiet' = quiet \ (gone \cup {s})
        /\ Becomes(t, Installed(t, [k EXCEPT !.junk = {entries[x] : x \in gone}]))
  /\ UNCHANGED <<inFlight, active, sessionVars, worldVars>>
  /\ builds' = Kept(builds)

(* shutdown_resources and drop, outside the cache's mutex. *)
Retire(t) ==
  LET k == thread[t] IN
  /\ k.pc = "retire"
  /\ \E b \in k.junk :
       /\ Becomes(t, Installed(t, [k EXCEPT !.junk = @ \ {b}]))
       /\ UNCHANGED <<cacheVars, active, sessionVars, worldVars>>
       /\ builds' = Kept([builds EXCEPT ![b].stopped = TRUE])

(* resolve_cached_project_context, first half: the cached runtime ... *)
Found(t) ==
  LET k == thread[t] IN
  /\ k.pc \in {"lookup", "await"}
  /\ k.scope \in Cached
  /\ recency' = Touched(recency, k.scope) /\ quiet' = quiet \ {k.scope}
  /\ Becomes(t, Uses(k, entries[k.scope]))
  /\ UNCHANGED <<inFlight, entries, active, sessionVars, worldVars>>
  /\ builds' = Kept(builds)

(* ... or the build already running ... *)
Join(t) ==
  LET k == thread[t] IN
  /\ k.pc = "lookup"
  /\ k.scope \notin Cached /\ inFlight[k.scope] # None
  /\ Becomes(t, [k EXCEPT !.pc = "wait", !.ticket = inFlight[k.scope]])
  /\ UNCHANGED <<builds, cacheVars, active, sessionVars, worldVars>>

(* ... or a new one.  When the thread cannot be spawned the request fails, and
   its ticket stays. *)
Spawn(t) ==
  LET k == thread[t]
      unused == {i \in Slots : builds[<<k.scope, i>>] = Blank}
      b == <<k.scope, CHOOSE i \in unused : \A j \in unused : i <= j>>
  IN
  /\ k.pc = "lookup"
  /\ k.scope \notin Cached /\ inFlight[k.scope] = None
  /\ unused # {}
  /\ inFlight' = [inFlight EXCEPT ![k.scope] = b]
  /\ \E stage \in {"spawned"} \cup (IF MayVanish THEN {"lost"} ELSE {}) :
       /\ builds' = [builds EXCEPT ![b] = [Blank EXCEPT !.stage = stage]]
       /\ Becomes(t, IF stage = "lost" THEN Idle ELSE [k EXCEPT !.pc = "wait", !.ticket = b])
  /\ UNCHANGED <<entries, recency, quiet, active, sessionVars, worldVars>>

(* The second half, once the build is finished: the cached runtime, or the
   outcome of the ticket for exactly one of those who waited. *)
Claim(t) ==
  LET k == thread[t]  s == k.scope  b == k.ticket IN
  /\ k.pc = "wait"
  /\ builds[b].stage \in Finished
  /\ IF s \in Cached
       THEN /\ recency' = Touched(recency, s) /\ quiet' = quiet \ {s}
            /\ Becomes(t, Uses(k, entries[s]))
            /\ UNCHANGED inFlight
       ELSE /\ inFlight' = [inFlight EXCEPT ![s] = IF @ = b THEN None ELSE @]
            /\ Becomes(t, CASE builds[b].stage = "ready" -> [k EXCEPT !.pc = "install", !.ctx = b]
                            [] builds[b].stage = "failed" -> Idle
                            [] OTHER -> [k EXCEPT !.pc = "await"])
            /\ UNCHANGED <<recency, quiet>>
  /\ UNCHANGED <<entries, active, sessionVars, worldVars>>
  /\ builds' = Kept([builds EXCEPT ![b].stage =
       IF s \in Cached THEN @
       ELSE CASE @ = "ready" -> "taken" [] @ = "failed" -> "told" [] OTHER -> @])

(* The bind budget is over, or somebody else was told why the build failed. *)
GiveUp(t) ==
  LET k == thread[t] IN
  /\ \/ k.pc = "wait" /\ builds[k.ticket].stage \notin Finished
     \/ k.pc = "await" /\ k.scope \notin Cached
  /\ Becomes(t, Idle)
  /\ UNCHANGED <<cacheVars, active, sessionVars, worldVars>>
  /\ builds' = Kept(builds)

(* The request is answered. *)
End(t) ==
  LET k == thread[t] IN
  /\ k.pc = "use"
  /\ Becomes(t, Idle)
  /\ served' = IF t \in Sessions THEN [served EXCEPT ![t] = IF builds[k.ctx].reaped THEN None ELSE k.ctx] ELSE served
  /\ UNCHANGED <<cacheVars, active, pins, worldVars>>
  /\ builds' = Kept(builds)

(* switch_project makes the runtime the one requests without a project use. *)
Activate(t) ==
  /\ thread[t].pc = "use"
  /\ active' = thread[t].ctx
  /\ Becomes(t, Idle)
  /\ UNCHANGED <<cacheVars, sessionVars, worldVars>>
  /\ builds' = Kept(builds)

(* The same for the default project. *)
Deactivate(t) ==
  /\ thread[t].pc = "idle"
  /\ active # None
  /\ active' = None
  /\ UNCHANGED <<cacheVars, sessionVars, thread, worldVars>>
  /\ builds' = Kept(builds)

UseActive(t) ==
  /\ thread[t].pc = "idle"
  /\ active # None
  /\ Becomes(t, Uses([Idle EXCEPT !.scope = ScopeOf(active)], active))
  /\ UNCHANGED <<builds, cacheVars, active, sessionVars, worldVars>>

(* release_idle_project_runtimes, second half: under the cache's mutex from the
   choice to the drop.  A runtime still lent is used now. *)
Sweep(t) ==
  LET idle == {s \in quiet : Evictable(t, s, None)} IN
  /\ thread[t].pc = "sweep"
  /\ SeesSessions(t) => GuardFree
  /\ entries' = Without(entries, idle)
  /\ recency' = Forget(idle)
  /\ quiet' = {s \in Cached \ idle : ~Lent(entries[s])}
  /\ Becomes(t, Idle)
  /\ UNCHANGED <<inFlight, active, sessionVars, worldVars>>
  /\ builds' = Kept(builds)
-----------------------------------------------------------------------------
(* build_project_runtime_context on its thread: the lease first.  Only an
   analysis-lite server goes on without it, as a reader. *)
Acquire(b) ==
  LET s == ScopeOf(b)  busy == s \in rivals \/ Writing(s) IN
  /\ builds[b].stage = "spawned"
  /\ builds' = [builds EXCEPT
       ![b].stage = IF busy /\ ~ReaderFallback THEN "failed" ELSE "building",
       ![b].role = IF ~busy THEN "writer" ELSE IF ReaderFallback THEN "reader" ELSE "none",
       ![b].refused = s \in rivals]
  /\ UNCHANGED <<cacheVars, active, sessionVars, thread, worldVars>>

(* The build succeeds, fails or panics; the last two release the lease, and a
   panic completes no ticket. *)
BuildEnds(b) ==
  /\ builds[b].stage = "building"
  /\ UNCHANGED <<cacheVars, active, sessionVars, thread, worldVars>>
  /\ \/ builds' = Kept([builds EXCEPT ![b].stage = "ready"])
     \/ \E stage \in {"failed"} \cup (IF MayVanish THEN {"lost"} ELSE {}) :
          builds' = Kept([builds EXCEPT ![b].stage = stage, ![b].role = "none"])

RivalTakes(s) ==
  /\ s \notin rivals /\ ~Writing(s)
  /\ rivals' = rivals \cup {s}
  /\ UNCHANGED <<builds, cacheVars, active, sessionVars, thread, exists, deletes>>

RivalLeaves(s) ==
  /\ s \in rivals
  /\ rivals' = rivals \ {s}
  /\ UNCHANGED <<builds, cacheVars, active, sessionVars, thread, exists, deletes>>

DeleteRoot(s) ==
  /\ s \in exists /\ deletes < MaxDeletes
  /\ exists' = exists \ {s} /\ deletes' = deletes + 1
  /\ UNCHANGED <<builds, cacheVars, active, sessionVars, thread, rivals>>

CreateRoot(s) ==
  /\ s \notin exists
  /\ exists' = exists \cup {s}
  /\ UNCHANGED <<builds, cacheVars, active, sessionVars, thread, rivals, deletes>>

(* What a thread does of its own accord once it has begun. *)
Step(t) ==
  \/ Collect(t) \/ Take(t) \/ Install(t) \/ Retire(t) \/ Found(t)
  \/ Join(t) \/ Spawn(t) \/ Claim(t) \/ GiveUp(t) \/ End(t) \/ Sweep(t)

BuildStep(b) == Acquire(b) \/ BuildEnds(b)

Next ==
  \/ \E t \in Requests, s \in Scopes : Ask(t, s)
  \/ \E t \in Switchers : Activate(t) \/ Deactivate(t) \/ UseActive(t)
  \/ \E t \in Sweepers : StartSweep(t)
  \/ \E t \in Threads : Step(t)
  \/ \E b \in Builds : BuildStep(b)
  \/ \E s \in Contested : RivalTakes(s) \/ RivalLeaves(s)
  \/ \E s \in Scopes : DeleteRoot(s) \/ CreateRoot(s)

(* Threads and builds go on, and the sweeper wakes up again and again.  Nobody
   has to ask, and rivals and directories come and go as they like. *)
Fairness ==
  /\ \A t \in Threads : WF_vars(Step(t))
  /\ \A t \in Sweepers : WF_vars(StartSweep(t))
  /\ \A b \in Builds : WF_vars(BuildStep(b))

Spec == Init /\ [][Next]_vars /\ Fairness
-----------------------------------------------------------------------------
(* A runtime is shut down only when nobody can use it any more: not while a
   request holds it, nor as the active one, nor while the cache would lend it. *)
InUse(b) == b = active \/ \E t \in Threads : thread[t].pc = "use" /\ thread[t].ctx = b

NoUseAfterShutdown ==
  \A b \in Builds : InUse(b) \/ (\E s \in Scopes : entries[s] = b) => ~builds[b].stopped

(* All requests of a process that work on one project share one runtime, and
   with it one index, one cache and one lease: the runtime in use is the cached
   one, whoever built it and however many builds raced, as long as its
   directory was not deleted under it. *)
InUseIsCached ==
  \A b \in Builds : InUse(b) => builds[b].reaped \/ entries[ScopeOf(b)] = b

(* A session finds the runtime of its last request again at the next one:
   evictions for the sake of other projects pass it over between requests too. *)
SessionKeepsItsRuntime ==
  \A t \in Sessions : served[t] # None => entries[pins[t]] = served[t]

(* In an analysis-lite server a writer lease does not outlive its use: every
   runtime nobody uses is released in the end, also one whose build finished
   after its callers gave up. *)
LeasesAreReleased ==
  \A b \in Builds : []<>(builds[b].role # "writer" \/ InUse(b))

(* What the code says of a reader: "Another process holds the lease." *)
ReaderOnlyBesideOtherProcess ==
  \A s \in Cached : builds[entries[s]].role = "reader" => builds[entries[s]].refused
=============================================================================
