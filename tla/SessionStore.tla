---------------------------- MODULE SessionStore ----------------------------
(***************************************************************************)
(* HTTP sessions (crates/codelens-mcp/src/server/session.rs,               *)
(* session_journal.rs, project_binding.rs, transport_http.rs): which       *)
(* project a request runs in.  A session's binding comes from the daemon's *)
(* default, a header, initialize or a tool, in rising order of rank; it is *)
(* kept in memory and, when the caller chose it, in a journal on the disk, *)
(* from which a session that was evicted, idled out or was lost with the   *)
(* daemon comes back under its id.  Each action is one critical section or *)
(* one file operation of a request.                                        *)
(***************************************************************************)
EXTENDS Naturals, FiniteSets

CONSTANTS
  Requests,       \* the requests a run makes, DELETEs and initializes included
  SessionIds,     \* the ids the server mints
  Projects,       \* project directories
  DefaultProject, \* the one the daemon serves by itself
  NoProject,      \* no binding, no header
  MaxLosses       \* bound: sessions evicted or idled out, restarts, journal
                  \* writes that fail, entries and tombstones that go

ASSUME SessionAssumption ==
  /\ IsFiniteSet(Requests) /\ DefaultProject \in Projects /\ NoProject \notin Projects
  /\ SessionIds # {} /\ MaxLosses \in Nat

VARIABLES
  live,           \* the sessions of the map, NoSession for an id without one
  tombs,          \* ids of the tombstone list that are neither old nor crowded out
  journal,        \* the journal's entries
  req,            \* the requests
  losses,
  chosen,         \* history: the last binding a tool's answer confirmed
  disturbed,      \* history: sessions whose journal may be behind: a write of it
                  \* failed, two were under way at once, or the session came back
                  \* before the one that was under way
  overtaken       \* history: ids that had a session again, or a request past the
                  \* tombstone check, when their tombstone was set

history == <<chosen, disturbed, overtaken>>
sessionVars == <<live, tombs, journal, req, losses, history>>

Default == 0
Header == 1
Initialized == 2
Explicit == 3
Ranks == Default..Explicit

Bindings == [path : Projects \cup {NoProject}, rank : Ranks]
Unbound == [path |-> NoProject, rank |-> Default]
NoSession == [path |-> NoProject, rank |-> Explicit]

Steps == {"unsent", "gate", "resurrect", "snapshot", "running", "metadata", "journal", "record",
          "seed", "forget", "mark", "done", "refused"}

Idle == [at |-> "unsent", id |-> CHOOSE i \in SessionIds : TRUE, header |-> NoProject,
         saw |-> Unbound, entry |-> Unbound]

Calls == [at : Steps, id : SessionIds, header : Projects \cup {NoProject},
          saw : Bindings, entry : Bindings]

(* Every variable holds a value of its kind. *)
SessionTypeOK ==
  /\ live \in [SessionIds -> Bindings] /\ journal \in [SessionIds -> Bindings]
  /\ tombs \subseteq SessionIds /\ disturbed \cup overtaken \subseteq SessionIds
  /\ req \in [Requests -> Calls]
  /\ chosen \in [SessionIds -> Projects \cup {NoProject}]
  /\ losses \in 0..MaxLosses

(* A client may hold the id of a session this daemon has forgotten. *)
SessionInit ==
  /\ live = [i \in SessionIds |-> NoSession]
  /\ tombs = {}
  /\ journal = [i \in SessionIds |-> Unbound]
  /\ req = [r \in Requests |-> Idle]
  /\ losses = 0
  /\ chosen = [i \in SessionIds |-> NoProject] /\ disturbed = {} /\ overtaken = {}
-----------------------------------------------------------------------------
IsLive(i) == live[i] # NoSession

Step(r, at) == req' = [req EXCEPT ![r].at = at]

Finished(r, at) == req' = [req EXCEPT ![r] = [Idle EXCEPT !.at = at, !.id = req[r].id]]

CanReplaceStrictly(rank, current) == rank > current                \* mutant

(* ProjectBindingSource::can_replace *)
CanReplace(rank, current) == rank >= current

(* apply_project_binding; a header or an entry that names no project does
   nothing *)
Bind(binding, path, rank) ==
  IF path # NoProject /\ CanReplace(rank, binding.rank)
  THEN [path |-> path, rank |-> rank] ELSE binding

(* JournalEntry::from_metadata: only what the caller chose *)
Chosen(binding) == IF binding.rank >= Initialized THEN binding ELSE Unbound
-----------------------------------------------------------------------------
Writing(i) == {r \in Requests : req[r].id = i /\ req[r].at \in {"journal", "record"}}

Crowded(i) == IF Writing(i) # {} THEN {i} ELSE {}

(* ProjectBindingSource::from_initialize *)
FromInitialize(path, header) ==
  CASE path # NoProject -> [path |-> path, rank |-> Initialized]
    [] path = NoProject /\ header # NoProject -> [path |-> header, rank |-> Header]
    [] OTHER -> Unbound

(* initialize: a new session under a new id, or the one the client names *)
Initialize(r, i, path, header) ==
  /\ req[r].at = "unsent"
  /\ IsLive(i) \/ \A q \in Requests : req[q].at = "unsent" \/ req[q].id # i
  /\ live' = IF IsLive(i) THEN live ELSE [live EXCEPT ![i] = Unbound]
  /\ req' = [req EXCEPT ![r] = [Idle EXCEPT !.at = "metadata", !.id = i,
                                            !.entry = FromInitialize(path, header)]]
  /\ UNCHANGED <<tombs, journal, losses, history>>

(* set_client_metadata: the project of initialize replaces a binding that does
   not outrank it; the snapshot is what will be journaled *)
SetMetadata(r) ==
  LET i == req[r].id
      bound == Bind(live[i], req[r].entry.path, req[r].entry.rank)
  IN  /\ req[r].at = "metadata"
      /\ IF IsLive(i)
         THEN /\ live' = [live EXCEPT ![i] = bound]
              /\ req' = [req EXCEPT ![r].at = "journal", ![r].entry = bound]
         ELSE Finished(r, "seed") /\ UNCHANGED live
      /\ disturbed' = disturbed \cup Crowded(i)
      /\ UNCHANGED <<tombs, journal, losses, chosen, overtaken>>

(* seed_default_project_path, the end of initialize *)
SeedDefault(r) ==
  LET i == req[r].id
  IN  /\ req[r].at = "seed"
      /\ live' = IF IsLive(i) /\ live[i].path = NoProject
                 THEN [live EXCEPT ![i].path = DefaultProject] ELSE live
      /\ Finished(r, "done")
      /\ UNCHANGED <<tombs, journal, losses, history>>
-----------------------------------------------------------------------------
(* mcp_post_handler: a request of a session that is in the map goes on, whether
   or not the id has a tombstone *)
Send(r, i, header) ==
  /\ req[r].at = "unsent"
  /\ req' = [req EXCEPT ![r] = [Idle EXCEPT !.at = IF IsLive(i) THEN "snapshot" ELSE "gate",
                                            !.id = i, !.header = header]]
  /\ UNCHANGED <<live, tombs, journal, losses, history>>

IgnoreTombstone(r) ==                                              \* mutant
  /\ req[r].at = "gate"
  /\ Step(r, "resurrect")
  /\ UNCHANGED <<live, tombs, journal, losses, history>>

(* get_or_resurrect, before its lock: an id that was DELETEd is refused *)
CheckTombstone(r) ==
  /\ req[r].at = "gate"
  /\ IF req[r].id \in tombs THEN Finished(r, "refused") ELSE Step(r, "resurrect")
  /\ UNCHANGED <<live, tombs, journal, losses, history>>

ResurrectUnbound(r) ==                                             \* mutant
  LET i == req[r].id
  IN  /\ req[r].at = "resurrect"
      /\ live' = IF IsLive(i) THEN live ELSE [live EXCEPT ![i] = Bind(Unbound, req[r].header, Header)]
      /\ Step(r, "snapshot")
      /\ UNCHANGED <<tombs, journal, losses, history>>

(* get_or_resurrect, under its lock: the session is there by now, or it is made
   from the header and the journal; a map full of other sessions refuses it *)
Resurrect(r) ==
  LET i == req[r].id
      seeded == Bind(Unbound, req[r].header, Header)
  IN  /\ req[r].at = "resurrect"
      /\ \/ /\ live' = IF IsLive(i) THEN live
                       ELSE [live EXCEPT ![i] = Bind(seeded, journal[i].path, journal[i].rank)]
            /\ Step(r, "snapshot")
         \/ ~IsLive(i) /\ Finished(r, "refused") /\ UNCHANGED live
      /\ UNCHANGED <<tombs, journal, losses, history>>

(* client_metadata_for_project_header: the header is applied and the binding
   read under one lock; a session that has gone meanwhile refuses the request *)
Snapshot(r) ==
  LET i == req[r].id
      bound == Bind(live[i], req[r].header, Header)
  IN  /\ req[r].at = "snapshot"
      /\ IF IsLive(i)
         THEN /\ live' = [live EXCEPT ![i] = bound]
              /\ req' = [req EXCEPT ![r].at = "running", ![r].saw = bound]
         ELSE Finished(r, "refused") /\ UNCHANGED live
      /\ UNCHANGED <<tombs, journal, losses, history>>

(* the request ends without having bound its session *)
Answered(r) ==
  /\ req[r].at = "running"
  /\ Finished(r, "done")
  /\ UNCHANGED <<live, tombs, journal, losses, history>>

(* set_project_path, of prepare_harness_session and activate_project; a session
   that has gone stays unbound *)
BindProject(r, path) ==
  LET i == req[r].id
      bound == Bind(live[i], path, Explicit)
  IN  /\ req[r].at = "running"
      /\ IF IsLive(i)
         THEN /\ live' = [live EXCEPT ![i] = bound]
              /\ req' = [req EXCEPT ![r] = [Idle EXCEPT !.at = "record", !.id = i, !.entry = bound]]
         ELSE Finished(r, "done") /\ UNCHANGED live
      /\ disturbed' = disturbed \cup Crowded(i)
      /\ UNCHANGED <<tombs, journal, losses, chosen, overtaken>>

Lose == losses < MaxLosses /\ losses' = losses + 1

(* journal_record, after the lock was released; its failure is only logged.
   Who came from initialize goes on to the seed, who came from a tool answers. *)
WriteJournal(r) ==
  LET i == req[r].id
      behind == IF IsLive(i) /\ live[i] # req[r].entry THEN {i} ELSE {}
  IN  /\ req[r].at \in {"journal", "record"}
      /\ \/ /\ journal' = [journal EXCEPT ![i] = Chosen(req[r].entry)]
            /\ disturbed' = disturbed \cup behind
            /\ UNCHANGED losses
         \/ Lose /\ disturbed' = disturbed \cup {i} /\ UNCHANGED journal
      /\ IF req[r].at = "record"
         THEN Finished(r, "done") /\ chosen' = [chosen EXCEPT ![i] = req[r].entry.path]
         ELSE Finished(r, "seed") /\ UNCHANGED chosen
      /\ UNCHANGED <<live, tombs, overtaken>>
-----------------------------------------------------------------------------
(* DELETE: mark_tombstone takes the session from the map, then its entry from
   the journal, and sets the tombstone last *)
Delete(r, i) ==
  /\ req[r].at = "unsent"
  /\ live' = [live EXCEPT ![i] = NoSession]
  /\ req' = [req EXCEPT ![r] = [Idle EXCEPT !.at = "forget", !.id = i]]
  /\ UNCHANGED <<tombs, journal, losses, history>>

ForgetEntry(r) ==
  /\ req[r].at = "forget"
  /\ journal' = [journal EXCEPT ![req[r].id] = Unbound]
  /\ Step(r, "mark")
  /\ chosen' = [chosen EXCEPT ![req[r].id] = NoProject]
  /\ UNCHANGED <<live, tombs, losses, disturbed, overtaken>>

MarkTombstone(r) ==
  /\ req[r].at = "mark"
  /\ tombs' = tombs \cup {req[r].id}
  /\ Finished(r, "done")
  /\ overtaken' = IF \/ IsLive(req[r].id)
                     \/ \E q \in Requests : req[q].id = req[r].id /\ req[q].at = "resurrect"
                  THEN overtaken \cup {req[r].id} ELSE overtaken
  /\ UNCHANGED <<live, journal, losses, chosen, disturbed>>

(* reap_expired, and create() making room among too many sessions: neither
   touches the journal *)
DropSession(i) ==
  /\ IsLive(i) /\ Lose
  /\ live' = [live EXCEPT ![i] = NoSession]
  /\ UNCHANGED <<tombs, journal, req, history>>

(* a tombstone's TTL ends, or 256 later ones crowd it out *)
TombstoneGoes(i) ==
  /\ i \in tombs /\ Lose
  /\ tombs' = tombs \ {i}
  /\ UNCHANGED <<live, journal, req, history>>

(* the journal's TTL or its cap *)
JournalPrunes(i) ==
  /\ journal[i] # Unbound /\ Lose
  /\ journal' = [journal EXCEPT ![i] = Unbound]
  /\ disturbed' = disturbed \cup {i}
  /\ UNCHANGED <<live, tombs, req, chosen, overtaken>>

(* The daemon restarts: the journal is all that stays. *)
DaemonRestarts ==
  /\ Lose
  /\ live' = [i \in SessionIds |-> NoSession]
  /\ tombs' = {}
  /\ req' = [r \in Requests |->
               IF req[r].at \in {"unsent", "done", "refused"} THEN req[r]
               ELSE [Idle EXCEPT !.at = "refused", !.id = req[r].id]]
  /\ UNCHANGED <<journal, history>>

SessionsAtRest ==
  /\ \A r \in Requests : req[r].at \in {"done", "refused"}
  /\ UNCHANGED sessionVars

SessionNext ==
  \/ \E r \in Requests, i \in SessionIds, header \in Projects \cup {NoProject} :
       \/ Send(r, i, header)
       \/ \E path \in Projects \cup {NoProject} : Initialize(r, i, path, header)
  \/ \E r \in Requests, i \in SessionIds : Delete(r, i)
  \/ \E r \in Requests : \/ SetMetadata(r) \/ SeedDefault(r) \/ CheckTombstone(r) \/ Resurrect(r)
                         \/ Snapshot(r) \/ Answered(r) \/ WriteJournal(r)
                         \/ ForgetEntry(r) \/ MarkTombstone(r)
                         \/ \E path \in Projects : BindProject(r, path)
  \/ \E i \in SessionIds : DropSession(i) \/ TombstoneGoes(i) \/ JournalPrunes(i)
  \/ DaemonRestarts
  \/ SessionsAtRest

SessionSpec == SessionInit /\ [][SessionNext]_sessionVars
-----------------------------------------------------------------------------
(* What a tool bound stays bound.  A request, whatever its header says and
   however often the session was evicted, timed out or lost with the daemon in
   between, runs in the project the last answered prepare or activate call chose
   - unless another call is rebinding the session just then, or its journal is
   behind. *)
ChosenProjectSurvives ==
  [][\A r \in Requests : (req[r].at = "snapshot" /\ req'[r].at = "running")
       => LET i == req[r].id
          IN  \/ chosen[i] \in {NoProject, req'[r].saw.path}
              \/ i \in disturbed \/ Writing(i) # {}]_sessionVars

(* Concurrent requests of one session never run in one another's project: a
   request that names a project in its header runs in it, or in one that was
   chosen with a higher rank. *)
HeaderIsHonoured ==
  \A r \in Requests :
    (req[r].at = "running" /\ req[r].header # NoProject)
      => req[r].saw.path = req[r].header \/ req[r].saw.rank > Header

(* A DELETE is final while its tombstone lasts: the id has no session again -
   except when a request that overlapped the DELETE brought it back, which then
   lives on beside the tombstone. *)
DeletedStaysDeleted == \A i \in tombs : IsLive(i) => i \in overtaken
=============================================================================
