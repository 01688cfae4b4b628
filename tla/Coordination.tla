---------------------------- MODULE Coordination ----------------------------
(***************************************************************************)
(* The claims that agents put on files                                     *)
(* (crates/codelens-mcp/src/agent_coordination.rs): a table with one row   *)
(* per session, in a database that every process of the project opens.     *)
(* Claims are advisory: what matters is that the second claimant is told.  *)
(* A call computes when its claim ends, waits for the process's lock, opens*)
(* the database, reads the clock it will prune by, waits for the writer    *)
(* lock, and then does everything in one transaction, which either wait    *)
(* may have made late, or gives up.  Calls come from several processes.    *)
(*                                                                         *)
(* Names, branches and reasons are left out.                               *)
(***************************************************************************)
EXTENDS Naturals, FiniteSets

CONSTANTS
  Agents,        \* sessions
  ClaimCalls,    \* the calls a run makes
  AgentOf,       \* the session of each, two at once of one session among them
  ClaimedFiles,
  Terms,         \* the times to live asked for, normalised
  ClaimHorizon   \* bound: the end of time

ASSUME CoordinationAssumption ==
  /\ IsFiniteSet(ClaimedFiles) /\ ClaimHorizon \in Nat
  /\ Terms \subseteq Nat \ {0}
  /\ \E m \in Terms : \A k \in Terms : k <= m   \* MAX_COORDINATION_TTL_SECS
  /\ AgentOf \in [ClaimCalls -> Agents]

VARIABLES
  clock,
  agentRows,     \* agents: when each session's registration ends, 0 without one
  claimRows,     \* claims: paths_json and expires_at, no paths without a row
  claimCall,     \* the calls
  held,          \* history: the files each session claimed and has not released
                 \* since its claim last ended for good
  told           \* history: the claims of others each session was told of while
                 \* holding its own

coordVars == <<clock, agentRows, claimRows, claimCall, held, told>>

ClaimOps == {"register", "claim", "release", "query"}
NoClaim == [paths |-> {}, until |-> 0]
NoCall == [at |-> "unsent", op |-> "query", paths |-> {}, until |-> 0, pruned |-> 0]

EndOfTime == ClaimHorizon + CHOOSE m \in Terms : \A k \in Terms : k <= m

CoordCalls ==
  [at : {"unsent", "waiting", "begun", "reading", "done"}, op : ClaimOps,
   paths : SUBSET ClaimedFiles, until : 0..EndOfTime,
   pruned : 0..ClaimHorizon]   \* the clock it prunes by

(* Every variable holds a value of its kind. *)
CoordinationTypeOK ==
  /\ clock \in 0..ClaimHorizon
  /\ agentRows \in [Agents -> 0..EndOfTime]
  /\ claimRows \in [Agents -> [paths : SUBSET ClaimedFiles, until : 0..EndOfTime]]
  /\ claimCall \in [ClaimCalls -> CoordCalls]
  /\ held \in [Agents -> SUBSET ClaimedFiles]
  /\ told \in [Agents -> SUBSET (Agents \X ClaimedFiles)]

CoordinationInit ==
  /\ clock = 0
  /\ agentRows = [s \in Agents |-> 0] /\ claimRows = [s \in Agents |-> NoClaim]
  /\ claimCall = [c \in ClaimCalls |-> NoCall]
  /\ held = [s \in Agents |-> {}] /\ told = [s \in Agents |-> {}]

(* A session's claim goes on, or a claim of the session that began before its end
   is still waiting for the writer lock. *)
GoesOn(s) ==
  \/ claimRows[s].until > clock
  \/ \E c \in ClaimCalls : /\ AgentOf[c] = s /\ claimCall[c].op = "claim"
                           /\ claimCall[c].at = "begun"
                           /\ claimCall[c].pruned < claimRows[s].until

(* What is remembered after a step of what a session held and was told. *)
Remember(files, claims) ==
  /\ held' = [s \in Agents |-> IF GoesOn(s)' THEN files[s] ELSE {}]
  /\ told' = [s \in Agents |-> IF claimRows'[s].until > clock' THEN claims[s] ELSE {}]

Asked(op, fs, end) ==
  [NoCall EXCEPT !.at = "waiting", !.op = op, !.paths = fs, !.until = end]

(* The time to live counts from before both waits ... *)
StartClaimCall(c) ==
  /\ claimCall[c].at = "unsent"
  /\ \E fs \in (SUBSET ClaimedFiles) \ {{}}, k \in Terms :
       \E new \in {Asked("claim", fs, clock + k), Asked("release", fs, 0),
                  Asked("register", {}, clock + k), Asked("query", {}, 0)} :
         claimCall' = [claimCall EXCEPT ![c] = new]
  /\ UNCHANGED <<clock, agentRows, claimRows, held, told>>

(* ... and the clock to prune by is read before the one for the writer lock:
   now_ms() is an argument of prune_tx, whose first DELETE waits. *)
Begin(c) ==
  /\ claimCall[c].at = "waiting"
  /\ claimCall' = [claimCall EXCEPT ![c].at = "begun", ![c].pruned = clock]
  /\ UNCHANGED <<clock, agentRows, claimRows>> /\ Remember(held, told)

Begun(c, op) == claimCall[c].at = "begun" /\ claimCall[c].op = op

Done(c) == claimCall' = [claimCall EXCEPT ![c] = [NoCall EXCEPT !.at = "done"]]

(* The database cannot be opened, or its writer lock is not free for 5 s. *)
Unavailable(c) ==
  /\ claimCall[c].at \in {"waiting", "begun", "reading"} /\ Done(c)
  /\ UNCHANGED <<clock, agentRows, claimRows>> /\ Remember(held, told)

(* A slip: nothing is pruned. *)
LiveRowsUnpruned(rows, time) == rows

(* prune_tx deletes what has ended at its time, first of all. *)
LiveRows(rows, time) == [s \in Agents |-> IF rows[s].until <= time THEN NoClaim ELSE rows[s]]

LiveAgents(time) == [s \in Agents |-> IF agentRows[s] <= time THEN 0 ELSE agentRows[s]]

RowsSeen(c) == LiveRows(claimRows, claimCall[c].pruned)

AgentsSeen(c) == LiveAgents(claimCall[c].pruned)

(* claim_files joins the paths to those of the session's row, which may have ended
   during the wait, and gives all of them the new end; the claims of others it
   overlaps are those that have not ended by a clock read after that. *)
Merged(c) == [paths |-> RowsSeen(c)[AgentOf[c]].paths \cup claimCall[c].paths,
              until |-> claimCall[c].until]

(* A slip: a claim about to end counts as ended. *)
OverlapsOfLonger(s, rows) ==
  {o \in (Agents \ {s}) \X ClaimedFiles :
     rows[o[1]].until > clock + 1 /\ o[2] \in rows[o[1]].paths \cap rows[s].paths}

Overlaps(s, rows) ==
  {o \in (Agents \ {s}) \X ClaimedFiles :
     rows[o[1]].until > clock /\ o[2] \in rows[o[1]].paths \cap rows[s].paths}

(* What a session holds and was told of ends with its claim. *)
Holding(s, rows) == IF rows[s].until > clock THEN rows[s].paths ELSE {}

Claim(c) ==
  LET s == AgentOf[c]
  IN /\ Begun(c, "claim")
     /\ claimRows' = [RowsSeen(c) EXCEPT ![s] = Merged(c)]
     /\ agentRows' = AgentsSeen(c)
     /\ Done(c) /\ UNCHANGED clock
     /\ Remember([held EXCEPT ![s] = @ \cup claimCall[c].paths],
                 [told EXCEPT ![s] = @ \cup Overlaps(s, claimRows')])

(* release_files keeps the end of what remains, and deletes a row without paths. *)
Release(c) ==
  LET s == AgentOf[c]
      left == RowsSeen(c)[s].paths \ claimCall[c].paths
  IN /\ Begun(c, "release")
     /\ claimRows' = [RowsSeen(c) EXCEPT
                        ![s] = IF left = {} THEN NoClaim ELSE [@ EXCEPT !.paths = left]]
     /\ agentRows' = AgentsSeen(c)
     /\ Done(c) /\ UNCHANGED clock
     /\ Remember([held EXCEPT ![s] = @ \ claimCall[c].paths],
                 [told EXCEPT ![s] = {o \in @ : o[2] \notin claimCall[c].paths}])

RegisterWork(c) ==
  /\ Begun(c, "register")
  /\ agentRows' = [AgentsSeen(c) EXCEPT ![AgentOf[c]] = claimCall[c].until]
  /\ claimRows' = RowsSeen(c)
  /\ Done(c) /\ UNCHANGED clock /\ Remember(held, told)

(* overlapping_claims, active_agents and snapshot prune too, the agents and then
   the claims, each in a transaction of its own with its own wait. *)
QueryAgents(c) ==
  /\ Begun(c, "query")
  /\ claimCall' = [claimCall EXCEPT ![c].at = "reading"]
  /\ agentRows' = AgentsSeen(c)
  /\ UNCHANGED <<clock, claimRows, held, told>>

QueryClaims(c) ==
  /\ claimCall[c].at = "reading"
  /\ claimRows' = RowsSeen(c)
  /\ Done(c) /\ UNCHANGED <<clock, agentRows>> /\ Remember(held, told)

Tick ==
  /\ clock < ClaimHorizon /\ clock' = clock + 1
  /\ UNCHANGED <<agentRows, claimRows, claimCall>> /\ Remember(held, told)

ClaimsAtRest ==
  /\ \A c \in ClaimCalls : claimCall[c].at = "done"
  /\ UNCHANGED coordVars

CoordinationNext ==
  \/ \E c \in ClaimCalls : \/ StartClaimCall(c) \/ Begin(c) \/ Unavailable(c) \/ Claim(c)
                           \/ Release(c) \/ RegisterWork(c)
                           \/ QueryAgents(c) \/ QueryClaims(c)
  \/ Tick \/ ClaimsAtRest

CoordinationSpec == CoordinationInit /\ [][CoordinationNext]_coordVars

(***************************************************************************)
(* Properties                                                              *)
(***************************************************************************)
(* Of two sessions that hold one file at the same time, one was told of the other's claim
   when it made its own, in whatever process and order their calls got the lock. *)
SecondClaimantIsTold ==
  \A s, u \in Agents : \A f \in Holding(s, claimRows) \cap Holding(u, claimRows) :
    s # u => <<u, f>> \in told[s] \/ <<s, f>> \in told[u]

(* A claim that has ended stays ended: a claim of the same session that begins after its
   end, of other files, does not bring its files back, although the end of every file of
   the row is renewed and calls that began before the end may still be waiting (the row is
   pruned before it is read and extended).  Excepted, by GoesOn, is a claim that read the
   clock before the end and got the writer lock after it: it does bring them back. *)
EndedClaimsStayEnded ==
  \A s \in Agents : Holding(s, claimRows) \subseteq held[s]
=============================================================================
