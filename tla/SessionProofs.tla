--------------------------- MODULE SessionProofs ---------------------------
(***************************************************************************)
(* Proofs about the sessions: those of HTTP clients, the claims of agents, *)
(* and the one with a language server.  For any number of each.            *)
(***************************************************************************)
EXTENDS SessionStore, Coordination, LspSession, SequenceTheorems, FiniteSetTheorems, TLAPS

(***************************************************************************)
(* HTTP sessions (SessionStore).                                           *)
(***************************************************************************)
(* The inductive invariant.                                                *)

WritingAt(r) == req[r].at \in {"journal", "record"}

(* A new session is never given an id that a request already carried. *)
KnownIdsWereSent ==
  \A i \in SessionIds : chosen[i] # NoProject \/ i \in tombs =>
    \E q \in Requests : req[q].id = i /\ req[q].at # "unsent"

(* Whoever is past the check of a tombstone, or lives beside it, came before it. *)
TombstonesHold ==
  \A i \in tombs : IsLive(i) \/ (\E q \in Requests : req[q].id = i /\ req[q].at = "resurrect")
                     => i \in overtaken

(* What initialize and a tool are about to bind or to journal. *)
EntriesByStep ==
  \A r \in Requests : /\ req[r].at = "metadata" => req[r].entry.rank <= Initialized
                      /\ req[r].at = "record" => /\ req[r].entry.rank = Explicit
                                                 /\ req[r].entry.path \in Projects

CrowdsAreNoted ==
  \A r, q \in Requests :
    r # q /\ WritingAt(r) /\ WritingAt(q) /\ req[r].id = req[q].id => req[r].id \in disturbed

(* Unless the journal of a session is behind, a confirmed choice is in it, in every
   write of it that initialize has under way, and, while no write is, in the map. *)
ChoiceIsKept ==
  \A i \in SessionIds \ disturbed : chosen[i] # NoProject =>
    LET choice == [path |-> chosen[i], rank |-> Explicit]
    IN /\ journal[i] = choice
       /\ \A r \in Requests : req[r].id = i /\ req[r].at = "journal" => req[r].entry = choice
       /\ IsLive(i) /\ Writing(i) = {} => live[i] = choice

SessionInv ==
  /\ SessionTypeOK /\ KnownIdsWereSent /\ TombstonesHold /\ EntriesByStep /\ CrowdsAreNoted
  /\ ChoiceIsKept
-----------------------------------------------------------------------------
(* Operators *)

LEMMA RecordTypes ==
  /\ Unbound \in Bindings /\ NoSession \in Bindings /\ Unbound # NoSession
  /\ Idle \in Calls /\ Idle.at = "unsent" /\ Idle.header = NoProject
  /\ Idle.entry = Unbound
<1>1. Unbound \in Bindings /\ NoSession \in Bindings /\ Unbound # NoSession
  BY DEF Unbound, NoSession, Bindings, Ranks, Default, Explicit
<1>2. (CHOOSE i \in SessionIds : TRUE) \in SessionIds
  BY SessionAssumption
<1> QED BY <1>1, <1>2 DEF Idle, Calls, Steps

(* A binding that is applied is a binding, names a project if it was bound before,
   and does not lose rank. *)
LEMMA BindType ==
  ASSUME NEW b \in Bindings, NEW path \in Projects \cup {NoProject}, NEW rank \in Ranks
  PROVE  /\ Bind(b, path, rank) \in Bindings
         /\ b # NoSession => Bind(b, path, rank) # NoSession
         /\ b.rank = Explicit /\ rank < Explicit => Bind(b, path, rank) = b
         /\ path # NoProject /\ rank >= b.rank =>
              Bind(b, path, rank) = [path |-> path, rank |-> rank]
<1>1. Ranks \subseteq Nat
  BY DEF Ranks, Default, Explicit
<1> QED BY <1>1, SessionAssumption
     DEF Bind, CanReplace, Bindings, NoSession, Ranks, Default, Explicit

LEMMA ChosenType ==
  ASSUME NEW b \in Bindings
  PROVE  Chosen(b) \in Bindings /\ (b.rank = Explicit => Chosen(b) = b)
BY RecordTypes DEF Chosen, Initialized, Explicit, Bindings, Ranks, Default

LEMMA FromInitializeType ==
  ASSUME NEW path \in Projects \cup {NoProject}, NEW header \in Projects \cup {NoProject}
  PROVE  FromInitialize(path, header) \in Bindings
         /\ FromInitialize(path, header).rank <= Initialized
BY SessionAssumption
   DEF FromInitialize, Bindings, Ranks, Unbound, Default, Header, Initialized, Explicit
-----------------------------------------------------------------------------
(* Type correctness *)

LEMMA SessionInitInv == SessionInit => SessionInv /\ HeaderIsHonoured /\ DeletedStaysDeleted
<1> SUFFICES ASSUME SessionInit PROVE SessionInv /\ HeaderIsHonoured /\ DeletedStaysDeleted
  OBVIOUS
<1>1. \A r \in Requests : req[r] = Idle /\ req[r].at = "unsent"
  BY RecordTypes DEF SessionInit
<1>2. SessionTypeOK
  BY RecordTypes, SessionAssumption DEF SessionInit, SessionTypeOK
<1> QED BY <1>1, <1>2
     DEF SessionInit, SessionInv, KnownIdsWereSent, TombstonesHold, EntriesByStep, CrowdsAreNoted,
         ChoiceIsKept, WritingAt, HeaderIsHonoured, DeletedStaysDeleted

LEMMA FinishedType ==
  ASSUME SessionTypeOK, NEW r \in Requests, NEW at \in Steps, Finished(r, at)
  PROVE  req' \in [Requests -> Calls]
BY RecordTypes DEF Finished, SessionTypeOK, Calls

LEMMA StepType ==
  ASSUME SessionTypeOK, NEW r \in Requests, NEW at \in Steps, Step(r, at)
  PROVE  req' \in [Requests -> Calls]
BY DEF Step, SessionTypeOK, Calls

LEMMA SessionNextType == SessionTypeOK /\ [SessionNext]_sessionVars => SessionTypeOK'
<1> SUFFICES ASSUME SessionTypeOK, [SessionNext]_sessionVars PROVE SessionTypeOK'
  OBVIOUS
<1> USE DEF history
<1>1. /\ \A i \in SessionIds : live[i] \in Bindings /\ journal[i] \in Bindings
      /\ \A r \in Requests : /\ req[r] \in Calls /\ req[r].id \in SessionIds
                             /\ req[r].entry \in Bindings
                             /\ req[r].header \in Projects \cup {NoProject}
      /\ Default \in Ranks /\ Header \in Ranks /\ Initialized \in Ranks /\ Explicit \in Ranks
  BY DEF SessionTypeOK, Calls, Ranks, Default, Header, Initialized, Explicit
<1>2. \A b \in Bindings : b.path \in Projects \cup {NoProject} /\ b.rank \in Ranks
  BY DEF Bindings
<1>3. \A at \in {"gate", "resurrect", "snapshot", "running", "metadata", "journal", "record",
                 "seed", "forget", "mark", "done", "refused"} : at \in Steps
  BY DEF Steps
<1>4. Lose => losses' \in 0..MaxLosses
  BY SessionAssumption DEF Lose, SessionTypeOK
<1>5. ASSUME NEW r \in Requests, NEW i \in SessionIds, NEW header \in Projects \cup {NoProject},
             Send(r, i, header)
      PROVE  SessionTypeOK'
  BY <1>3, <1>5, RecordTypes DEF Send, SessionTypeOK, Calls
<1>6. ASSUME NEW r \in Requests, NEW i \in SessionIds, NEW header \in Projects \cup {NoProject},
             NEW path \in Projects \cup {NoProject}, Initialize(r, i, path, header)
      PROVE  SessionTypeOK'
  <2>1. req' \in [Requests -> Calls]
    BY <1>3, <1>6, RecordTypes, FromInitializeType DEF Initialize, SessionTypeOK, Calls
  <2> QED BY <1>6, <2>1, RecordTypes DEF Initialize, SessionTypeOK
<1>7. ASSUME NEW r \in Requests, NEW i \in SessionIds, Delete(r, i) PROVE SessionTypeOK'
  BY <1>3, <1>7, RecordTypes DEF Delete, SessionTypeOK, Calls
<1>8. ASSUME NEW r \in Requests, SetMetadata(r) PROVE SessionTypeOK'
  <2> DEFINE bound == Bind(live[req[r].id], req[r].entry.path, req[r].entry.rank)
  <2>1. bound \in Bindings
    BY <1>1, <1>2, BindType
  <2>2. CASE /\ live' = [live EXCEPT ![req[r].id] = bound]
             /\ req' = [req EXCEPT ![r].at = "journal", ![r].entry = bound]
    <3> HIDE DEF bound
    <3> QED BY <1>1, <1>3, <1>8, <2>1, <2>2 DEF SetMetadata, SessionTypeOK, Calls, Crowded
  <2>3. CASE Finished(r, "seed") /\ UNCHANGED live
    BY <1>1, <1>3, <1>8, <2>3, FinishedType DEF SetMetadata, SessionTypeOK, Crowded
  <2> QED BY <1>8, <2>2, <2>3 DEF SetMetadata
<1>9. ASSUME NEW r \in Requests, SeedDefault(r) PROVE SessionTypeOK'
  <2>1. live' \in [SessionIds -> Bindings]
    BY <1>1, <1>9, SessionAssumption DEF SeedDefault, SessionTypeOK, Bindings
  <2> QED BY <1>3, <1>9, <2>1, FinishedType DEF SeedDefault, SessionTypeOK
<1>10. ASSUME NEW r \in Requests, CheckTombstone(r) PROVE SessionTypeOK'
  BY <1>3, <1>10, FinishedType, StepType DEF CheckTombstone, SessionTypeOK
<1>11. ASSUME NEW r \in Requests, Resurrect(r) PROVE SessionTypeOK'
  <2> DEFINE seeded == Bind(Unbound, req[r].header, Header)
             bound == Bind(seeded, journal[req[r].id].path, journal[req[r].id].rank)
  <2>1. bound \in Bindings
    BY <1>1, <1>2, BindType, RecordTypes
  <2>2. live' \in [SessionIds -> Bindings]
    <3>1. live' \in {live, [live EXCEPT ![req[r].id] = bound]}
      BY <1>11 DEF Resurrect
    <3> HIDE DEF bound
    <3> QED BY <2>1, <3>1 DEF SessionTypeOK
  <2> QED BY <1>3, <1>11, <2>2, FinishedType, StepType DEF Resurrect, SessionTypeOK
<1>12. ASSUME NEW r \in Requests, Snapshot(r) PROVE SessionTypeOK'
  <2> DEFINE bound == Bind(live[req[r].id], req[r].header, Header)
  <2>1. bound \in Bindings
    BY <1>1, BindType
  <2>2. CASE /\ live' = [live EXCEPT ![req[r].id] = bound]
             /\ req' = [req EXCEPT ![r].at = "running", ![r].saw = bound]
    <3> HIDE DEF bound
    <3> QED BY <1>1, <1>3, <1>12, <2>1, <2>2 DEF Snapshot, SessionTypeOK, Calls
  <2>3. CASE Finished(r, "refused") /\ UNCHANGED live
    BY <1>3, <1>12, <2>3, FinishedType DEF Snapshot, SessionTypeOK
  <2> QED BY <1>12, <2>2, <2>3 DEF Snapshot
<1>13. ASSUME NEW r \in Requests, Answered(r) PROVE SessionTypeOK'
  BY <1>3, <1>13, FinishedType DEF Answered, SessionTypeOK
<1>14. ASSUME NEW r \in Requests, NEW path \in Projects, BindProject(r, path) PROVE SessionTypeOK'
  <2> DEFINE bound == Bind(live[req[r].id], path, Explicit)
  <2>1. bound \in Bindings
    BY <1>1, BindType
  <2>2. CASE /\ live' = [live EXCEPT ![req[r].id] = bound]
             /\ req' = [req EXCEPT ![r] = [Idle EXCEPT !.at = "record", !.id = req[r].id,
                                                      !.entry = bound]]
    <3> HIDE DEF bound
    <3> QED BY <1>1, <1>3, <1>14, <2>1, <2>2, RecordTypes, ZenonT(40)
         DEF BindProject, SessionTypeOK, Calls, Crowded
  <2>3. CASE Finished(r, "done") /\ UNCHANGED live
    BY <1>1, <1>3, <1>14, <2>3, FinishedType DEF BindProject, SessionTypeOK, Crowded
  <2> QED BY <1>14, <2>2, <2>3 DEF BindProject
<1>15. ASSUME NEW r \in Requests, WriteJournal(r) PROVE SessionTypeOK'
  <2>1. journal' \in [SessionIds -> Bindings]
    BY <1>1, <1>15, ChosenType DEF WriteJournal, SessionTypeOK
  <2>2. req' \in [Requests -> Calls]
    BY <1>3, <1>15, FinishedType DEF WriteJournal
  <2>3. losses' \in 0..MaxLosses /\ disturbed' \subseteq SessionIds
    BY <1>1, <1>4, <1>15 DEF WriteJournal, SessionTypeOK
  <2>4. chosen' \in [SessionIds -> Projects \cup {NoProject}]
    BY <1>1, <1>2, <1>15 DEF WriteJournal, SessionTypeOK
  <2> QED BY <1>15, <2>1, <2>2, <2>3, <2>4 DEF WriteJournal, SessionTypeOK
<1>16. ASSUME NEW r \in Requests, ForgetEntry(r) PROVE SessionTypeOK'
  BY <1>3, <1>16, StepType, RecordTypes DEF ForgetEntry, SessionTypeOK
<1>17. ASSUME NEW r \in Requests, MarkTombstone(r) PROVE SessionTypeOK'
  BY <1>1, <1>3, <1>17, FinishedType DEF MarkTombstone, SessionTypeOK
<1>18. ASSUME NEW i \in SessionIds, DropSession(i) \/ TombstoneGoes(i) \/ JournalPrunes(i)
       PROVE  SessionTypeOK'
  BY <1>4, <1>18, RecordTypes DEF DropSession, TombstoneGoes, JournalPrunes, SessionTypeOK
<1>19. CASE DaemonRestarts
  <2>1. req' \in [Requests -> Calls]
    BY <1>1, <1>3, <1>19, RecordTypes DEF DaemonRestarts, SessionTypeOK, Calls
  <2> QED BY <1>4, <1>19, <2>1, RecordTypes DEF DaemonRestarts, SessionTypeOK
<1>20. CASE UNCHANGED sessionVars
  BY <1>20 DEF sessionVars, SessionTypeOK
<1> QED BY <1>5, <1>6, <1>7, <1>8, <1>9, <1>10, <1>11, <1>12, <1>13, <1>14, <1>15, <1>16, <1>17,
          <1>18, <1>19, <1>20 DEF SessionNext, SessionsAtRest
(* Every variable of the session store keeps its kind. *)
THEOREM SessionTypeCorrect == SessionSpec => []SessionTypeOK
<1>1. SessionInit => SessionTypeOK
  BY SessionInitInv DEF SessionInv
<1> QED BY <1>1, SessionNextType, PTL DEF SessionSpec
-----------------------------------------------------------------------------
(* What a step does to the requests: one request moves, from one place to one of a
   few, or the daemon restarts, which refuses all that were under way. *)

Sends(r) == \E i \in SessionIds, header \in Projects \cup {NoProject} :
              Send(r, i, header) \/ \E path \in Projects \cup {NoProject} : Initialize(r, i, path, header)

Moves(r) ==
  \/ SetMetadata(r) \/ SeedDefault(r) \/ CheckTombstone(r) \/ Resurrect(r)
  \/ Snapshot(r) \/ Answered(r) \/ WriteJournal(r) \/ ForgetEntry(r) \/ MarkTombstone(r)
  \/ \E path \in Projects : BindProject(r, path)

Loses == \E i \in SessionIds : DropSession(i) \/ TombstoneGoes(i) \/ JournalPrunes(i)

(* A tool that binds a project goes on to record it, if the session is still there. *)
LEMMA BindMoves ==
  ASSUME SessionTypeOK, NEW r \in Requests, NEW path \in Projects, BindProject(r, path)
  PROVE  /\ \A q \in Requests \ {r} : req'[q] = req[q]
         /\ req'[r].id = req[r].id /\ req'[r].header = NoProject
         /\ \/ req'[r].at = "done" /\ ~IsLive(req[r].id) /\ live' = live
            \/ /\ req'[r].at = "record" /\ req'[r].entry = [path |-> path, rank |-> Explicit]
               /\ IsLive(req[r].id) /\ live' = [live EXCEPT ![req[r].id] = req'[r].entry]
<1> DEFINE i == req[r].id
           bound == Bind(live[i], path, Explicit)
<1>1. i \in SessionIds /\ live[i] \in Bindings /\ Explicit \in Ranks
  BY DEF SessionTypeOK, Calls, Ranks, Default, Explicit
<1>2. bound = [path |-> path, rank |-> Explicit]
  <2>1. live[i].rank <= Explicit
    BY <1>1 DEF Bindings, Ranks, Default, Explicit
  <2> QED BY <1>1, <2>1, BindType, SessionAssumption
<1>3. CASE ~IsLive(i)
  <2>1. Finished(r, "done") /\ UNCHANGED live
    BY <1>3 DEF BindProject
  <2> QED BY <1>3, <2>1, RecordTypes DEF Finished, SessionTypeOK, Calls
<1>4. CASE IsLive(i)
  <2>1. /\ live' = [live EXCEPT ![i] = bound]
        /\ req' = [req EXCEPT ![r] = [Idle EXCEPT !.at = "record", !.id = i, !.entry = bound]]
    BY <1>4 DEF BindProject
  <2> HIDE DEF bound, i
  <2>2. /\ \A q \in Requests \ {r} : req'[q] = req[q]
        /\ req'[r].id = i /\ req'[r].header = NoProject /\ req'[r].at = "record"
        /\ req'[r].entry = bound
    BY <2>1, RecordTypes DEF SessionTypeOK, Calls
  <2> QED BY <1>2, <1>4, <2>1, <2>2 DEF i
<1> QED BY <1>3, <1>4

LEMMA OneRequestMoves ==
  ASSUME SessionTypeOK, NEW r \in Requests,
         \/ Sends(r) \/ Moves(r) \/ \E i \in SessionIds : Delete(r, i)
  PROVE  /\ \A q \in Requests \ {r} : req'[q] = req[q]
         /\ req'[r].at # "unsent" /\ (Moves(r) => req[r].at # "unsent" /\ req'[r].id = req[r].id)
         /\ ~Moves(r) => req[r].at = "unsent"
<1> USE DEF SessionTypeOK, Calls
<1>1. \A at : Finished(r, at) => /\ \A q \in Requests \ {r} : req'[q] = req[q]
                                /\ req'[r].at = at /\ req'[r].id = req[r].id
  BY RecordTypes DEF Finished
<1>2. \A at : Step(r, at) => /\ \A q \in Requests \ {r} : req'[q] = req[q]
                            /\ req'[r].at = at /\ req'[r].id = req[r].id
  BY DEF Step
<1>3. Moves(r) => req[r].at # "unsent"
  BY DEF Moves, SetMetadata, SeedDefault, CheckTombstone, Resurrect, Snapshot, Answered,
         WriteJournal, ForgetEntry, MarkTombstone, BindProject
<1>4. ASSUME Sends(r) \/ \E i \in SessionIds : Delete(r, i)
      PROVE  /\ \A q \in Requests \ {r} : req'[q] = req[q]
             /\ req'[r].at # "unsent" /\ req[r].at = "unsent"
  <2>1. ASSUME NEW i \in SessionIds, NEW header \in Projects \cup {NoProject}, Send(r, i, header)
        PROVE  /\ \A q \in Requests \ {r} : req'[q] = req[q]
               /\ req'[r].at # "unsent" /\ req[r].at = "unsent"
    BY <2>1, RecordTypes DEF Send
  <2>2. ASSUME NEW i, NEW path, NEW header, Initialize(r, i, path, header)
        PROVE  /\ \A q \in Requests \ {r} : req'[q] = req[q]
               /\ req'[r].at # "unsent" /\ req[r].at = "unsent"
    BY <2>2, RecordTypes DEF Initialize
  <2>3. ASSUME NEW i \in SessionIds, Delete(r, i)
        PROVE  /\ \A q \in Requests \ {r} : req'[q] = req[q]
               /\ req'[r].at # "unsent" /\ req[r].at = "unsent"
    BY <2>3, RecordTypes DEF Delete
  <2> QED BY <1>4, <2>1, <2>2, <2>3 DEF Sends
<1>5. ASSUME SetMetadata(r) \/ Snapshot(r) \/ \E path \in Projects : BindProject(r, path)
      PROVE  /\ \A q \in Requests \ {r} : req'[q] = req[q]
             /\ req'[r].at # "unsent" /\ req[r].at # "unsent" /\ req'[r].id = req[r].id
  <2>1. CASE SetMetadata(r)
    BY <1>1, <2>1 DEF SetMetadata
  <2>2. CASE Snapshot(r)
    BY <1>1, <2>2 DEF Snapshot
  <2>3. ASSUME NEW path \in Projects, BindProject(r, path)
        PROVE  /\ \A q \in Requests \ {r} : req'[q] = req[q]
               /\ req'[r].at # "unsent" /\ req[r].at # "unsent" /\ req'[r].id = req[r].id
    BY <1>1, <2>3, BindMoves DEF BindProject
  <2> QED BY <1>5, <2>1, <2>2, <2>3
<1>6. ASSUME \/ SeedDefault(r) \/ CheckTombstone(r) \/ Resurrect(r) \/ Answered(r)
             \/ WriteJournal(r) \/ ForgetEntry(r) \/ MarkTombstone(r)
      PROVE  /\ \A q \in Requests \ {r} : req'[q] = req[q]
             /\ req'[r].at # "unsent" /\ req[r].at # "unsent" /\ req'[r].id = req[r].id
  BY <1>1, <1>2, <1>6 DEF SeedDefault, CheckTombstone, Resurrect, Answered, WriteJournal,
                          ForgetEntry, MarkTombstone
<1>7. Moves(r) => /\ \A q \in Requests \ {r} : req'[q] = req[q]
                  /\ req'[r].at # "unsent" /\ req'[r].id = req[r].id
  BY <1>5, <1>6 DEF Moves
<1> QED BY <1>3, <1>4, <1>7

LEMMA RestartMoves ==
  ASSUME SessionTypeOK, DaemonRestarts, NEW q \in Requests
  PROVE  \/ req'[q] = req[q] /\ req[q].at \in {"unsent", "done", "refused"}
         \/ /\ req'[q].id = req[q].id /\ req'[q].at = "refused" /\ req[q].at # "unsent"
            /\ req'[q].header = NoProject
BY RecordTypes DEF DaemonRestarts, SessionTypeOK, Calls

LEMMA SessionSteps ==
  ASSUME SessionNext
  PROVE  \/ \E r \in Requests : Sends(r) \/ Moves(r) \/ \E i \in SessionIds : Delete(r, i)
         \/ Loses \/ DaemonRestarts \/ UNCHANGED sessionVars
<1>1. ASSUME NEW r \in Requests, NEW i \in SessionIds, NEW header \in Projects \cup {NoProject},
             \/ Send(r, i, header)
             \/ \E path \in Projects \cup {NoProject} : Initialize(r, i, path, header)
      PROVE  Sends(r)
  BY <1>1 DEF Sends
<1>2. ASSUME NEW r \in Requests,
             \/ SetMetadata(r) \/ SeedDefault(r) \/ CheckTombstone(r) \/ Resurrect(r)
             \/ Snapshot(r) \/ Answered(r) \/ WriteJournal(r) \/ ForgetEntry(r)
             \/ MarkTombstone(r) \/ \E path \in Projects : BindProject(r, path)
      PROVE  Moves(r)
  BY <1>2 DEF Moves
<1>3. SessionsAtRest => UNCHANGED sessionVars
  BY DEF SessionsAtRest
<1> QED BY <1>1, <1>2, <1>3, Zenon DEF SessionNext, Loses
-----------------------------------------------------------------------------
(* The header of a request *)

(* A request starts to run where its binding is read from the map. *)
LEMMA RunsBySnapshot ==
  ASSUME SessionTypeOK, [SessionNext]_sessionVars, NEW q \in Requests,
         req'[q].at = "running", req'[q] # req[q]
  PROVE  /\ Snapshot(q) /\ IsLive(req[q].id)
         /\ req'[q].header = req[q].header
         /\ req'[q].saw = Bind(live[req[q].id], req[q].header, Header)
<1>1. \A at : Finished(q, at) => req'[q].at = at
  BY RecordTypes DEF Finished, SessionTypeOK, Calls
<1>2. \A at : Step(q, at) => req'[q].at = at
  BY DEF Step, SessionTypeOK, Calls
<1>3. Moves(q)
  <2>0. Moves(q) \/ Sends(q) \/ \E i \in SessionIds : Delete(q, i)
    <3>1. ~DaemonRestarts
      BY RestartMoves
    <3> QED BY <3>1, OneRequestMoves, SessionSteps
         DEF Loses, DropSession, TombstoneGoes, JournalPrunes, sessionVars
  <2>1. ASSUME NEW i, NEW header, Send(q, i, header) PROVE FALSE
    BY <2>1, RecordTypes DEF Send, SessionTypeOK, Calls
  <2>2. ASSUME NEW i, NEW path, NEW header, Initialize(q, i, path, header) PROVE FALSE
    BY <2>2, RecordTypes DEF Initialize, SessionTypeOK, Calls
  <2>3. ASSUME NEW i, Delete(q, i) PROVE FALSE
    BY <2>3, RecordTypes DEF Delete, SessionTypeOK, Calls
  <2> QED BY <2>0, <2>1, <2>2, <2>3 DEF Sends
<1>4. ~SetMetadata(q) /\ \A path \in Projects : ~BindProject(q, path)
  <2>1. ASSUME NEW path \in Projects, BindProject(q, path) PROVE FALSE
    BY <2>1, BindMoves
  <2>2. ASSUME SetMetadata(q) PROVE FALSE
    BY <1>1, <2>2, RecordTypes DEF SetMetadata, SessionTypeOK, Calls
  <2> QED BY <2>1, <2>2
<1>5. Snapshot(q)
  BY <1>1, <1>2, <1>3, <1>4 DEF Moves, SeedDefault, CheckTombstone, Resurrect, Answered,
                                    WriteJournal, ForgetEntry, MarkTombstone
<1>6. IsLive(req[q].id)
  BY <1>1, <1>5 DEF Snapshot
<1> DEFINE bound == Bind(live[req[q].id], req[q].header, Header)
<1>7. req' = [req EXCEPT ![q].at = "running", ![q].saw = bound]
  BY <1>5, <1>6 DEF Snapshot
<1>8. req'[q].header = req[q].header /\ req'[q].saw = bound
  <2> HIDE DEF bound
  <2> QED BY <1>7 DEF SessionTypeOK, Calls
<1> QED BY <1>5, <1>6, <1>8

(* A request that names a project runs in it, or in one chosen with a higher rank:
   the header is applied and the binding read under one lock. *)
THEOREM HeadersHonoured == SessionSpec => []HeaderIsHonoured
<1>1. SessionInit => HeaderIsHonoured
  BY SessionInitInv
<1>2. SessionTypeOK /\ HeaderIsHonoured /\ [SessionNext]_sessionVars => HeaderIsHonoured'
  <2> SUFFICES ASSUME SessionTypeOK, HeaderIsHonoured, [SessionNext]_sessionVars,
                      NEW q \in Requests, req'[q].at = "running", req'[q].header # NoProject
               PROVE  req'[q].saw.path = req'[q].header \/ req'[q].saw.rank > Header
    BY DEF HeaderIsHonoured
  <2>1. CASE req'[q] = req[q]
    BY <2>1 DEF HeaderIsHonoured
  <2>2. CASE req'[q] # req[q]
    <3> DEFINE b == live[req[q].id]
               bound == Bind(b, req[q].header, Header)
    <3>1. req'[q].header = req[q].header /\ req'[q].saw = bound
      BY <2>2, RunsBySnapshot
    <3>2. b \in Bindings
      BY DEF SessionTypeOK, Calls
    <3>3. b.rank \in Nat /\ Header \in Nat
      BY <3>2 DEF Bindings, Ranks, Default, Header, Explicit
    <3>4. bound = IF Header >= b.rank THEN [path |-> req[q].header, rank |-> Header] ELSE b
      BY <3>1 DEF Bind, CanReplace
    <3> HIDE DEF b, bound
    <3> QED BY <3>1, <3>3, <3>4
  <2> QED BY <2>1, <2>2
<1> QED BY <1>1, <1>2, SessionTypeCorrect, PTL DEF SessionSpec
-----------------------------------------------------------------------------
(* What a step does to the map, the tombstones and the choices. *)

LEMMA SentStaysSent ==
  ASSUME SessionTypeOK, [SessionNext]_sessionVars, NEW q \in Requests, req[q].at # "unsent"
  PROVE  req'[q].at # "unsent" /\ req'[q].id = req[q].id
<1>1. req' = req \/ DaemonRestarts
      \/ \E r \in Requests : Sends(r) \/ Moves(r) \/ \E i \in SessionIds : Delete(r, i)
  BY SessionSteps DEF Loses, DropSession, TombstoneGoes, JournalPrunes, sessionVars
<1>2. CASE DaemonRestarts
  BY <1>2, RestartMoves
<1>3. ASSUME NEW r \in Requests, Sends(r) \/ Moves(r) \/ \E i \in SessionIds : Delete(r, i)
      PROVE  req'[q].at # "unsent" /\ req'[q].id = req[q].id
  BY <1>3, OneRequestMoves
<1> QED BY <1>1, <1>2, <1>3

LEMMA Tombstoned ==
  ASSUME [SessionNext]_sessionVars
  PROVE  /\ \/ tombs' \subseteq tombs
            \/ \E r \in Requests : MarkTombstone(r) /\ tombs' = tombs \cup {req[r].id}
         /\ overtaken \subseteq overtaken'
<1> USE DEF history, sessionVars
<1>1. CASE Loses \/ DaemonRestarts \/ UNCHANGED sessionVars
  BY <1>1 DEF Loses, DropSession, TombstoneGoes, JournalPrunes, DaemonRestarts
<1>2. ASSUME NEW r \in Requests, Moves(r), ~MarkTombstone(r)
      PROVE  UNCHANGED <<tombs, overtaken>>
  BY <1>2 DEF Moves, SetMetadata, SeedDefault, CheckTombstone, Resurrect, Snapshot, Answered,
              WriteJournal, ForgetEntry, BindProject
<1>3. ASSUME NEW r \in Requests, MarkTombstone(r)
      PROVE  tombs' = tombs \cup {req[r].id} /\ overtaken \subseteq overtaken'
  BY <1>3 DEF MarkTombstone
<1>4. ASSUME NEW r \in Requests, Sends(r) \/ \E i \in SessionIds : Delete(r, i)
      PROVE  UNCHANGED <<tombs, overtaken>>
  BY <1>4 DEF Sends, Send, Initialize, Delete
<1> QED BY <1>1, <1>2, <1>3, <1>4, SessionSteps

LEMMA ChoosesOnlyItsOwn ==
  ASSUME SessionTypeOK, [SessionNext]_sessionVars, NEW i \in SessionIds, chosen'[i] # chosen[i]
  PROVE  \E r \in Requests : req[r].id = i /\ (ForgetEntry(r) \/ (WriteJournal(r) /\ req[r].at = "record"))
<1> USE DEF history, sessionVars
<1>1. CASE Loses \/ DaemonRestarts \/ UNCHANGED sessionVars
  BY <1>1 DEF Loses, DropSession, TombstoneGoes, JournalPrunes, DaemonRestarts
<1>2. ASSUME NEW r \in Requests, Moves(r), ~ForgetEntry(r), ~WriteJournal(r)
      PROVE  UNCHANGED chosen
  BY <1>2 DEF Moves, SetMetadata, SeedDefault, CheckTombstone, Resurrect, Snapshot, Answered,
              MarkTombstone, BindProject
<1>3. ASSUME NEW r \in Requests, Sends(r) \/ \E j \in SessionIds : Delete(r, j)
      PROVE  UNCHANGED chosen
  BY <1>3 DEF Sends, Send, Initialize, Delete
<1>4. ASSUME NEW r \in Requests, ForgetEntry(r) \/ WriteJournal(r)
      PROVE  req[r].id = i /\ (WriteJournal(r) => req[r].at = "record")
  BY <1>4 DEF ForgetEntry, WriteJournal, SessionTypeOK
<1> QED BY <1>1, <1>2, <1>3, <1>4, SessionSteps

(* An id gets a session again only by an initialize under a new id, or by a request
   that is past the check of its tombstone. *)
LEMMA ComesToLife ==
  ASSUME SessionTypeOK, [SessionNext]_sessionVars, NEW i \in SessionIds, ~IsLive(i), IsLive(i)'
  PROVE  \/ \A q \in Requests : req[q].at = "unsent" \/ req[q].id # i
         \/ \E r \in Requests : req[r].id = i /\ req[r].at = "resurrect"
<1> USE DEF IsLive
<1>1. CASE Loses \/ DaemonRestarts \/ UNCHANGED sessionVars
  BY <1>1 DEF Loses, DropSession, TombstoneGoes, JournalPrunes, DaemonRestarts, sessionVars,
              SessionTypeOK
<1>2. ASSUME NEW r \in Requests, Moves(r), ~Resurrect(r) PROVE FALSE
  <2>1. ASSUME NEW path \in Projects, BindProject(r, path) PROVE FALSE
    BY <2>1 DEF BindProject, SessionTypeOK
  <2> QED BY <1>2, <2>1 DEF Moves, SetMetadata, SeedDefault, CheckTombstone, Snapshot, Answered,
                  WriteJournal, ForgetEntry, MarkTombstone, SessionTypeOK
<1>3. ASSUME NEW r \in Requests, Resurrect(r) PROVE req[r].id = i /\ req[r].at = "resurrect"
  BY <1>3 DEF Resurrect, SessionTypeOK
<1>4. ASSUME NEW r \in Requests, Sends(r)
      PROVE  \A q \in Requests : req[q].at = "unsent" \/ req[q].id # i
  BY <1>4 DEF Sends, Send, Initialize, SessionTypeOK
<1>5. ASSUME NEW r \in Requests, NEW j \in SessionIds, Delete(r, j) PROVE FALSE
  BY <1>5 DEF Delete, SessionTypeOK
<1> QED BY <1>1, <1>2, <1>3, <1>4, <1>5, SessionSteps

LEMMA PassesTombstone ==
  ASSUME SessionTypeOK, [SessionNext]_sessionVars, NEW q \in Requests, req'[q].at = "resurrect",
         req[q].at # "resurrect"
  PROVE  /\ req'[q].id = req[q].id /\ req[q].id \notin tombs
         /\ UNCHANGED <<tombs, live, overtaken>>
<1>1. CheckTombstone(q)
  <2>1. \A at : Finished(q, at) => req'[q].at = at
    BY RecordTypes DEF Finished, SessionTypeOK, Calls
  <2>2. \A at : Step(q, at) => req'[q].at = at
    BY DEF Step, SessionTypeOK, Calls
  <2>3. ~DaemonRestarts
    BY RestartMoves
  <2>4. Sends(q) \/ Moves(q) \/ \E i \in SessionIds : Delete(q, i)
    BY <2>3, SessionSteps, OneRequestMoves
       DEF Loses, DropSession, TombstoneGoes, JournalPrunes, sessionVars
  <2>5. ASSUME NEW i, NEW header, Send(q, i, header) PROVE FALSE
    BY <2>5, RecordTypes DEF Send, SessionTypeOK, Calls
  <2>6. ASSUME NEW i, NEW path, NEW header, Initialize(q, i, path, header) PROVE FALSE
    BY <2>6, RecordTypes DEF Initialize, SessionTypeOK, Calls
  <2>7. ASSUME NEW i, Delete(q, i) PROVE FALSE
    BY <2>7, RecordTypes DEF Delete, SessionTypeOK, Calls
  <2>8. ASSUME NEW path \in Projects, BindProject(q, path) PROVE FALSE
    BY <2>8, BindMoves
  <2>9. ASSUME SetMetadata(q) \/ Snapshot(q) PROVE FALSE
    BY <2>1, <2>9 DEF SetMetadata, Snapshot, SessionTypeOK, Calls
  <2> QED BY <2>1, <2>2, <2>4, <2>5, <2>6, <2>7, <2>8, <2>9
       DEF Sends, Moves, SeedDefault, Resurrect, Answered, WriteJournal, ForgetEntry, MarkTombstone
<1> QED BY <1>1, RecordTypes DEF CheckTombstone, Step, Finished, SessionTypeOK, Calls, history
-----------------------------------------------------------------------------
(* Deleted sessions *)

LEMMA KnownIdsStaySent ==
  SessionTypeOK /\ KnownIdsWereSent /\ [SessionNext]_sessionVars => KnownIdsWereSent'
<1> SUFFICES ASSUME SessionTypeOK, KnownIdsWereSent, [SessionNext]_sessionVars,
                    NEW i \in SessionIds, chosen'[i] # NoProject \/ i \in tombs'
             PROVE  \E q \in Requests : req'[q].id = i /\ req'[q].at # "unsent"
  BY DEF KnownIdsWereSent
<1>1. CASE \E q \in Requests : req[q].id = i /\ req[q].at # "unsent"
  BY <1>1, SentStaysSent
<1>2. CASE chosen'[i] # NoProject /\ chosen[i] = NoProject
  BY <1>1, <1>2, ChoosesOnlyItsOwn DEF ForgetEntry, WriteJournal
<1>3. CASE i \in tombs' \ tombs
  BY <1>1, <1>3, Tombstoned DEF MarkTombstone
<1> QED BY <1>1, <1>2, <1>3 DEF KnownIdsWereSent

LEMMA TombstonesStay ==
  SessionTypeOK /\ KnownIdsWereSent /\ TombstonesHold /\ [SessionNext]_sessionVars
    => TombstonesHold'
<1> SUFFICES ASSUME SessionTypeOK, KnownIdsWereSent, TombstonesHold, [SessionNext]_sessionVars,
                    NEW i \in tombs',
                    IsLive(i)' \/ \E q \in Requests : req'[q].id = i /\ req'[q].at = "resurrect"
             PROVE  i \in overtaken'
  BY DEF TombstonesHold
<1>1. i \in SessionIds
  BY SessionNextType DEF SessionTypeOK
<1>2. ASSUME i \in tombs, IsLive(i) \/ \E q \in Requests : req[q].id = i /\ req[q].at = "resurrect"
      PROVE  i \in overtaken'
  BY <1>2, Tombstoned DEF TombstonesHold
<1>3. CASE i \in tombs
  <2>1. CASE IsLive(i)' /\ ~IsLive(i)
    BY <1>1, <1>2, <1>3, <2>1, ComesToLife DEF KnownIdsWereSent
  <2>2. ASSUME NEW q \in Requests, req'[q].id = i, req'[q].at = "resurrect"
        PROVE  i \in overtaken'
    <3>1. CASE req[q].at = "resurrect"
      BY <1>2, <1>3, <2>2, <3>1, SentStaysSent
    <3>2. CASE req[q].at # "resurrect"
      BY <1>3, <2>2, <3>2, PassesTombstone
    <3> QED BY <3>1, <3>2
  <2> QED BY <1>2, <1>3, <2>1, <2>2
<1>4. ASSUME i \notin tombs, NEW r \in Requests, MarkTombstone(r), tombs' = tombs \cup {req[r].id}
      PROVE  i \in overtaken'
  <2>1. i = req[r].id
    BY <1>4
  <2>2. CASE IsLive(i)'
    BY <1>4, <2>1, <2>2 DEF MarkTombstone, IsLive
  <2>3. ASSUME NEW q \in Requests, req'[q].id = i, req'[q].at = "resurrect"
        PROVE  i \in overtaken'
    <3>1. req[q].at = "resurrect" /\ req[q].id = i
      BY <1>4, <2>3, PassesTombstone, SentStaysSent
    <3> QED BY <1>4, <2>1, <3>1 DEF MarkTombstone
  <2> QED BY <2>2, <2>3
<1> QED BY <1>3, <1>4, Tombstoned

(* While its tombstone lasts, a deleted id has no session, unless a request that
   overlapped the DELETE brought it back. *)
THEOREM DeletesLast == SessionSpec => []DeletedStaysDeleted
<1> DEFINE Inv == SessionTypeOK /\ KnownIdsWereSent /\ TombstonesHold
<1>1. SessionInit => Inv
  BY SessionInitInv DEF SessionInv
<1>2. Inv /\ [SessionNext]_sessionVars => Inv'
  BY SessionNextType, KnownIdsStaySent, TombstonesStay
<1>3. Inv => DeletedStaysDeleted
  BY DEF TombstonesHold, DeletedStaysDeleted
<1> QED BY <1>1, <1>2, <1>3, PTL DEF SessionSpec
-----------------------------------------------------------------------------
(* The project a tool chose *)

(* A step of one call that neither binds its session nor journals anything. *)
Writes(r) == SetMetadata(r) \/ WriteJournal(r) \/ \E path \in Projects : BindProject(r, path)

LEMMA OnlyWritersWrite ==
  ASSUME SessionTypeOK, [SessionNext]_sessionVars, \A r \in Requests : ~Writes(r), ~DaemonRestarts,
         NEW q \in Requests
  PROVE  /\ (WritingAt(q)') <=> WritingAt(q)
         /\ WritingAt(q) => req'[q] = req[q]
         /\ req'[q].at \in {"metadata", "record"} =>
              \/ req'[q].entry = req[q].entry /\ req'[q].at = req[q].at
              \/ req'[q].at = "metadata" /\ req'[q].entry.rank <= Initialized
<1> USE DEF WritingAt
<1>1. CASE req'[q] = req[q]
  BY <1>1
<1>2. ASSUME NEW i, NEW header, Send(q, i, header)
      PROVE  ~WritingAt(q)' /\ ~WritingAt(q) /\ req'[q].at \in {"gate", "snapshot"}
  BY <1>2, RecordTypes DEF Send, SessionTypeOK, Calls
<1>3. ASSUME NEW i, NEW path \in Projects \cup {NoProject}, NEW header \in Projects \cup {NoProject},
             Initialize(q, i, path, header)
      PROVE  /\ ~WritingAt(q)' /\ ~WritingAt(q) /\ req'[q].at = "metadata"
             /\ req'[q].entry.rank <= Initialized
  BY <1>3, RecordTypes, FromInitializeType DEF Initialize, SessionTypeOK, Calls
<1>4. ASSUME NEW i, Delete(q, i)
      PROVE  ~WritingAt(q)' /\ ~WritingAt(q) /\ req'[q].at = "forget"
  BY <1>4, RecordTypes DEF Delete, SessionTypeOK, Calls
<1>5. ASSUME Moves(q)
      PROVE  ~WritingAt(q)' /\ ~WritingAt(q) /\ req'[q].at \notin {"metadata", "record"}
  <2>1. \A at : Finished(q, at) => req'[q].at = at
    BY RecordTypes DEF Finished, SessionTypeOK, Calls
  <2>2. \A at : Step(q, at) => req'[q].at = at
    BY DEF Step, SessionTypeOK, Calls
  <2>3. ASSUME Snapshot(q) PROVE ~WritingAt(q) /\ req'[q].at \in {"running", "refused"}
    BY <2>1, <2>3 DEF Snapshot, SessionTypeOK, Calls
  <2> QED BY <1>5, <2>1, <2>2, <2>3
       DEF Moves, Writes, SeedDefault, CheckTombstone, Resurrect, Answered, ForgetEntry, MarkTombstone
<1>6. req'[q] = req[q] \/ Sends(q) \/ Moves(q) \/ \E i \in SessionIds : Delete(q, i)
  BY SessionSteps, OneRequestMoves DEF Loses, DropSession, TombstoneGoes, JournalPrunes, sessionVars
<1> QED BY <1>1, <1>2, <1>3, <1>4, <1>5, <1>6 DEF Sends

(* initialize goes on to journal what it left in the map, if the session is there. *)
LEMMA MetadataMoves ==
  ASSUME SessionTypeOK, NEW r \in Requests, SetMetadata(r)
  PROVE  /\ \/ req'[r].at = "seed" /\ ~IsLive(req[r].id) /\ live' = live
            \/ /\ req'[r].at = "journal" /\ IsLive(req[r].id)
               /\ req'[r].entry = Bind(live[req[r].id], req[r].entry.path, req[r].entry.rank)
               /\ live' = [live EXCEPT ![req[r].id] = req'[r].entry]
         /\ UNCHANGED journal /\ UNCHANGED chosen
<1> DEFINE i == req[r].id
           bound == Bind(live[i], req[r].entry.path, req[r].entry.rank)
<1>1. CASE ~IsLive(i)
  BY <1>1, RecordTypes DEF SetMetadata, Finished, SessionTypeOK, Calls
<1>2. CASE IsLive(i)
  <2>1. /\ live' = [live EXCEPT ![i] = bound]
        /\ req' = [req EXCEPT ![r].at = "journal", ![r].entry = bound]
    BY <1>2 DEF SetMetadata
  <2>2. req'[r].at = "journal" /\ req'[r].entry = bound
    <3> HIDE DEF bound
    <3> QED BY <2>1 DEF SessionTypeOK, Calls
  <2>3. UNCHANGED journal /\ UNCHANGED chosen
    BY DEF SetMetadata
  <2> QED BY <1>2, <2>1, <2>2, <2>3
<1> QED BY <1>1, <1>2 DEF SetMetadata

(* A writer leaves the other calls alone, and a write under way stays under way. *)
LEMMA WritersMove ==
  ASSUME SessionTypeOK, NEW p \in Requests, Writes(p)
  PROVE  /\ \A q \in Requests \ {p} : req'[q] = req[q]
         /\ req'[p].id = req[p].id
<1>1. Moves(p)
  BY DEF Writes, Moves
<1> QED BY <1>1, OneRequestMoves

LEMMA JournalMoves ==
  ASSUME SessionTypeOK, NEW p \in Requests, WriteJournal(p)
  PROVE  req'[p].at \in {"seed", "done"}
<1>1. \A at : Finished(p, at) => req'[p].at = at
  BY RecordTypes DEF Finished, SessionTypeOK, Calls
<1> QED BY <1>1 DEF WriteJournal

LEMMA DisturbedGrows ==
  ASSUME [SessionNext]_sessionVars
  PROVE  disturbed \subseteq disturbed'
<1> USE DEF history, sessionVars
<1>1. CASE Loses \/ DaemonRestarts \/ UNCHANGED sessionVars
  BY <1>1 DEF Loses, DropSession, TombstoneGoes, JournalPrunes, DaemonRestarts
<1>2. ASSUME NEW r \in Requests, Moves(r) PROVE disturbed \subseteq disturbed'
  BY <1>2 DEF Moves, SetMetadata, SeedDefault, CheckTombstone, Resurrect, Snapshot, Answered,
              WriteJournal, ForgetEntry, MarkTombstone, BindProject
<1>3. ASSUME NEW r \in Requests, Sends(r) \/ \E i \in SessionIds : Delete(r, i)
      PROVE  UNCHANGED disturbed
  BY <1>3 DEF Sends, Send, Initialize, Delete
<1> QED BY <1>1, <1>2, <1>3, SessionSteps

LEMMA EntriesStay ==
  SessionTypeOK /\ EntriesByStep /\ [SessionNext]_sessionVars => EntriesByStep'
<1> SUFFICES ASSUME SessionTypeOK, EntriesByStep, [SessionNext]_sessionVars, NEW r \in Requests
             PROVE  /\ req'[r].at = "metadata" => req'[r].entry.rank <= Initialized
                    /\ req'[r].at = "record" => /\ req'[r].entry.rank = Explicit
                                                /\ req'[r].entry.path \in Projects
  BY DEF EntriesByStep
<1>1. CASE req'[r] = req[r]
  BY <1>1 DEF EntriesByStep
<1>2. CASE DaemonRestarts
  BY <1>1, <1>2, RestartMoves
<1>3. CASE (\A p \in Requests : ~Writes(p)) /\ ~DaemonRestarts
  BY <1>3, OnlyWritersWrite DEF EntriesByStep
<1>4. ASSUME Writes(r) PROVE req'[r].at # "metadata" /\ (req'[r].at = "record" =>
                               req'[r].entry.rank = Explicit /\ req'[r].entry.path \in Projects)
  <2>1. CASE SetMetadata(r)
    <3>1. req'[r].at \in {"seed", "journal"}
      BY <2>1, MetadataMoves
    <3> QED BY <3>1
  <2>2. CASE WriteJournal(r)
    <3>1. req'[r].at \in {"seed", "done"}
      BY <2>2, JournalMoves
    <3> QED BY <3>1
  <2>3. ASSUME NEW path \in Projects, BindProject(r, path)
        PROVE  req'[r].at # "metadata" /\ (req'[r].at = "record" =>
                 req'[r].entry.rank = Explicit /\ req'[r].entry.path \in Projects)
    <3>1. \/ req'[r].at = "done"
          \/ req'[r].at = "record" /\ req'[r].entry = [path |-> path, rank |-> Explicit]
      BY <2>3, BindMoves
    <3> QED BY <3>1
  <2> QED BY <1>4, <2>1, <2>2, <2>3 DEF Writes
<1>5. ASSUME NEW p \in Requests, Writes(p), p # r PROVE req'[r] = req[r]
  BY <1>5, WritersMove
<1> QED BY <1>1, <1>2, <1>3, <1>4, <1>5

LEMMA CrowdsStayNoted ==
  SessionTypeOK /\ CrowdsAreNoted /\ [SessionNext]_sessionVars => CrowdsAreNoted'
<1> SUFFICES ASSUME SessionTypeOK, CrowdsAreNoted, [SessionNext]_sessionVars,
                    NEW r \in Requests, NEW q \in Requests, r # q,
                    WritingAt(r)', WritingAt(q)', req'[r].id = req'[q].id
             PROVE  req'[r].id \in disturbed'
  BY DEF CrowdsAreNoted
<1>1. ASSUME req'[r] = req[r], req'[q] = req[q] PROVE req'[r].id \in disturbed'
  BY <1>1, DisturbedGrows DEF CrowdsAreNoted, WritingAt
<1>2. CASE DaemonRestarts
  BY <1>2, RestartMoves DEF WritingAt
<1>3. CASE (\A p \in Requests : ~Writes(p)) /\ ~DaemonRestarts
  BY <1>1, <1>3, OnlyWritersWrite
<1>4. ASSUME NEW p \in Requests, NEW o \in Requests, Writes(p), p # o, WritingAt(p)', WritingAt(o)',
             req'[p].id = req'[o].id
      PROVE  req'[p].id \in disturbed'
  <2>1. req'[o] = req[o] /\ req'[p].id = req[p].id
    BY <1>4, WritersMove
  <2>2. o \in Writing(req[p].id)
    BY <1>4, <2>1 DEF Writing, WritingAt
  <2>3. SetMetadata(p) \/ \E path \in Projects : BindProject(p, path)
    BY <1>4, JournalMoves DEF Writes, WritingAt
  <2> QED BY <2>1, <2>2, <2>3 DEF SetMetadata, BindProject, Crowded
<1>5. ASSUME NEW p \in Requests, Writes(p), p # r, p # q PROVE req'[r] = req[r] /\ req'[q] = req[q]
  BY <1>5, WritersMove
<1> QED BY <1>1, <1>2, <1>3, <1>4, <1>5

Choice(i) == [path |-> chosen[i], rank |-> Explicit]

(* A step that neither binds nor journals leaves a session that runs in the chosen
   project there, or takes it away; a session that comes back has it from the
   journal. *)
LEMMA MapKeepsTheChoice ==
  ASSUME SessionTypeOK, KnownIdsWereSent, [SessionNext]_sessionVars, NEW i \in SessionIds,
         \A r \in Requests : ~Writes(r), ~DaemonRestarts,
         chosen[i] # NoProject, journal[i] = Choice(i), IsLive(i) => live[i] = Choice(i), IsLive(i)'
  PROVE  live'[i] = Choice(i)
<1> USE DEF IsLive
<1>1. /\ Choice(i) \in Bindings /\ Choice(i).path # NoProject /\ Choice(i).rank = Explicit
      /\ Choice(i).path \in Projects \cup {NoProject} /\ Explicit \in Ranks /\ Header \in Ranks
      /\ Header < Explicit
  BY DEF SessionTypeOK, Choice, Bindings, Ranks, Default, Header, Explicit
<1>2. CASE Loses \/ UNCHANGED sessionVars
  BY <1>2 DEF Loses, DropSession, TombstoneGoes, JournalPrunes, sessionVars, SessionTypeOK
<1>3. ASSUME NEW r \in Requests, Moves(r), ~SeedDefault(r), ~Resurrect(r), ~Snapshot(r)
      PROVE  live' = live
  BY <1>3 DEF Moves, Writes, CheckTombstone, Answered, ForgetEntry, MarkTombstone
<1>4. ASSUME NEW r \in Requests, SeedDefault(r) PROVE live'[i] = Choice(i)
  BY <1>1, <1>4 DEF SeedDefault, SessionTypeOK
<1>5. ASSUME NEW r \in Requests, Resurrect(r) PROVE live'[i] = Choice(i)
  <2> DEFINE seeded == Bind(Unbound, req[r].header, Header)
             bound == Bind(seeded, journal[req[r].id].path, journal[req[r].id].rank)
  <2>1. seeded \in Bindings
    BY <1>1, BindType, RecordTypes DEF SessionTypeOK, Calls
  <2>2. seeded.rank <= Explicit
    BY <2>1 DEF Bindings, Ranks, Default, Explicit
  <2>3. req[r].id = i => bound = Choice(i)
    <3> HIDE DEF seeded
    <3> QED BY <1>1, <2>1, <2>2, BindType DEF Choice
  <2>4. live' = live \/ (live' = [live EXCEPT ![req[r].id] = bound] /\ ~IsLive(req[r].id))
    BY <1>5 DEF Resurrect
  <2> HIDE DEF bound
  <2> QED BY <2>3, <2>4 DEF SessionTypeOK
<1>6. ASSUME NEW r \in Requests, Snapshot(r) PROVE live'[i] = Choice(i)
  <2> DEFINE bound == Bind(live[req[r].id], req[r].header, Header)
  <2>1. live[req[r].id] \in Bindings /\ req[r].header \in Projects \cup {NoProject}
    BY DEF SessionTypeOK, Calls
  <2>2. req[r].id = i /\ IsLive(i) => bound = live[i]
    BY <1>1, <2>1, BindType, SMTT(30)
  <2>3. live' = live \/ (live' = [live EXCEPT ![req[r].id] = bound] /\ IsLive(req[r].id))
    BY <1>6 DEF Snapshot
  <2> HIDE DEF bound
  <2> QED BY <2>2, <2>3 DEF SessionTypeOK
<1>7. ASSUME NEW r \in Requests, NEW j \in SessionIds, Delete(r, j) PROVE live'[i] = Choice(i)
  BY <1>7 DEF Delete, SessionTypeOK
<1>8. ASSUME NEW r \in Requests, Sends(r) PROVE live'[i] = Choice(i)
  <2>1. \E q \in Requests : req[q].id = i /\ req[q].at # "unsent"
    BY DEF KnownIdsWereSent
  <2>2. live'[i] = live[i]
    <3>1. ASSUME NEW j, NEW header, Send(r, j, header) PROVE live' = live
      BY <3>1 DEF Send
    <3>2. ASSUME NEW j, NEW header, NEW path, Initialize(r, j, path, header)
          PROVE  live'[i] = live[i]
      BY <2>1, <3>2 DEF Initialize, SessionTypeOK
    <3> QED BY <1>8, <3>1, <3>2 DEF Sends
  <2> QED BY <2>2
<1> QED BY <1>2, <1>3, <1>4, <1>5, <1>6, <1>7, <1>8, SessionSteps

(* The journal of a session that is not behind changes only by a write of it, or
   when the session is deleted. *)
LEMMA JournalStays ==
  ASSUME SessionTypeOK, [SessionNext]_sessionVars, NEW i \in SessionIds, i \notin disturbed',
         chosen'[i] # NoProject, \A r \in Requests : WriteJournal(r) => req[r].id # i
  PROVE  journal'[i] = journal[i] /\ chosen'[i] = chosen[i]
<1> USE DEF history, sessionVars
<1>1. chosen'[i] = chosen[i]
  BY ChoosesOnlyItsOwn DEF ForgetEntry, SessionTypeOK
<1>2. CASE Loses \/ DaemonRestarts \/ UNCHANGED sessionVars
  BY <1>1, <1>2 DEF Loses, DropSession, TombstoneGoes, JournalPrunes, DaemonRestarts, SessionTypeOK
<1>3. ASSUME NEW r \in Requests, Moves(r), ~ForgetEntry(r), ~WriteJournal(r)
      PROVE  UNCHANGED journal
  BY <1>3 DEF Moves, SetMetadata, SeedDefault, CheckTombstone, Resurrect, Snapshot, Answered,
              MarkTombstone, BindProject
<1>4. ASSUME NEW r \in Requests, ForgetEntry(r) \/ WriteJournal(r) PROVE journal'[i] = journal[i]
  BY <1>4 DEF ForgetEntry, WriteJournal, SessionTypeOK
<1>5. ASSUME NEW r \in Requests, Sends(r) \/ \E j \in SessionIds : Delete(r, j)
      PROVE  UNCHANGED journal
  BY <1>5 DEF Sends, Send, Initialize, Delete
<1> QED BY <1>1, <1>2, <1>3, <1>4, <1>5, SessionSteps

LEMMA ChoiceStaysKept == SessionInv /\ [SessionNext]_sessionVars => ChoiceIsKept'
<1> SUFFICES ASSUME SessionInv, [SessionNext]_sessionVars, NEW i \in SessionIds,
                    i \notin disturbed', chosen'[i] # NoProject
             PROVE  /\ journal'[i] = Choice(i)'
                    /\ \A r \in Requests : req'[r].id = i /\ req'[r].at = "journal"
                                             => req'[r].entry = Choice(i)'
                    /\ IsLive(i)' /\ (Writing(i) = {})' => live'[i] = Choice(i)'
  BY DEF ChoiceIsKept, Choice, IsLive, Writing
<1> USE DEF SessionInv
<1>1. i \notin disturbed
  BY DisturbedGrows
<1>2. chosen[i] # NoProject =>
        /\ journal[i] = Choice(i)
        /\ \A r \in Requests : req[r].id = i /\ req[r].at = "journal" => req[r].entry = Choice(i)
        /\ IsLive(i) /\ Writing(i) = {} => live[i] = Choice(i)
  BY <1>1 DEF ChoiceIsKept, Choice
<1>3. ASSUME NEW p \in Requests, WriteJournal(p), req[p].id = i
      PROVE  /\ journal'[i] = Choice(i)'
             /\ \A r \in Requests : req'[r].id = i /\ req'[r].at = "journal"
                                      => req'[r].entry = Choice(i)'
             /\ IsLive(i)' /\ (Writing(i) = {})' => live'[i] = Choice(i)'
  <2>1. req[p].entry \in Bindings /\ WritingAt(p)
    BY <1>3 DEF WriteJournal, SessionTypeOK, Calls, WritingAt
  <2>2. req[p].entry = Choice(i)'
    <3>1. CASE req[p].at = "record"
      <4>1. chosen'[i] = req[p].entry.path
        BY <1>3, <3>1 DEF WriteJournal, SessionTypeOK
      <4>2. req[p].entry.rank = Explicit
        BY <3>1 DEF EntriesByStep
      <4> QED BY <2>1, <4>1, <4>2 DEF Choice, Bindings
    <3>2. CASE req[p].at = "journal"
      <4>1. chosen' = chosen
        BY <1>3, <3>2 DEF WriteJournal
      <4> QED BY <1>2, <1>3, <3>2, <4>1 DEF Choice
    <3> QED BY <2>1, <3>1, <3>2 DEF WritingAt
  <2>3. Chosen(req[p].entry) = req[p].entry
    BY <2>1, <2>2, ChosenType DEF Choice
  <2>4. journal' = [journal EXCEPT ![i] = Chosen(req[p].entry)]
    BY <1>3 DEF WriteJournal
  <2>5. journal'[i] = Choice(i)'
    BY <2>2, <2>3, <2>4 DEF SessionTypeOK
  <2>6. ASSUME NEW r \in Requests, req'[r].id = i, req'[r].at = "journal" PROVE FALSE
    <3>1. r # p
      BY <1>3, <2>6, JournalMoves
    <3>2. req'[r] = req[r]
      BY <1>3, <3>1, WritersMove DEF Writes
    <3> QED BY <1>1, <1>3, <2>1, <2>6, <3>1, <3>2 DEF CrowdsAreNoted, WritingAt
  <2>7. live' = live /\ (IsLive(i) => live[i] = req[p].entry)
    BY <1>3 DEF WriteJournal
  <2> QED BY <2>2, <2>5, <2>6, <2>7 DEF IsLive
<1>4. ASSUME \A p \in Requests : WriteJournal(p) => req[p].id # i
      PROVE  /\ journal'[i] = Choice(i)' /\ chosen[i] # NoProject /\ Choice(i)' = Choice(i)
  BY <1>2, <1>4, JournalStays DEF Choice
<1>5. ASSUME NEW p \in Requests, SetMetadata(p) \/ \E path \in Projects : BindProject(p, path),
             req[p].id = i, Choice(i)' = Choice(i), chosen[i] # NoProject
      PROVE  /\ \A r \in Requests : req'[r].id = i /\ req'[r].at = "journal"
                                      => req'[r].entry = Choice(i)
             /\ IsLive(i)' /\ (Writing(i) = {})' => live'[i] = Choice(i)
  <2>1. Writing(i) = {}
    BY <1>5 DEF SetMetadata, BindProject, Crowded
  <2>2. \A r \in Requests \ {p} : req'[r].id = i => ~WritingAt(r)'
    BY <1>5, <2>1, WritersMove DEF Writes, Writing, WritingAt
  <2>3. req'[p].id = i
    BY <1>5, WritersMove DEF Writes
  <2>4. CASE SetMetadata(p) /\ IsLive(i)
    <3>1. req'[p].at = "journal" /\ req'[p].entry = Bind(live[i], req[p].entry.path, req[p].entry.rank)
      BY <1>5, <2>4, MetadataMoves
    <3>2. live[i] = Choice(i)
      BY <1>2, <1>5, <2>1, <2>4
    <3>3. /\ live[i] \in Bindings /\ req[p].entry \in Bindings /\ live[i].rank = Explicit
          /\ req[p].entry.rank <= Initialized
      BY <2>4, <3>2 DEF SetMetadata, EntriesByStep, SessionTypeOK, Calls, Choice
    <3>4. /\ req[p].entry.path \in Projects \cup {NoProject} /\ req[p].entry.rank \in Ranks
          /\ req[p].entry.rank < Explicit
      BY <3>3 DEF Bindings, Ranks, Default, Initialized, Explicit
    <3>5. req'[p].entry = Choice(i)
      BY <3>1, <3>2, <3>3, <3>4, BindType
    <3>6. p \in {r \in Requests : req'[r].id = i /\ req'[r].at \in {"journal", "record"}}
      BY <2>3, <3>1
    <3> QED BY <2>2, <3>5, <3>6 DEF Writing, WritingAt
  <2>5. CASE ~IsLive(i)
    <3>1. live' = live /\ req'[p].at \in {"seed", "done"}
      BY <1>5, <2>5, MetadataMoves, BindMoves
    <3> QED BY <2>2, <2>5, <3>1 DEF IsLive, WritingAt
  <2>6. ASSUME NEW path \in Projects, BindProject(p, path), IsLive(i)
        PROVE  /\ \A r \in Requests : req'[r].id = i /\ req'[r].at = "journal"
                                        => req'[r].entry = Choice(i)
               /\ (Writing(i) # {})'
    <3>1. req'[p].at = "record"
      BY <1>5, <2>6, BindMoves
    <3>2. p \in {r \in Requests : req'[r].id = i /\ req'[r].at \in {"journal", "record"}}
      BY <2>3, <3>1
    <3> QED BY <2>2, <3>1, <3>2 DEF Writing, WritingAt
  <2> QED BY <1>5, <2>4, <2>5, <2>6
<1>6. ASSUME NEW p \in Requests, Writes(p), req[p].id # i
      PROVE  /\ live'[i] = live[i]
             /\ \A r \in Requests : req'[r].id = i => req'[r] = req[r]
             /\ Writing(i) \subseteq Writing(i)'
  <2>1. /\ \A r \in Requests \ {p} : req'[r] = req[r]
        /\ req'[p].id = req[p].id
    BY <1>6, WritersMove
  <2>2. live'[i] = live[i]
    <3>1. ASSUME NEW path \in Projects, BindProject(p, path) PROVE live'[i] = live[i]
      BY <1>6, <3>1, BindMoves DEF SessionTypeOK
    <3>2. ASSUME SetMetadata(p) PROVE live'[i] = live[i]
      BY <1>6, <3>2, MetadataMoves DEF SessionTypeOK
    <3> QED BY <1>6, <3>1, <3>2 DEF Writes, WriteJournal
  <2> QED BY <1>6, <2>1, <2>2 DEF Writing
<1>7. ASSUME ~DaemonRestarts, \A r \in Requests : ~Writes(r), Choice(i)' = Choice(i),
             chosen[i] # NoProject
      PROVE  /\ \A r \in Requests : req'[r].id = i /\ req'[r].at = "journal"
                                      => req'[r].entry = Choice(i)
             /\ IsLive(i)' /\ (Writing(i) = {})' => live'[i] = Choice(i)
  <2>1. \A r \in Requests : /\ (WritingAt(r)') <=> WritingAt(r)
                            /\ WritingAt(r) => req'[r] = req[r]
    BY <1>7, OnlyWritersWrite
  <2>2. (Writing(i) = {})' => Writing(i) = {}
    BY <2>1 DEF Writing, WritingAt
  <2>3. \A r \in Requests : req'[r].id = i /\ req'[r].at = "journal" => req'[r].entry = Choice(i)
    BY <1>2, <1>7, <2>1 DEF WritingAt
  <2>4. Writing(i) = {} /\ IsLive(i)' => live'[i] = Choice(i)
    BY <1>2, <1>7, MapKeepsTheChoice
  <2> QED BY <2>2, <2>3, <2>4
<1>8. ASSUME DaemonRestarts
      PROVE  ~IsLive(i)' /\ \A r \in Requests : req'[r].at # "journal"
  <2>1. ~IsLive(i)'
    BY <1>8 DEF DaemonRestarts, IsLive
  <2>2. ASSUME NEW r \in Requests PROVE req'[r].at # "journal"
    BY <1>8, RestartMoves
  <2> QED BY <2>1, <2>2
<1>9. ASSUME \A p \in Requests : WriteJournal(p) => req[p].id # i,
             NEW p \in Requests, Writes(p)
      PROVE  /\ \A r \in Requests : req'[r].id = i /\ req'[r].at = "journal"
                                      => req'[r].entry = Choice(i)
             /\ IsLive(i)' /\ (Writing(i) = {})' => live'[i] = Choice(i)
  <2>1. CASE req[p].id = i
    BY <1>4, <1>5, <1>9, <2>1 DEF Writes
  <2>2. CASE req[p].id # i
    BY <1>2, <1>4, <1>6, <1>9, <2>2 DEF IsLive
  <2> QED BY <2>1, <2>2
<1> QED BY <1>3, <1>4, <1>7, <1>8, <1>9

LEMMA SessionInvInductive == SessionInv /\ [SessionNext]_sessionVars => SessionInv'
BY SessionNextType, KnownIdsStaySent, TombstonesStay, EntriesStay, CrowdsStayNoted,
   ChoiceStaysKept DEF SessionInv

(* What a tool bound stays bound, through evictions, restarts and requests with other
   headers, unless another call is rebinding the session or its journal is behind. *)
THEOREM ChoiceSurvives == SessionSpec => ChosenProjectSurvives
<1>1. SessionInit => SessionInv
  BY SessionInitInv
<1>2. SessionInv /\ [SessionNext]_sessionVars =>
        [\A r \in Requests : (req[r].at = "snapshot" /\ req'[r].at = "running")
          => LET i == req[r].id
             IN  \/ chosen[i] \in {NoProject, req'[r].saw.path}
                 \/ i \in disturbed \/ Writing(i) # {}]_sessionVars
  <2> SUFFICES ASSUME SessionInv, [SessionNext]_sessionVars, NEW r \in Requests,
                      req[r].at = "snapshot", req'[r].at = "running",
                      chosen[req[r].id] # NoProject, req[r].id \notin disturbed,
                      Writing(req[r].id) = {}
               PROVE  chosen[req[r].id] = req'[r].saw.path
    OBVIOUS
  <2> DEFINE i == req[r].id
  <2>1. IsLive(i) /\ req'[r].saw = Bind(live[i], req[r].header, Header)
    BY RunsBySnapshot DEF SessionInv
  <2>2. /\ i \in SessionIds /\ live[i] \in Bindings /\ req[r].header \in Projects \cup {NoProject}
        /\ Header \in Ranks /\ Header < Explicit
    BY DEF SessionInv, SessionTypeOK, Calls, Ranks, Default, Header, Explicit
  <2>3. live[i] = Choice(i)
    BY <2>1, <2>2 DEF SessionInv, ChoiceIsKept, Choice
  <2>4. live[i].rank = Explicit
    BY <2>3 DEF Choice
  <2>5. Bind(live[i], req[r].header, Header) = live[i]
    BY <2>2, <2>4, BindType
  <2> QED BY <2>1, <2>3, <2>5 DEF Choice
<1> QED BY <1>1, <1>2, SessionInvInductive, PTL DEF SessionSpec, ChosenProjectSurvives
-----------------------------------------------------------------------------
(***************************************************************************)
(* The claims of agents (Coordination).                                    *)
(***************************************************************************)
(* The longest time to live is one, and every end computed fits the horizon. *)
LEMMA EndsFit ==
  /\ EndOfTime \in Nat
  /\ \A t \in 0..ClaimHorizon : \A k \in Terms : t + k \in 0..EndOfTime
<1> DEFINE longest == CHOOSE m \in Terms : \A k \in Terms : k <= m
<1>1. longest \in Terms /\ \A k \in Terms : k <= longest
  BY CoordinationAssumption
<1>2. longest \in Nat /\ EndOfTime = ClaimHorizon + longest
  BY <1>1, CoordinationAssumption DEF EndOfTime
<1> HIDE DEF longest
<1> QED BY <1>1, <1>2, CoordinationAssumption

(* Pruning keeps the tables tables, whatever time it goes by. *)
LEMMA LiveRowsType ==
  ASSUME CoordinationTypeOK, NEW c \in ClaimCalls
  PROVE  /\ RowsSeen(c) \in [Agents -> [paths : SUBSET ClaimedFiles, until : 0..EndOfTime]]
         /\ \A s \in Agents : \/ RowsSeen(c)[s] = NoClaim
                              \/ /\ RowsSeen(c)[s] = claimRows[s]
                                 /\ claimRows[s].until > claimCall[c].pruned
<1>1. NoClaim \in [paths : SUBSET ClaimedFiles, until : 0..EndOfTime]
  BY EndsFit DEF NoClaim
<1>2. claimCall[c].pruned \in Nat /\ \A s \in Agents : claimRows[s].until \in Nat
  BY EndsFit, CoordinationAssumption DEF CoordinationTypeOK, CoordCalls
<1> QED BY <1>1, <1>2 DEF RowsSeen, LiveRows, CoordinationTypeOK

LEMMA LiveAgentsType ==
  ASSUME CoordinationTypeOK, NEW c \in ClaimCalls
  PROVE  AgentsSeen(c) \in [Agents -> 0..EndOfTime]
BY EndsFit DEF AgentsSeen, LiveAgents, CoordinationTypeOK
-----------------------------------------------------------------------------
LEMMA CoordinationInitType == CoordinationInit => CoordinationTypeOK
BY EndsFit, CoordinationAssumption
   DEF CoordinationInit, CoordinationTypeOK, CoordCalls, NoClaim, NoCall, ClaimOps

(* A call that ends leaves a call record behind. *)
LEMMA DoneType ==
  ASSUME CoordinationTypeOK, NEW c \in ClaimCalls, Done(c)
  PROVE  claimCall' \in [ClaimCalls -> CoordCalls]
BY EndsFit, CoordinationAssumption DEF Done, CoordinationTypeOK, CoordCalls, NoCall, ClaimOps

(* The history keeps its kind. *)
LEMMA RememberType ==
  ASSUME NEW files \in [Agents -> SUBSET ClaimedFiles],
         NEW claims \in [Agents -> SUBSET (Agents \X ClaimedFiles)],
         Remember(files, claims)
  PROVE  /\ held' \in [Agents -> SUBSET ClaimedFiles]
         /\ told' \in [Agents -> SUBSET (Agents \X ClaimedFiles)]
BY DEF Remember

(* A call that starts leaves the record of a call that has read no clock. *)
LEMMA StartsCall ==
  ASSUME CoordinationTypeOK, NEW c \in ClaimCalls, StartClaimCall(c)
  PROVE  \E new \in CoordCalls : /\ claimCall' = [claimCall EXCEPT ![c] = new]
                                 /\ new.at = "waiting" /\ new.pruned = 0
<1>1. PICK fs \in (SUBSET ClaimedFiles) \ {{}}, k \in Terms :
        \E new \in {Asked("claim", fs, clock + k), Asked("release", fs, 0),
                   Asked("register", {}, clock + k), Asked("query", {}, 0)} :
          claimCall' = [claimCall EXCEPT ![c] = new]
  BY DEF StartClaimCall
<1>2. clock + k \in 0..EndOfTime /\ 0 \in 0..EndOfTime /\ 0 \in 0..ClaimHorizon
  <2>1. ClaimHorizon \in Nat /\ clock \in 0..ClaimHorizon
    BY CoordinationAssumption DEF CoordinationTypeOK
  <2> QED BY <2>1, EndsFit
<1>3. \A op \in ClaimOps, paths \in SUBSET ClaimedFiles, end \in 0..EndOfTime :
        /\ Asked(op, paths, end) \in CoordCalls
        /\ Asked(op, paths, end).at = "waiting" /\ Asked(op, paths, end).pruned = 0
  BY <1>2 DEF Asked, NoCall, CoordCalls, ClaimOps
<1>4. PICK new \in {Asked("claim", fs, clock + k), Asked("release", fs, 0),
                  Asked("register", {}, clock + k), Asked("query", {}, 0)} :
        claimCall' = [claimCall EXCEPT ![c] = new]
  BY <1>1
<1>5. new \in CoordCalls /\ new.at = "waiting" /\ new.pruned = 0
  BY <1>2, <1>3, <1>4 DEF ClaimOps
<1> QED BY <1>4, <1>5

LEMMA CoordinationNextType ==
  CoordinationTypeOK /\ [CoordinationNext]_coordVars => CoordinationTypeOK'
<1> SUFFICES ASSUME CoordinationTypeOK, [CoordinationNext]_coordVars
             PROVE  CoordinationTypeOK'
  OBVIOUS
<1>1. AgentOf \in [ClaimCalls -> Agents] /\ ClaimHorizon \in Nat
  BY CoordinationAssumption
<1>2. /\ held \in [Agents -> SUBSET ClaimedFiles]
      /\ told \in [Agents -> SUBSET (Agents \X ClaimedFiles)]
  BY DEF CoordinationTypeOK
<1>3. ASSUME NEW c \in ClaimCalls, StartClaimCall(c) PROVE CoordinationTypeOK'
  <2>1. PICK new : new \in CoordCalls /\ claimCall' = [claimCall EXCEPT ![c] = new]
    BY <1>3, StartsCall
  <2>2. claimCall' \in [ClaimCalls -> CoordCalls]
    BY <2>1 DEF CoordinationTypeOK
  <2> QED BY <1>3, <2>2 DEF StartClaimCall, CoordinationTypeOK
<1>4. ASSUME NEW c \in ClaimCalls, Begin(c) PROVE CoordinationTypeOK'
  <2>1. claimCall' \in [ClaimCalls -> CoordCalls]
    BY <1>4 DEF Begin, CoordinationTypeOK, CoordCalls
  <2> QED BY <1>2, <1>4, <2>1, RememberType DEF Begin, CoordinationTypeOK
<1>5. ASSUME NEW c \in ClaimCalls, Unavailable(c) PROVE CoordinationTypeOK'
  BY <1>2, <1>5, DoneType, RememberType DEF Unavailable, CoordinationTypeOK
<1>6. ASSUME NEW c \in ClaimCalls, Claim(c) PROVE CoordinationTypeOK'
  <2>1. /\ AgentOf[c] \in Agents /\ claimCall[c].paths \subseteq ClaimedFiles
        /\ Merged(c) \in [paths : SUBSET ClaimedFiles, until : 0..EndOfTime]
    BY <1>1, LiveRowsType DEF Merged, CoordinationTypeOK, CoordCalls
  <2>2. claimRows' \in [Agents -> [paths : SUBSET ClaimedFiles, until : 0..EndOfTime]]
    BY <1>6, <2>1, LiveRowsType DEF Claim
  <2>3. /\ [held EXCEPT ![AgentOf[c]] = @ \cup claimCall[c].paths]
             \in [Agents -> SUBSET ClaimedFiles]
        /\ [told EXCEPT ![AgentOf[c]] = @ \cup Overlaps(AgentOf[c], claimRows')]
             \in [Agents -> SUBSET (Agents \X ClaimedFiles)]
    BY <1>2, <2>1 DEF Overlaps
  <2>4. /\ held' \in [Agents -> SUBSET ClaimedFiles]
        /\ told' \in [Agents -> SUBSET (Agents \X ClaimedFiles)]
    BY <1>6, <2>3, RememberType DEF Claim
  <2> QED BY <1>6, <2>2, <2>4, DoneType, LiveAgentsType DEF Claim, CoordinationTypeOK
<1>7. ASSUME NEW c \in ClaimCalls, Release(c) PROVE CoordinationTypeOK'
  <2>1. AgentOf[c] \in Agents /\ RowsSeen(c)[AgentOf[c]].paths \subseteq ClaimedFiles
    BY <1>1, LiveRowsType
  <2>2. NoClaim \in [paths : SUBSET ClaimedFiles, until : 0..EndOfTime]
    BY EndsFit DEF NoClaim
  <2>3. claimRows' \in [Agents -> [paths : SUBSET ClaimedFiles, until : 0..EndOfTime]]
    BY <1>7, <2>1, <2>2, LiveRowsType DEF Release
  <2>4. /\ [held EXCEPT ![AgentOf[c]] = @ \ claimCall[c].paths]
             \in [Agents -> SUBSET ClaimedFiles]
        /\ [told EXCEPT ![AgentOf[c]] = {o \in @ : o[2] \notin claimCall[c].paths}]
             \in [Agents -> SUBSET (Agents \X ClaimedFiles)]
    BY <1>2, <2>1
  <2>5. /\ held' \in [Agents -> SUBSET ClaimedFiles]
        /\ told' \in [Agents -> SUBSET (Agents \X ClaimedFiles)]
    BY <1>7, <2>4, RememberType DEF Release
  <2> QED BY <1>7, <2>3, <2>5, DoneType, LiveAgentsType DEF Release, CoordinationTypeOK
<1>8. ASSUME NEW c \in ClaimCalls, RegisterWork(c) PROVE CoordinationTypeOK'
  <2>1. agentRows' \in [Agents -> 0..EndOfTime]
    BY <1>1, <1>8, LiveAgentsType DEF RegisterWork, CoordinationTypeOK, CoordCalls
  <2> QED BY <1>2, <1>8, <2>1, DoneType, LiveRowsType, RememberType
          DEF RegisterWork, CoordinationTypeOK
<1>9. ASSUME NEW c \in ClaimCalls, QueryAgents(c) PROVE CoordinationTypeOK'
  <2>1. claimCall' \in [ClaimCalls -> CoordCalls]
    BY <1>9 DEF QueryAgents, CoordinationTypeOK, CoordCalls
  <2> QED BY <1>9, <2>1, LiveAgentsType DEF QueryAgents, CoordinationTypeOK
<1>10. ASSUME NEW c \in ClaimCalls, QueryClaims(c) PROVE CoordinationTypeOK'
  BY <1>2, <1>10, DoneType, LiveRowsType, RememberType DEF QueryClaims, CoordinationTypeOK
<1>11. CASE Tick
  BY <1>1, <1>2, <1>11, RememberType DEF Tick, CoordinationTypeOK
<1>12. CASE UNCHANGED coordVars
  BY <1>12 DEF coordVars, CoordinationTypeOK
<1> QED BY <1>3, <1>4, <1>5, <1>6, <1>7, <1>8, <1>9, <1>10, <1>11, <1>12
        DEF CoordinationNext, ClaimsAtRest

(* Every variable keeps its kind; no claim or registration ends later than the
   longest time to live after the last instant. *)
THEOREM CoordinationTypeCorrect == CoordinationSpec => []CoordinationTypeOK
BY CoordinationInitType, CoordinationNextType, PTL DEF CoordinationSpec
-----------------------------------------------------------------------------
(* The inductive invariant: a call prunes by a clock of the past, and whatever is in the
   row of a session whose claim goes on is what it claimed since its claim last ended. *)

ClocksReadArePast == \A c \in ClaimCalls : claimCall[c].pruned <= clock

RowsAreHeld == \A s \in Agents : GoesOn(s) => claimRows[s].paths \subseteq held[s]

CoordinationInv == CoordinationTypeOK /\ ClocksReadArePast /\ RowsAreHeld

LEMMA CoordinationInitInv == CoordinationInit => CoordinationInv
<1> SUFFICES ASSUME CoordinationInit PROVE ClocksReadArePast /\ RowsAreHeld
  BY CoordinationInitType DEF CoordinationInv
<1>1. ClocksReadArePast
  BY DEF CoordinationInit, ClocksReadArePast, NoCall
<1>2. RowsAreHeld
  BY DEF CoordinationInit, RowsAreHeld, NoClaim
<1> QED BY <1>1, <1>2

LEMMA ClocksStayPast ==
  ASSUME CoordinationTypeOK, ClocksReadArePast, [CoordinationNext]_coordVars
  PROVE  ClocksReadArePast'
<1>1. clock \in Nat
  BY CoordinationAssumption DEF CoordinationTypeOK
<1>2. ASSUME NEW c \in ClaimCalls, StartClaimCall(c) PROVE ClocksReadArePast'
  <2>1. UNCHANGED clock
    BY <1>2 DEF StartClaimCall
  <2> QED BY <1>1, <1>2, <2>1, StartsCall DEF ClocksReadArePast, CoordinationTypeOK
<1>3. ASSUME NEW c \in ClaimCalls, Begin(c) PROVE ClocksReadArePast'
  BY <1>1, <1>3 DEF Begin, ClocksReadArePast, CoordinationTypeOK
<1>4. ASSUME NEW c \in ClaimCalls, Done(c), UNCHANGED clock PROVE ClocksReadArePast'
  BY <1>1, <1>4 DEF Done, ClocksReadArePast, CoordinationTypeOK, NoCall
<1>5. ASSUME NEW c \in ClaimCalls, QueryAgents(c) PROVE ClocksReadArePast'
  BY <1>5 DEF QueryAgents, ClocksReadArePast, CoordinationTypeOK
<1>6. CASE Tick
  BY <1>1, <1>6, CoordinationAssumption DEF Tick, ClocksReadArePast, CoordinationTypeOK, CoordCalls
<1>7. CASE UNCHANGED coordVars
  BY <1>7 DEF coordVars, ClocksReadArePast
<1>8. ASSUME NEW c \in ClaimCalls,
             Unavailable(c) \/ Claim(c) \/ Release(c) \/ RegisterWork(c) \/ QueryClaims(c)
      PROVE  Done(c) /\ UNCHANGED clock
  BY <1>8 DEF Unavailable, Claim, Release, RegisterWork, QueryClaims
<1> QED BY <1>2, <1>3, <1>4, <1>5, <1>6, <1>7, <1>8 DEF CoordinationNext, ClaimsAtRest

(* A claim that goes on after a step went on before it, when the step leaves its end
   alone and no call but one that has just read the clock comes to wait. *)
LEMMA WentOn ==
  ASSUME CoordinationTypeOK, clock' \in Nat, clock' >= clock,
         NEW s \in Agents, claimRows'[s].until = claimRows[s].until,
         \A d \in ClaimCalls : claimCall'[d].at = "begun"
                                 => claimCall'[d] = claimCall[d] \/ claimCall'[d].pruned = clock,
         GoesOn(s)'
  PROVE  GoesOn(s)
<1>1. clock \in Nat /\ claimRows[s].until \in Nat
  BY EndsFit, CoordinationAssumption DEF CoordinationTypeOK
<1>2. CASE claimRows'[s].until > clock'
  BY <1>1, <1>2 DEF GoesOn
<1>3. ASSUME NEW d \in ClaimCalls, AgentOf[d] = s, claimCall'[d].op = "claim",
             claimCall'[d].at = "begun", claimCall'[d].pruned < claimRows'[s].until
      PROVE  GoesOn(s)
  BY <1>1, <1>3 DEF GoesOn
<1> QED BY <1>2, <1>3 DEF GoesOn

(* The row of a session in a step that does not extend it: it is gone, or keeps its end
   and no file comes to it. *)
RowStays(s) ==
  \/ claimRows'[s].paths = {}
  \/ /\ claimRows'[s].until = claimRows[s].until
     /\ claimRows'[s].paths \subseteq claimRows[s].paths

LEMMA RowsStay ==
  ASSUME CoordinationTypeOK, [CoordinationNext]_coordVars, NEW s \in Agents,
         \A c \in ClaimCalls : Claim(c) => AgentOf[c] # s
  PROVE  RowStays(s)
<1>1. ASSUME NEW c \in ClaimCalls, claimRows'[s] = RowsSeen(c)[s] PROVE RowStays(s)
  BY <1>1, LiveRowsType DEF RowStays, NoClaim
<1>2. ASSUME NEW c \in ClaimCalls, Claim(c) PROVE RowStays(s)
  <2>1. claimRows'[s] = RowsSeen(c)[s]
    BY <1>2, LiveRowsType DEF Claim
  <2> QED BY <1>1, <2>1
<1>3. ASSUME NEW c \in ClaimCalls, Release(c) PROVE RowStays(s)
  <2> DEFINE left == RowsSeen(c)[s].paths \ claimCall[c].paths
  <2>1. CASE AgentOf[c] # s
    <3>1. claimRows'[s] = RowsSeen(c)[s]
      BY <1>3, <2>1, LiveRowsType DEF Release
    <3> QED BY <1>1, <3>1
  <2>2. CASE AgentOf[c] = s
    <3>1. claimRows'[s] = IF left = {} THEN NoClaim ELSE [RowsSeen(c)[s] EXCEPT !.paths = left]
      BY <1>3, <2>2, LiveRowsType DEF Release
    <3>2. \/ claimRows'[s].paths = {}
          \/ /\ claimRows'[s].until = RowsSeen(c)[s].until
             /\ claimRows'[s].paths = left /\ left # {}
      BY <3>1, LiveRowsType DEF NoClaim
    <3>3. left # {} => RowsSeen(c)[s] = claimRows[s]
      BY LiveRowsType DEF NoClaim
    <3> QED BY <3>2, <3>3 DEF RowStays
  <2> QED BY <2>1, <2>2
<1>4. ASSUME NEW c \in ClaimCalls, RegisterWork(c) \/ QueryClaims(c) PROVE RowStays(s)
  BY <1>1, <1>4 DEF RegisterWork, QueryClaims
<1>5. ASSUME UNCHANGED claimRows PROVE RowStays(s)
  BY <1>5 DEF RowStays
<1>6. ASSUME NEW c \in ClaimCalls,
             StartClaimCall(c) \/ Begin(c) \/ Unavailable(c) \/ QueryAgents(c)
      PROVE  RowStays(s)
  BY <1>5, <1>6 DEF StartClaimCall, Begin, Unavailable, QueryAgents
<1>7. CASE Tick \/ UNCHANGED coordVars
  BY <1>5, <1>7 DEF Tick, coordVars
<1> QED BY <1>2, <1>3, <1>4, <1>6, <1>7 DEF CoordinationNext, ClaimsAtRest

(* What a step does to the clock, to the calls that wait, and to the history. *)
LEMMA CallsEnd ==
  ASSUME CoordinationTypeOK, [CoordinationNext]_coordVars
  PROVE  /\ clock' \in Nat /\ clock' >= clock
         /\ \A d \in ClaimCalls : claimCall'[d].at = "begun"
              => claimCall'[d] = claimCall[d] \/ claimCall'[d].pruned = clock
<1>1. clock \in Nat /\ (clock' = clock \/ clock' = clock + 1)
  <2>1. clock \in Nat
    BY CoordinationAssumption DEF CoordinationTypeOK
  <2>2. ASSUME NEW c \in ClaimCalls,
               \/ StartClaimCall(c) \/ Begin(c) \/ Unavailable(c) \/ Claim(c) \/ Release(c)
               \/ RegisterWork(c) \/ QueryAgents(c) \/ QueryClaims(c)
        PROVE  clock' = clock
    BY <2>2 DEF StartClaimCall, Begin, Unavailable, Claim, Release, RegisterWork, QueryAgents,
                QueryClaims
  <2>3. Tick => clock' = clock + 1
    BY DEF Tick
  <2> QED BY <2>1, <2>2, <2>3 DEF CoordinationNext, ClaimsAtRest, coordVars
<1>2. ASSUME NEW c \in ClaimCalls, StartClaimCall(c), NEW d \in ClaimCalls,
             claimCall'[d].at = "begun"
      PROVE  claimCall'[d] = claimCall[d]
  BY <1>2, StartsCall DEF CoordinationTypeOK
<1>3. ASSUME NEW c \in ClaimCalls, Begin(c), NEW d \in ClaimCalls
      PROVE  claimCall'[d] = claimCall[d] \/ claimCall'[d].pruned = clock
  BY <1>3 DEF Begin, CoordinationTypeOK, CoordCalls
<1>4. ASSUME NEW c \in ClaimCalls, Done(c), NEW d \in ClaimCalls, claimCall'[d].at = "begun"
      PROVE  claimCall'[d] = claimCall[d]
  BY <1>4 DEF Done, NoCall, CoordinationTypeOK
<1>5. ASSUME NEW c \in ClaimCalls, QueryAgents(c), NEW d \in ClaimCalls,
             claimCall'[d].at = "begun"
      PROVE  claimCall'[d] = claimCall[d]
  BY <1>5 DEF QueryAgents, CoordinationTypeOK, CoordCalls
<1>6. CASE Tick \/ UNCHANGED coordVars
  BY <1>1, <1>6 DEF Tick, coordVars
<1>7. ASSUME NEW c \in ClaimCalls,
             Unavailable(c) \/ Claim(c) \/ Release(c) \/ RegisterWork(c) \/ QueryClaims(c)
      PROVE  Done(c)
  BY <1>7 DEF Unavailable, Claim, Release, RegisterWork, QueryClaims
<1> QED BY <1>1, <1>2, <1>3, <1>4, <1>5, <1>6, <1>7 DEF CoordinationNext, ClaimsAtRest
-----------------------------------------------------------------------------
(* What a session that did not just claim remembers: all that it held and was told of,
   less the files of its release, as long as its claim goes on. *)
LEMMA HistoryStays ==
  ASSUME CoordinationTypeOK, [CoordinationNext]_coordVars, NEW s \in Agents,
         \A c \in ClaimCalls : Claim(c) => AgentOf[c] # s
  PROVE  \E gone \in SUBSET ClaimedFiles :
           /\ claimRows'[s].paths \cap gone = {}
           /\ GoesOn(s)' => held[s] \ gone \subseteq held'[s]
           /\ claimRows'[s].until > clock' => {o \in told[s] : o[2] \notin gone} \subseteq told'[s]
<1> DEFINE Goal == \E gone \in SUBSET ClaimedFiles :
             /\ claimRows'[s].paths \cap gone = {}
             /\ GoesOn(s)' => held[s] \ gone \subseteq held'[s]
             /\ claimRows'[s].until > clock' => {o \in told[s] : o[2] \notin gone} \subseteq told'[s]
<1>1. ASSUME GoesOn(s)' => held[s] \subseteq held'[s],
             claimRows'[s].until > clock' => told[s] \subseteq told'[s]
      PROVE  Goal
  <2>1. {} \in SUBSET ClaimedFiles
    OBVIOUS
  <2> QED BY <1>1, <2>1
<1>2. ASSUME UNCHANGED <<held, told>> PROVE Goal
  BY <1>1, <1>2
<1>3. ASSUME NEW files, NEW claims, Remember(files, claims), files[s] = held[s], claims[s] = told[s]
      PROVE  Goal
  BY <1>1, <1>3 DEF Remember
<1>4. ASSUME NEW c \in ClaimCalls, Claim(c) PROVE Goal
  <2>1. AgentOf[c] # s
    BY <1>4
  <2>2. /\ [held EXCEPT ![AgentOf[c]] = @ \cup claimCall[c].paths][s] = held[s]
        /\ [told EXCEPT ![AgentOf[c]] = @ \cup Overlaps(AgentOf[c], claimRows')][s] = told[s]
    BY <2>1 DEF CoordinationTypeOK
  <2> HIDE DEF Goal
  <2> QED BY <1>3, <1>4, <2>2 DEF Claim
<1>5. ASSUME NEW c \in ClaimCalls, Release(c) PROVE Goal
  <2>1. Remember([held EXCEPT ![AgentOf[c]] = @ \ claimCall[c].paths],
                 [told EXCEPT ![AgentOf[c]] = {o \in @ : o[2] \notin claimCall[c].paths}])
    BY <1>5 DEF Release
  <2>2. CASE AgentOf[c] # s
    <3>1. /\ [held EXCEPT ![AgentOf[c]] = @ \ claimCall[c].paths][s] = held[s]
          /\ [told EXCEPT ![AgentOf[c]] = {o \in @ : o[2] \notin claimCall[c].paths}][s] = told[s]
      BY <2>2 DEF CoordinationTypeOK
    <3> HIDE DEF Goal
    <3> QED BY <1>3, <2>1, <3>1
  <2>3. CASE AgentOf[c] = s
    <3> DEFINE left == RowsSeen(c)[s].paths \ claimCall[c].paths
    <3>1. claimRows'[s] = IF left = {} THEN NoClaim ELSE [RowsSeen(c)[s] EXCEPT !.paths = left]
      BY <1>5, <2>3, LiveRowsType DEF Release
    <3>2. claimRows'[s].paths \cap claimCall[c].paths = {}
      BY <3>1, LiveRowsType DEF NoClaim
    <3>3. claimCall[c].paths \in SUBSET ClaimedFiles
      BY DEF CoordinationTypeOK, CoordCalls
    <3>4. /\ GoesOn(s)' => held[s] \ claimCall[c].paths \subseteq held'[s]
          /\ claimRows'[s].until > clock'
               => {o \in told[s] : o[2] \notin claimCall[c].paths} \subseteq told'[s]
      BY <2>1, <2>3 DEF Remember, CoordinationTypeOK
    <3> QED BY <3>2, <3>3, <3>4
  <2> QED BY <2>2, <2>3
<1>6. ASSUME NEW c \in ClaimCalls, StartClaimCall(c) \/ QueryAgents(c) PROVE Goal
  <2> HIDE DEF Goal
  <2> QED BY <1>2, <1>6 DEF StartClaimCall, QueryAgents
<1>7. ASSUME NEW c \in ClaimCalls, Begin(c) \/ Unavailable(c) \/ RegisterWork(c) \/ QueryClaims(c)
      PROVE Goal
  <2> HIDE DEF Goal
  <2> QED BY <1>3, <1>7 DEF Begin, Unavailable, RegisterWork, QueryClaims
<1>8. ASSUME Tick \/ UNCHANGED coordVars PROVE Goal
  <2> HIDE DEF Goal
  <2> QED BY <1>2, <1>3, <1>8 DEF Tick, coordVars
<1> HIDE DEF Goal
<1>9. Goal
  BY <1>2, <1>4, <1>5, <1>6, <1>7, <1>8 DEF CoordinationNext, ClaimsAtRest, coordVars
<1> QED BY <1>9 DEF Goal

(* A claim that joins files to a row joins them to those of a claim it saw going on. *)
LEMMA ClaimJoinsHeld ==
  ASSUME CoordinationInv, NEW c \in ClaimCalls, Claim(c)
  PROVE  GoesOn(AgentOf[c])' => claimRows'[AgentOf[c]].paths \subseteq held'[AgentOf[c]]
<1> DEFINE s == AgentOf[c]
<1>1. s \in Agents /\ CoordinationTypeOK
  BY CoordinationAssumption DEF CoordinationInv
<1>2. RowsSeen(c)[s].paths \subseteq held[s]
  <2>1. CASE RowsSeen(c)[s] = NoClaim
    BY <2>1 DEF NoClaim
  <2>2. CASE RowsSeen(c)[s] = claimRows[s] /\ claimRows[s].until > claimCall[c].pruned
    <3>1. claimCall[c].pruned \in Nat /\ claimRows[s].until \in Nat
      BY <1>1, EndsFit, CoordinationAssumption DEF CoordinationTypeOK, CoordCalls
    <3>2. GoesOn(s)
      BY <2>2, <3>1 DEF GoesOn, Claim, Begun
    <3> QED BY <1>1, <2>2, <3>2 DEF CoordinationInv, RowsAreHeld
  <2> QED BY <1>1, <2>1, <2>2, LiveRowsType
<1>3. claimRows'[s].paths = RowsSeen(c)[s].paths \cup claimCall[c].paths
  BY <1>1, LiveRowsType DEF Claim, Merged
<1>4. GoesOn(s)' => held'[s] = held[s] \cup claimCall[c].paths
  BY <1>1 DEF Claim, Remember, CoordinationTypeOK
<1> QED BY <1>2, <1>3, <1>4

LEMMA CoordinationInvInductive ==
  CoordinationInv /\ [CoordinationNext]_coordVars => CoordinationInv'
<1> SUFFICES ASSUME CoordinationInv, [CoordinationNext]_coordVars
             PROVE  RowsAreHeld'
  BY CoordinationNextType, ClocksStayPast DEF CoordinationInv
<1>1. CoordinationTypeOK
  BY DEF CoordinationInv
<1>2. SUFFICES ASSUME NEW s \in Agents, GoesOn(s)'
               PROVE  claimRows'[s].paths \subseteq held'[s]
  BY DEF RowsAreHeld
<1>3. CASE \E c \in ClaimCalls : Claim(c) /\ AgentOf[c] = s
  BY <1>2, <1>3, ClaimJoinsHeld
<1>4. CASE \A c \in ClaimCalls : Claim(c) => AgentOf[c] # s
  <2>1. PICK gone \in SUBSET ClaimedFiles :
          claimRows'[s].paths \cap gone = {} /\ held[s] \ gone \subseteq held'[s]
    BY <1>1, <1>2, <1>4, HistoryStays
  <2>2. CASE claimRows'[s].paths = {}
    BY <2>2
  <2>3. CASE /\ claimRows'[s].until = claimRows[s].until
             /\ claimRows'[s].paths \subseteq claimRows[s].paths
    <3>1. GoesOn(s)
      BY <1>1, <1>2, <2>3, CallsEnd, WentOn
    <3>2. claimRows[s].paths \subseteq held[s]
      BY <3>1 DEF CoordinationInv, RowsAreHeld
    <3> QED BY <2>1, <2>3, <3>2
  <2> QED BY <1>1, <1>4, <2>2, <2>3, RowsStay DEF RowStays
<1> QED BY <1>3, <1>4

(* A claim that has ended stays ended, unless a claim of its session read the clock to
   prune by before that end: any other prunes the row before it reads it, so the files it
   joins to its own are those of a claim still going on. *)
THEOREM EndedStayEnded == CoordinationSpec => []EndedClaimsStayEnded
<1>1. CoordinationInv => EndedClaimsStayEnded
  BY DEF CoordinationInv, RowsAreHeld, GoesOn, EndedClaimsStayEnded, Holding
<1> QED BY <1>1, CoordinationInitInv, CoordinationInvInductive, PTL DEF CoordinationSpec
-----------------------------------------------------------------------------
(* A session that did not just claim holds no file it did not hold, and remembers what it
   was told of those it holds. *)
LEMMA HoldersRemember ==
  ASSUME CoordinationTypeOK, [CoordinationNext]_coordVars, NEW s \in Agents,
         \A c \in ClaimCalls : Claim(c) => AgentOf[c] # s,
         NEW f, f \in Holding(s, claimRows)'
  PROVE  /\ f \in Holding(s, claimRows)
         /\ \A v : <<v, f>> \in told[s] => <<v, f>> \in told'[s]
<1>1. claimRows'[s].until > clock' /\ f \in claimRows'[s].paths
  BY DEF Holding
<1>2. claimRows'[s].until = claimRows[s].until /\ claimRows'[s].paths \subseteq claimRows[s].paths
  BY <1>1, RowsStay DEF RowStays
<1>3. /\ clock \in Nat /\ clock' \in Nat /\ clock' >= clock
      /\ claimRows[s].until \in Nat
  BY CallsEnd, EndsFit, CoordinationAssumption DEF CoordinationTypeOK
<1>4. f \in Holding(s, claimRows)
  BY <1>1, <1>2, <1>3 DEF Holding
<1>5. PICK gone \in SUBSET ClaimedFiles :
        /\ claimRows'[s].paths \cap gone = {}
        /\ {o \in told[s] : o[2] \notin gone} \subseteq told'[s]
  BY <1>1, HistoryStays
<1>6. ASSUME NEW v, <<v, f>> \in told[s] PROVE <<v, f>> \in told'[s]
  BY <1>1, <1>5, <1>6
<1> QED BY <1>4, <1>6

(* A claim is told of every claim of others on the files its session then holds. *)
LEMMA ClaimantIsTold ==
  ASSUME CoordinationTypeOK, CoordinationTypeOK', NEW c \in ClaimCalls, Claim(c),
         NEW u \in Agents \ {AgentOf[c]}, NEW f,
         f \in Holding(AgentOf[c], claimRows)', f \in Holding(u, claimRows)'
  PROVE  <<u, f>> \in told'[AgentOf[c]]
<1> DEFINE s == AgentOf[c]
<1>1. s \in Agents /\ clock' = clock
  BY CoordinationAssumption DEF Claim
<1>2. /\ claimRows'[s].until > clock' /\ f \in claimRows'[s].paths
      /\ claimRows'[u].until > clock' /\ f \in claimRows'[u].paths
  BY DEF Holding
<1>3. f \in ClaimedFiles
  BY <1>1, <1>2 DEF CoordinationTypeOK
<1>4. <<u, f>> \in Overlaps(s, claimRows')
  BY <1>1, <1>2, <1>3 DEF Overlaps
<1>5. told'[s] = told[s] \cup Overlaps(s, claimRows')
  BY <1>1, <1>2 DEF Claim, Remember, CoordinationTypeOK
<1> QED BY <1>4, <1>5

(* Of two sessions that hold a file together, the later claimant was told: its own
   transaction, the only one that adds to what it holds, also reads, by a clock read after
   its wait, every claim of others that goes on. *)
THEOREM SecondClaimantTold == CoordinationSpec => []SecondClaimantIsTold
<1>1. CoordinationInit => SecondClaimantIsTold
  BY DEF CoordinationInit, SecondClaimantIsTold, Holding, NoClaim
<1>2. CoordinationTypeOK /\ SecondClaimantIsTold /\ [CoordinationNext]_coordVars
        => SecondClaimantIsTold'
  <2> SUFFICES ASSUME CoordinationTypeOK, SecondClaimantIsTold, [CoordinationNext]_coordVars,
                      NEW s \in Agents, NEW u \in Agents, s # u,
                      NEW f, f \in Holding(s, claimRows)', f \in Holding(u, claimRows)'
               PROVE  <<u, f>> \in told'[s] \/ <<s, f>> \in told'[u]
    BY DEF SecondClaimantIsTold, Holding
  <2>1. CoordinationTypeOK'
    BY CoordinationNextType
  <2>2. CASE \E c \in ClaimCalls : Claim(c) /\ AgentOf[c] \in {s, u}
    BY <2>1, <2>2, ClaimantIsTold
  <2>3. CASE \A c \in ClaimCalls : Claim(c) => AgentOf[c] \notin {s, u}
    <3>1. <<u, f>> \in told[s] \/ <<s, f>> \in told[u]
      BY <2>3, HoldersRemember DEF SecondClaimantIsTold
    <3> QED BY <2>3, <3>1, HoldersRemember
  <2> QED BY <2>2, <2>3
<1> QED BY <1>1, <1>2, CoordinationTypeCorrect, PTL DEF CoordinationSpec
-----------------------------------------------------------------------------
(***************************************************************************)
(* The session with a language server (LspSession).                        *)
(***************************************************************************)
(* The inductive invariant.                                                *)

IsTextOf(m, d) == m.kind = "text" /\ m.doc = d
Told(q, d) == {i \in 1..Len(q) : IsTextOf(q[i], d)}

(* A server that has texts, and reads q, comes to hold docs: the last text it is sent of
   a document is the one noted, and where none is on its way it has it. *)
ComesToHold(q, texts, docs) ==
  \A d \in Docs :
    /\ Told(q, d) = {} => texts[d] = docs[d]
    /\ \A i \in Told(q, d) : (\A j \in Told(q, d) : j <= i) => q[i].text = docs[d]

NotesCatchUp ==
  client.present /\ server.alive => ComesToHold(toServer, server.texts, client.documents)

(* The files can still be changed as often as is left. *)
TextsFit == \A d \in Docs : text[d] + lspLeft.texts <= MaxTexts + 1

AtWork == {"prepare", "imports", "ask", "await", "push"}

SessionAtWork == query.at \in AtWork => client.present

(* No two requests of a session have one id: the next one is newer than all in the pipes. *)
OlderIds(q, id) == \A i \in 1..Len(q) : q[i].id < id

IdsInUse ==
  client.present =>
    /\ client.nextId >= 2
    /\ OlderIds(toServer, client.nextId) /\ OlderIds(toClient, client.nextId)
    /\ \A r \in server.asked : r.id < client.nextId

TextIsNoted ==
  query.at \in {"imports", "ask", "await"} => client.documents[query.doc] = query.text

(* The request a call awaits is the last thing sent about its document, and it is answered,
   if at all, from the text that was noted. *)
RequestIsLast(q) ==
  \A i \in 1..Len(q) :
    q[i].kind # "text" /\ q[i].id = query.id =>
      q[i].doc = query.doc /\ \A j \in i..Len(q) : ~IsTextOf(q[j], query.doc)

AnswerIsComing ==
  query.at = "await" =>
    /\ query.id >= 2
    /\ server.alive =>
         /\ RequestIsLast(toServer)
         /\ \A r \in server.asked : r.id = query.id =>
              /\ r.doc = query.doc /\ server.texts[query.doc] = query.text
              /\ Told(toServer, query.doc) = {}
    /\ \A i \in 1..Len(toClient) :
         toClient[i].kind = "answer" /\ toClient[i].id = query.id => toClient[i].text = query.text

LspInv ==
  /\ LspTypeOK /\ TextsFit /\ SessionAtWork /\ IdsInUse /\ NotesCatchUp /\ TextIsNoted
  /\ AnswerIsComing /\ AnswersAreAboutTheTextRead
-----------------------------------------------------------------------------
(* Sequences of messages *)

LEMMA SomeOrder ==
  ASSUME NEW S, IsFiniteSet(S)
  PROVE  /\ SetToSeq(S) \in Seq(S) /\ \A e \in S : \E i \in 1..Len(SetToSeq(S)) : SetToSeq(S)[i] = e
         /\ SetToSeq(S) = <<>> <=> S = {}
<1> DEFINE n == Cardinality(S)
           f == SetToSeq(S)
<1>1. n \in Nat /\ ExistsBijection(1..n, S)
  BY FS_CardinalityType
<1>2. PICK g \in [1..n -> S] : IsInjective(g)
  BY <1>1 DEF ExistsBijection, Bijection, Injection
<1>3. f \in [1..n -> S] /\ IsInjective(f)
  <2>1. f = CHOOSE h \in [1..n -> S] : IsInjective(h)
    BY DEF SetToSeq
  <2> QED BY <1>2, <2>1
<1> HIDE DEF f
<1>4. f \in Injection(1..n, S)
  BY <1>3 DEF Injection
<1>5. IsFiniteSet(1..n) /\ Cardinality(1..n) = n
  BY <1>1, FS_Interval
<1>6. f \in Surjection(1..n, S)
  BY <1>4, <1>5, FS_Injection
<1>7. \A e \in S : \E i \in 1..n : f[i] = e
  BY <1>6 DEF Surjection
<1>8. f \in Seq(S) /\ Len(f) = n
  BY <1>1, <1>3
<1>9. f = <<>> <=> S = {}
  BY <1>7, <1>8
<1> QED BY <1>7, <1>8, <1>9 DEF f

(* Reading a message takes nothing away from what the server will hold. *)
LEMMA ReadingOne ==
  ASSUME NEW q \in Seq(Messages), q # <<>>, NEW texts \in [Docs -> Held], NEW docs \in [Docs -> Held],
         ComesToHold(q, texts, docs)
  PROVE  LET m == Head(q)
         IN ComesToHold(Tail(q), IF m.kind = "text" THEN [texts EXCEPT ![m.doc] = m.text] ELSE texts,
                        docs)
<1> DEFINE m == Head(q)
           rest == Tail(q)
           has == IF m.kind = "text" THEN [texts EXCEPT ![m.doc] = m.text] ELSE texts
<1>1. /\ m \in Messages /\ rest \in Seq(Messages) /\ Len(rest) = Len(q) - 1 /\ m = q[1]
      /\ Len(q) \in Nat \ {0} /\ \A i \in 1..Len(rest) : rest[i] = q[i + 1]
  BY HeadTailProperties, EmptySeq
<1> HIDE DEF m, rest
<1>2. ASSUME NEW d \in Docs
      PROVE  \A i \in 1..Len(q) : i \in Told(q, d) <=> (i = 1 /\ IsTextOf(m, d)) \/ i - 1 \in Told(rest, d)
  <2> SUFFICES ASSUME NEW i \in 1..Len(q)
               PROVE  i \in Told(q, d) <=> (i = 1 /\ IsTextOf(m, d)) \/ i - 1 \in Told(rest, d)
    OBVIOUS
  <2>1. CASE i = 1
    BY <1>1, <2>1 DEF Told
  <2>2. CASE i # 1
    <3>1. i - 1 \in 1..Len(rest) /\ rest[i - 1] = q[i]
      BY <1>1, <2>2
    <3> QED BY <2>2, <3>1 DEF Told
  <2> QED BY <2>1, <2>2
<1>3. ASSUME NEW d \in Docs
      PROVE  \A i \in Told(rest, d) : i + 1 \in Told(q, d) /\ i \in 1..Len(rest) /\ q[i + 1] = rest[i]
  BY <1>1, <1>2 DEF Told
<1>4. has \in [Docs -> Held]
  BY <1>1 DEF Messages
<1>5. ASSUME NEW d \in Docs, Told(rest, d) = {}
      PROVE  has[d] = docs[d]
  <2>1. CASE IsTextOf(m, d)
    <3>1. 1 \in Told(q, d)
      BY <1>1, <2>1 DEF Told
    <3>2. \A i \in Told(q, d) : i \in 1..Len(q) /\ i = 1
      BY <1>2, <1>5 DEF Told
    <3>3. q[1].text = docs[d]
      BY <3>1, <3>2 DEF ComesToHold
    <3> QED BY <1>1, <2>1, <3>3 DEF IsTextOf
  <2>2. CASE ~IsTextOf(m, d)
    <3>1. Told(q, d) = {}
      BY <1>1, <1>2, <1>5, <2>2 DEF Told
    <3>2. texts[d] = docs[d]
      BY <3>1 DEF ComesToHold
    <3> QED BY <1>1, <2>2, <3>2 DEF IsTextOf, Messages
  <2> QED BY <2>1, <2>2
<1>6. ASSUME NEW d \in Docs, NEW i \in Told(rest, d), \A j \in Told(rest, d) : j <= i
      PROVE  rest[i].text = docs[d]
  <2>1. i + 1 \in Told(q, d) /\ i \in 1..Len(rest) /\ q[i + 1] = rest[i]
    BY <1>3
  <2>2. ASSUME NEW j \in Told(q, d) PROVE j <= i + 1
    <3>1. j \in 1..Len(q) /\ (j = 1 \/ j - 1 \in Told(rest, d))
      BY <1>2 DEF Told
    <3> QED BY <1>1, <1>6, <2>1, <3>1
  <2> QED BY <2>1, <2>2 DEF ComesToHold
<1>7. ComesToHold(rest, has, docs)
  BY <1>5, <1>6 DEF ComesToHold
<1> QED BY <1>7 DEF m, rest

(* Sending the texts that are newly noted, or a request, brings it to hold the new notes. *)
LEMMA SendingSome ==
  ASSUME NEW q \in Seq(Messages), NEW more \in Seq(Messages), NEW texts,
         NEW docs, NEW noted, ComesToHold(q, texts, docs),
         \A d \in Docs : IF Told(more, d) = {} THEN noted[d] = docs[d]
                         ELSE \A i \in Told(more, d) : more[i].text = noted[d]
  PROVE  ComesToHold(q \o more, texts, noted)
<1> DEFINE all == q \o more
<1>1. /\ all \in Seq(Messages) /\ Len(all) = Len(q) + Len(more)
      /\ Len(q) \in Nat /\ Len(more) \in Nat
      /\ \A i \in 1..Len(q) + Len(more) : all[i] = IF i <= Len(q) THEN q[i] ELSE more[i - Len(q)]
  BY ConcatProperties, LenProperties
<1> HIDE DEF all
<1>2. ASSUME NEW d \in Docs
      PROVE  /\ \A i \in Told(q, d) : i \in Told(all, d) /\ all[i] = q[i] /\ i \in 1..Len(q)
             /\ \A i \in Told(more, d) : i + Len(q) \in Told(all, d) /\ i \in 1..Len(more)
             /\ \A i \in Told(all, d) :
                  \/ i \in Told(q, d)
                  \/ i - Len(q) \in Told(more, d) /\ all[i] = more[i - Len(q)]
  <2>1. ASSUME NEW i \in Told(q, d)
        PROVE  i \in Told(all, d) /\ all[i] = q[i] /\ i \in 1..Len(q)
    BY <1>1 DEF Told
  <2>2. ASSUME NEW i \in Told(more, d)
        PROVE  i + Len(q) \in Told(all, d) /\ i \in 1..Len(more)
    <3>1. i \in 1..Len(more) /\ IsTextOf(more[i], d)
      BY DEF Told
    <3>2. i + Len(q) \in 1..Len(all) /\ ~(i + Len(q) <= Len(q)) /\ (i + Len(q)) - Len(q) = i
      BY <1>1, <3>1
    <3>3. all[i + Len(q)] = more[i]
      BY <1>1, <3>2
    <3> QED BY <3>1, <3>2, <3>3 DEF Told
  <2>3. ASSUME NEW i \in Told(all, d)
        PROVE  \/ i \in Told(q, d)
               \/ i - Len(q) \in Told(more, d) /\ all[i] = more[i - Len(q)]
    <3>1. i \in 1..Len(all) /\ IsTextOf(all[i], d)
      BY DEF Told
    <3>2. CASE i <= Len(q)
      BY <1>1, <3>1, <3>2 DEF Told
    <3>3. CASE ~(i <= Len(q))
      <4>1. i - Len(q) \in 1..Len(more) /\ all[i] = more[i - Len(q)]
        BY <1>1, <3>1, <3>3
      <4> QED BY <3>1, <4>1 DEF Told
    <3> QED BY <3>2, <3>3
  <2> QED BY <2>1, <2>2, <2>3
<1>3. ASSUME NEW d \in Docs, Told(all, d) = {}
      PROVE  texts[d] = noted[d]
  BY <1>2, <1>3 DEF ComesToHold
<1>4. ASSUME NEW d \in Docs, NEW i \in Told(all, d), \A j \in Told(all, d) : j <= i
      PROVE  all[i].text = noted[d]
  <2>1. CASE Told(more, d) = {}
    <3>1. i \in Told(q, d) /\ all[i] = q[i]
      BY <1>2, <2>1
    <3>2. \A j \in Told(q, d) : j <= i
      BY <1>2, <1>4
    <3> QED BY <2>1, <3>1, <3>2 DEF ComesToHold
  <2>2. CASE Told(more, d) # {}
    <3>1. PICK j \in Told(more, d) : TRUE
      BY <2>2
    <3>2. j + Len(q) <= i /\ j \in 1..Len(more)
      BY <1>2, <1>4, <3>1
    <3>3. i \notin Told(q, d)
      <4>1. i \in 1..Len(all)
        BY DEF Told
      <4> QED BY <1>1, <1>2, <3>2, <4>1
    <3>4. i - Len(q) \in Told(more, d) /\ all[i] = more[i - Len(q)]
      BY <1>2, <3>3
    <3> QED BY <2>2, <3>4
  <2> QED BY <2>1, <2>2
<1>5. ComesToHold(all, texts, noted)
  BY <1>3, <1>4 DEF ComesToHold
<1> QED BY <1>5 DEF all
-----------------------------------------------------------------------------
(* Values, and what is the same for many actions *)

LEMMA LspValues ==
  /\ NoClient \in Clients /\ ~NoClient.present
  /\ NoServer \in ServerStates /\ ~NoServer.alive /\ NoServer.asked = {}
  /\ \A d \in Docs : NoServer.texts[d] = Closed
  /\ NoQuery \in Queries /\ NoQuery.at = "idle"
  /\ Closed \in Held /\ Versions \subseteq Held
<1>1. (CHOOSE d \in Docs : TRUE) \in Docs
  BY LspAssumption
<1>2. Closed \in Held /\ Versions \subseteq Held
  BY DEF Held
<1> QED BY <1>1, <1>2 DEF NoClient, Clients, NoServer, ServerStates, NoQuery, Queries, QuerySteps, QueryKinds

LEMMA FreshValues ==
  /\ FreshClient \in Clients /\ FreshClient.present /\ FreshClient.nextId = 2
  /\ \A d \in Docs : FreshClient.documents[d] = Closed
  /\ \A p \in BOOLEAN :
       LET s == [NoServer EXCEPT !.alive = TRUE, !.pulls = p]
       IN s \in ServerStates /\ s.texts = NoServer.texts /\ s.asked = {}
BY LspValues DEF FreshClient, NoClient, Clients, ServerStates, NoServer

LEMMA SpendType ==
  ASSUME LspTypeOK, NEW what \in {"calls", "texts", "faults", "publishes"}, SpendLsp(what)
  PROVE  /\ lspLeft' \in [calls : Nat, texts : Nat, faults : Nat, publishes : Nat]
         /\ what # "texts" => lspLeft'.texts = lspLeft.texts
         /\ what = "texts" => lspLeft'.texts = lspLeft.texts - 1
BY DEF LspTypeOK, SpendLsp

LEMMA EndType ==
  ASSUME LspTypeOK, NEW at \in QuerySteps, EndQuery(at)
  PROVE  /\ query' \in Queries /\ query'.at = at /\ query'.doc = query.doc /\ query'.id = query.id
         /\ query'.text = query.text
BY DEF LspTypeOK, EndQuery, Queries

(* A call that is over, or has nothing of a session yet, has nothing to be said of. *)
LEMMA OutOfWork ==
  ASSUME query'.at \in {"idle", "ensure", "failed"}
  PROVE  SessionAtWork' /\ TextIsNoted' /\ AnswerIsComing' /\ AnswersAreAboutTheTextRead'
BY DEF SessionAtWork, TextIsNoted, AnswerIsComing, AnswersAreAboutTheTextRead, AtWork

LEMMA PipesAlike ==
  ASSUME LspInv, UNCHANGED <<client, server, toServer, toClient>>
  PROVE  IdsInUse' /\ NotesCatchUp'
BY DEF LspInv, IdsInUse, NotesCatchUp, OlderIds, ComesToHold, Told, IsTextOf

LEMMA TextsAlike ==
  ASSUME LspInv, UNCHANGED text, lspLeft'.texts = lspLeft.texts
  PROVE  TextsFit'
BY DEF LspInv, TextsFit

(* Nothing is kept of the session. *)
LEMMA NothingKept ==
  ASSUME LspInv, client' = NoClient, toServer' = <<>>, toClient' = <<>>
  PROVE  IdsInUse' /\ NotesCatchUp'
BY LspValues DEF IdsInUse, NotesCatchUp

LEMMA EmptyPipes ==
  /\ <<>> \in Seq(Messages)
  /\ \A id : OlderIds(<<>>, id)
  /\ \A d : Told(<<>>, d) = {}
  /\ 1..Len(<<>>) = {}
BY EmptySeq DEF OlderIds, Told

(* The end of a session in the middle of a call. *)
LEMMA TransportOutcome ==
  ASSUME LspTypeOK, NEW noted, TransportFails(noted)
  PROVE  /\ query' \in Queries /\ query'.at \in {"ensure", "failed"}
         /\ \/ /\ client' = NoClient /\ server' = NoServer
               /\ toServer' = <<>> /\ toClient' = <<>>
            \/ client' = noted /\ UNCHANGED <<server, toServer, toClient>>
<1>1. CASE query.kind = "diagnostics" /\ ~query.retried
  BY <1>1 DEF TransportFails, LspTypeOK, Queries, QuerySteps
<1>2. CASE ~(query.kind = "diagnostics" /\ ~query.retried)
  <2>1. EndQuery("failed") /\ client' = noted /\ UNCHANGED <<server, toServer, toClient>>
    BY <1>2 DEF TransportFails
  <2> QED BY <2>1, EndType DEF QuerySteps
<1> QED BY <1>1, <1>2

(* A failed call leaves notes that no living server contradicts. *)
LEMMA TransportKeeps ==
  ASSUME LspInv, NEW noted \in Clients, TransportFails(noted), UNCHANGED <<text, lspLeft>>,
         \/ noted = client
         \/ noted.present => ~server.alive /\ client.present /\ noted.nextId >= client.nextId
  PROVE  LspInv'
<1>1. LspTypeOK
  BY DEF LspInv
<1>2. /\ query' \in Queries /\ query'.at \in {"ensure", "failed"}
      /\ \/ /\ client' = NoClient /\ server' = NoServer
            /\ toServer' = <<>> /\ toClient' = <<>>
         \/ client' = noted /\ UNCHANGED <<server, toServer, toClient>>
  BY <1>1, TransportOutcome
<1>3. LspTypeOK'
  BY <1>1, <1>2, LspValues, EmptyPipes DEF LspTypeOK
<1>4. SessionAtWork' /\ TextIsNoted' /\ AnswerIsComing' /\ AnswersAreAboutTheTextRead'
  BY <1>2, OutOfWork
<1>5. TextsFit'
  BY TextsAlike
<1>6. IdsInUse' /\ NotesCatchUp'
  <2>1. CASE client' = NoClient /\ toServer' = <<>> /\ toClient' = <<>>
    BY <2>1, NothingKept
  <2>2. CASE client' = client /\ UNCHANGED <<server, toServer, toClient>>
    BY <2>2, PipesAlike
  <2>3. CASE /\ client' = noted /\ UNCHANGED <<server, toServer, toClient>>
             /\ noted.present => /\ ~server.alive /\ client.present
                                 /\ noted.nextId >= client.nextId
    <3>1. NotesCatchUp'
      BY <2>3 DEF NotesCatchUp
    <3>2. ASSUME noted.present
          PROVE  /\ noted.nextId >= 2
                 /\ OlderIds(toServer, noted.nextId) /\ OlderIds(toClient, noted.nextId)
                 /\ \A r \in server.asked : r.id < noted.nextId
      <4> DEFINE n == client.nextId
                 m == noted.nextId
      <4>1. /\ n >= 2 /\ OlderIds(toServer, n) /\ OlderIds(toClient, n)
            /\ \A r \in server.asked : r.id < n
        BY <2>3, <3>2 DEF LspInv, IdsInUse
      <4>2. n \in Nat /\ m \in Nat /\ m >= n
        <5>1. client.nextId \in Nat /\ noted.nextId \in Nat
          BY <1>1 DEF LspTypeOK, Clients
        <5> QED BY <2>3, <3>2, <5>1
      <4>3. /\ \A i \in 1..Len(toServer) : toServer[i].id \in Nat
            /\ \A i \in 1..Len(toClient) : toClient[i].id \in Nat
            /\ \A r \in server.asked : r.id \in Nat
        <5>1. \A i \in 1..Len(toServer) : toServer[i] \in Messages
          BY <1>1, ElementOfSeq DEF LspTypeOK
        <5>2. \A i \in 1..Len(toClient) : toClient[i] \in Messages
          BY <1>1, ElementOfSeq DEF LspTypeOK
        <5>3. server.asked \subseteq Messages
          BY <1>1 DEF LspTypeOK, ServerStates
        <5> QED BY <5>1, <5>2, <5>3 DEF Messages
      <4> HIDE DEF n, m
      <4>4. m >= 2 /\ OlderIds(toServer, m) /\ OlderIds(toClient, m)
        BY <4>1, <4>2, <4>3 DEF OlderIds
      <4>5. \A r \in server.asked : r.id < m
        BY <4>1, <4>2, <4>3
      <4> QED BY <4>4, <4>5 DEF m
    <3>3. IdsInUse'
      BY <2>3, <3>2 DEF IdsInUse
    <3> QED BY <3>1, <3>3
  <2> QED BY <1>2, <2>1, <2>2, <2>3
<1> QED BY <1>3, <1>4, <1>5, <1>6 DEF LspInv
-----------------------------------------------------------------------------
(* Each action keeps the invariant *)

LEMMA StartQueryKeeps ==
  ASSUME LspInv, NEW k \in QueryKinds, NEW d \in Docs, StartQuery(k, d)
  PROVE  LspInv'
<1> DEFINE at == IF k = "probe" THEN "answered" ELSE "ensure"
           new == [NoQuery EXCEPT !.at = at, !.kind = k, !.doc = d]
<1>1. LspTypeOK /\ SpendLsp("calls") /\ query' = new
      /\ UNCHANGED <<text, server, toServer, toClient>>
  BY DEF StartQuery, LspInv
<1>2. client' = client \/ (client' = NoClient /\ ~server.alive)
  BY DEF StartQuery
<1>3. new \in Queries /\ new.at = at /\ new.kind = k
  BY LspValues DEF Queries, QuerySteps
<1> HIDE DEF new
<1>4. LspTypeOK' /\ TextsFit'
  BY <1>1, <1>2, <1>3, LspValues, SpendType, TextsAlike DEF LspTypeOK
<1>5. SessionAtWork' /\ TextIsNoted' /\ AnswerIsComing' /\ AnswersAreAboutTheTextRead'
  BY <1>1, <1>3 DEF SessionAtWork, TextIsNoted, AnswerIsComing, AnswersAreAboutTheTextRead, AtWork
<1>6. IdsInUse' /\ NotesCatchUp'
  <2>1. CASE client' = client
    BY <1>1, <2>1, PipesAlike
  <2>2. CASE client' = NoClient
    BY <2>2, LspValues DEF IdsInUse, NotesCatchUp
  <2> QED BY <1>2, <2>1, <2>2
<1> QED BY <1>4, <1>5, <1>6 DEF LspInv

LEMMA ReuseSessionKeeps ==
  ASSUME LspInv, ReuseSession
  PROVE  LspInv'
<1>1. /\ LspTypeOK /\ client.present /\ EndQuery("prepare")
      /\ UNCHANGED <<text, client, server, toServer, toClient, lspLeft>>
  BY DEF ReuseSession, LspInv
<1>2. query' \in Queries /\ query'.at = "prepare"
  BY <1>1, EndType DEF QuerySteps
<1>3. LspTypeOK' /\ TextsFit'
  BY <1>1, <1>2, TextsAlike DEF LspTypeOK
<1>4. SessionAtWork' /\ TextIsNoted' /\ AnswerIsComing' /\ AnswersAreAboutTheTextRead'
  BY <1>1, <1>2 DEF SessionAtWork, TextIsNoted, AnswerIsComing, AnswersAreAboutTheTextRead
<1> QED BY <1>1, <1>3, <1>4, PipesAlike DEF LspInv

LEMMA StartSessionKeeps ==
  ASSUME LspInv, StartSession
  PROVE  LspInv'
<1>1. /\ LspTypeOK /\ EndQuery("prepare") /\ client' = FreshClient
      /\ toServer' = <<>> /\ toClient' = <<>> /\ UNCHANGED <<text, lspLeft>>
  BY DEF StartSession, LspInv
<1>2. /\ server' \in ServerStates /\ server'.texts = NoServer.texts /\ server'.asked = {}
  BY FreshValues DEF StartSession
<1>3. query' \in Queries /\ query'.at = "prepare"
  BY <1>1, EndType DEF QuerySteps
<1>4. LspTypeOK' /\ TextsFit'
  BY <1>1, <1>2, <1>3, FreshValues, EmptyPipes, TextsAlike DEF LspTypeOK
<1>5. SessionAtWork' /\ TextIsNoted' /\ AnswerIsComing' /\ AnswersAreAboutTheTextRead'
  BY <1>1, <1>3, FreshValues
  DEF SessionAtWork, TextIsNoted, AnswerIsComing, AnswersAreAboutTheTextRead
<1>6. IdsInUse'
  <2>1. OlderIds(toServer, client.nextId)' /\ OlderIds(toClient, client.nextId)'
    BY <1>1, EmptyPipes DEF OlderIds
  <2>2. client'.nextId = 2 /\ server'.asked = {}
    BY <1>1, <1>2, FreshValues
  <2>3. client'.nextId >= 2
    BY <2>2
  <2> QED BY <2>1, <2>2, <2>3 DEF IdsInUse
<1>7. NotesCatchUp'
  BY <1>1, <1>2, FreshValues, LspValues, EmptyPipes DEF NotesCatchUp, ComesToHold
<1> QED BY <1>4, <1>5, <1>6, <1>7 DEF LspInv

LEMMA EndingKeeps ==
  ASSUME LspInv, StartSessionFails \/ DropSessions
  PROVE  LspInv'
<1>1. /\ LspTypeOK /\ client' = NoClient /\ server' = NoServer
      /\ toServer' = <<>> /\ toClient' = <<>> /\ UNCHANGED text
  BY DEF StartSessionFails, DropSessions, LspInv
<1>2. query' \in Queries /\ query'.at \in {"idle", "failed"}
  <2>1. EndQuery("failed") \/ query' = NoQuery
    BY DEF StartSessionFails, DropSessions
  <2>2. "failed" \in QuerySteps
    BY DEF QuerySteps
  <2> QED BY <1>1, <2>1, <2>2, EndType, LspValues
<1>3. /\ lspLeft' \in [calls : Nat, texts : Nat, faults : Nat, publishes : Nat]
      /\ lspLeft'.texts = lspLeft.texts
  <2>1. SpendLsp("faults") \/ UNCHANGED lspLeft
    BY DEF StartSessionFails, DropSessions
  <2> QED BY <1>1, <2>1, SpendType DEF LspTypeOK
<1>4. LspTypeOK' /\ TextsFit'
  BY <1>1, <1>2, <1>3, LspValues, EmptyPipes, TextsAlike DEF LspTypeOK
<1> QED BY <1>1, <1>2, <1>4, OutOfWork, NothingKept DEF LspInv

(* The texts of ds that the server was not sent yet, in some order. *)
LEMMA NewTexts ==
  ASSUME LspTypeOK, NEW ds \in SUBSET Docs
  PROVE  LET more == SetToSeq({Message("text", d, text[d], 0) : d \in Stale(ds)})
         IN  /\ more \in Seq(Messages)
             /\ more = <<>> => Stale(ds) = {}
             /\ \A i \in 1..Len(more) : more[i].id = 0
             /\ \A d \in Docs : IF Told(more, d) = {} THEN Synced(ds).documents[d] = client.documents[d]
                                ELSE \A i \in Told(more, d) : more[i].text = Synced(ds).documents[d]
<1> DEFINE M == {Message("text", d, text[d], 0) : d \in Stale(ds)}
           more == SetToSeq(M)
<1>1. Stale(ds) \subseteq Docs /\ IsFiniteSet(Stale(ds))
  BY LspAssumption, FS_Subset DEF Stale
<1>2. IsFiniteSet(M)
  <2> DEFINE f == [d \in Stale(ds) |-> Message("text", d, text[d], 0)]
  <2>1. f \in Surjection(Stale(ds), M)
    BY DEF Surjection
  <2> QED BY <1>1, <2>1, FS_Surjection
<1>3. ASSUME NEW d \in Docs, text[d] \in Held
      PROVE  LET m == Message("text", d, text[d], 0)
             IN  m \in Messages /\ m.kind = "text" /\ m.doc = d /\ m.text = text[d] /\ m.id = 0
  BY <1>3 DEF Message, Messages
<1>4. \A d \in Docs : text[d] \in Held
  BY LspValues DEF LspTypeOK
<1>5. M \subseteq Messages /\ \A m \in M : m.id = 0
  BY <1>1, <1>3, <1>4
<1>6. /\ more \in Seq(M) /\ (more = <<>> <=> M = {})
      /\ \A m \in M : \E i \in 1..Len(more) : more[i] = m
  BY <1>2, SomeOrder
<1>7. more \in Seq(Messages) /\ \A i \in 1..Len(more) : more[i] \in M
  BY <1>5, <1>6, SeqMonotonic, ElementOfSeq
<1>8. ASSUME NEW d \in Docs
      PROVE  /\ d \in Stale(ds) => Told(more, d) # {}
             /\ \A i \in Told(more, d) : d \in Stale(ds) /\ more[i].text = text[d]
  <2>1. ASSUME d \in Stale(ds) PROVE Told(more, d) # {}
    <3>1. PICK i \in 1..Len(more) : more[i] = Message("text", d, text[d], 0)
      BY <1>6, <2>1
    <3>2. i \in Told(more, d)
      BY <1>3, <1>4, <3>1 DEF Told, IsTextOf
    <3> QED BY <3>2
  <2>2. ASSUME NEW i \in Told(more, d)
        PROVE  d \in Stale(ds) /\ more[i].text = text[d]
    <3>1. i \in 1..Len(more) /\ more[i].doc = d
      BY DEF Told, IsTextOf
    <3>2. PICK e \in Stale(ds) : more[i] = Message("text", e, text[e], 0)
      BY <1>7, <3>1
    <3> QED BY <1>1, <1>3, <1>4, <3>1, <3>2
  <2> QED BY <2>1, <2>2
<1> HIDE DEF M, more
<1>9. Synced(ds).documents = [d \in Docs |-> IF d \in ds THEN text[d] ELSE client.documents[d]]
  BY DEF Synced, LspTypeOK, Clients
<1>10. ASSUME NEW d \in Docs
       PROVE  IF Told(more, d) = {} THEN Synced(ds).documents[d] = client.documents[d]
              ELSE \A i \in Told(more, d) : more[i].text = Synced(ds).documents[d]
  BY <1>8, <1>9 DEF Stale
<1>11. more = <<>> => Stale(ds) = {}
  BY <1>6 DEF M
<1>12. \A i \in 1..Len(more) : more[i].id = 0
  BY <1>5, <1>7
<1> QED BY <1>7, <1>10, <1>11, <1>12 DEF more, M

LEMMA SyncedType ==
  ASSUME LspTypeOK, NEW ds \in SUBSET Docs
  PROVE  /\ Synced(ds) \in Clients /\ Synced(ds).present = client.present
         /\ Synced(ds).nextId = client.nextId
         /\ Synced(ds).documents = [d \in Docs |-> IF d \in ds THEN text[d] ELSE client.documents[d]]
<1> DEFINE noted == [d \in Docs |-> IF d \in ds THEN text[d] ELSE client.documents[d]]
           kept == IF Stale(ds) = {} THEN client.published ELSE [d \in Docs |-> Closed]
<1>1. noted \in [Docs -> Held] /\ kept \in [Docs -> Held]
  BY LspValues DEF LspTypeOK, Clients
<1>2. Synced(ds) = [client EXCEPT !.documents = noted, !.published = kept]
  BY DEF Synced, LspTypeOK, Clients
<1> HIDE DEF noted, kept
<1>3. /\ Synced(ds) \in Clients /\ Synced(ds).present = client.present
      /\ Synced(ds).nextId = client.nextId /\ Synced(ds).documents = noted
  BY <1>1, <1>2 DEF LspTypeOK, Clients
<1> QED BY <1>3 DEF noted

(* What a session sends is numbered below its next id. *)
LEMMA OlderAdded ==
  ASSUME NEW q \in Seq(Messages), NEW more \in Seq(Messages), NEW id, OlderIds(q, id),
         OlderIds(more, id)
  PROVE  OlderIds(q \o more, id)
<1> DEFINE all == q \o more
<1>1. /\ Len(all) = Len(q) + Len(more) /\ Len(q) \in Nat /\ Len(more) \in Nat
      /\ \A i \in 1..Len(q) + Len(more) : all[i] = IF i <= Len(q) THEN q[i] ELSE more[i - Len(q)]
  BY ConcatProperties, LenProperties
<1> HIDE DEF all
<1>2. ASSUME NEW i \in 1..Len(all) PROVE all[i].id < id
  <2>1. CASE i <= Len(q)
    <3>1. i \in 1..Len(q) /\ all[i] = q[i]
      BY <1>1, <2>1
    <3> QED BY <3>1 DEF OlderIds
  <2>2. CASE ~(i <= Len(q))
    <3>1. i - Len(q) \in 1..Len(more) /\ all[i] = more[i - Len(q)]
      BY <1>1, <2>2
    <3> QED BY <3>1 DEF OlderIds
  <2> QED BY <2>1, <2>2
<1> QED BY <1>2 DEF OlderIds, all

LEMMA SyncKeeps ==
  ASSUME LspInv, NEW ds \in SUBSET Docs, NEW next \in Queries, SyncDocuments(ds, next),
         client.present, next.at \in {"imports", "ask", "push"},
         next.at \in {"imports", "ask"} => Synced(ds).documents[next.doc] = next.text
  PROVE  LspInv'
<1> DEFINE more == SetToSeq({Message("text", d, text[d], 0) : d \in Stale(ds)})
           noted == Synced(ds)
<1>1. LspTypeOK /\ SendAll(more, noted, next) /\ UNCHANGED <<text, lspLeft>>
  BY DEF SyncDocuments, LspInv
<1>2. /\ more \in Seq(Messages) /\ (more = <<>> => Stale(ds) = {})
      /\ \A i \in 1..Len(more) : more[i].id = 0
      /\ \A d \in Docs : IF Told(more, d) = {} THEN noted.documents[d] = client.documents[d]
                         ELSE \A i \in Told(more, d) : more[i].text = noted.documents[d]
  BY <1>1, NewTexts
<1>3. /\ noted \in Clients /\ noted.present = client.present /\ noted.nextId = client.nextId
  BY <1>1, SyncedType
<1> HIDE DEF more, noted
<1>4. ASSUME toServer' = toServer \o more, client' = noted, query' = next, UNCHANGED <<server, toClient>>
      PROVE  LspInv'
  <2>1. toServer \in Seq(Messages) /\ toServer' \in Seq(Messages)
    BY <1>1, <1>2, <1>4, ConcatProperties DEF LspTypeOK
  <2>2. LspTypeOK' /\ TextsFit'
    BY <1>1, <1>3, <1>4, <2>1, TextsAlike DEF LspTypeOK
  <2>3. SessionAtWork' /\ TextIsNoted' /\ AnswerIsComing' /\ AnswersAreAboutTheTextRead'
    BY <1>3, <1>4 DEF SessionAtWork, TextIsNoted, AnswerIsComing, AnswersAreAboutTheTextRead, noted
  <2>4. IdsInUse'
    <3>1. /\ client.nextId >= 2 /\ client.nextId \in Nat /\ OlderIds(toServer, client.nextId)
          /\ OlderIds(toClient, client.nextId) /\ \A r \in server.asked : r.id < client.nextId
      BY <1>1 DEF LspInv, IdsInUse, LspTypeOK, Clients
    <3>2. 0 < client.nextId
      BY <3>1
    <3>3. OlderIds(more, client.nextId)
      BY <1>2, <3>2 DEF OlderIds
    <3>4. OlderIds(toServer \o more, client.nextId)
      BY <1>2, <2>1, <3>1, <3>3, OlderAdded
    <3>5. client'.nextId = client.nextId
      BY <1>3, <1>4
    <3>6. OlderIds(toServer', client'.nextId) /\ OlderIds(toClient', client'.nextId)
      BY <1>4, <3>1, <3>4, <3>5
    <3> QED BY <1>4, <3>1, <3>5, <3>6 DEF IdsInUse, OlderIds
  <2>5. NotesCatchUp'
    <3>1. ASSUME server.alive
          PROVE  ComesToHold(toServer \o more, server.texts, noted.documents)
      <4>1. ComesToHold(toServer, server.texts, client.documents)
        BY <3>1 DEF LspInv, NotesCatchUp
      <4> QED BY <1>2, <2>1, <4>1, SendingSome
    <3>2. server.alive => ComesToHold(toServer', server'.texts, client'.documents)
      BY <1>4, <3>1
    <3> QED BY <1>4, <3>2 DEF NotesCatchUp, ComesToHold, Told, IsTextOf
  <2> QED BY <2>2, <2>3, <2>4, <2>5 DEF LspInv
<1>5. ASSUME ~server.alive, TransportFails(noted)
      PROVE  LspInv'
  <2>1. noted.nextId >= client.nextId
    <3>1. client.nextId \in Nat
      BY <1>1 DEF LspTypeOK, Clients
    <3> QED BY <1>3, <3>1
  <2> QED BY <1>1, <1>3, <1>5, <2>1, TransportKeeps
<1> QED BY <1>1, <1>4, <1>5 DEF SendAll

LEMMA PrepareKeeps ==
  ASSUME LspInv, Prepare
  PROVE  LspInv'
<1> DEFINE next == [query EXCEPT !.at = IF query.kind = "diagnostics" THEN "imports" ELSE "ask",
                                 !.text = text[query.doc]]
<1>1. LspTypeOK /\ client.present /\ SyncDocuments({query.doc}, next)
  BY DEF Prepare, LspInv, SessionAtWork, AtWork
<1>2. /\ next \in Queries /\ next.doc = query.doc /\ next.text = text[query.doc]
      /\ next.at \in {"imports", "ask"} /\ query.doc \in Docs
  BY <1>1, LspValues DEF LspTypeOK, Queries, QuerySteps
<1> HIDE DEF next
<1>3. {query.doc} \in SUBSET Docs
  BY <1>2
<1>4. Synced({query.doc}).documents[next.doc] = next.text
  <2>1. Synced({query.doc}).documents =
          [d \in Docs |-> IF d \in {query.doc} THEN text[d] ELSE client.documents[d]]
    BY <1>1, <1>3, SyncedType
  <2> QED BY <1>2, <2>1
<1> QED BY <1>1, <1>2, <1>3, <1>4, SyncKeeps

LEMMA SyncImportsKeeps ==
  ASSUME LspInv, SyncImports
  PROVE  LspInv'
<1> DEFINE next == [query EXCEPT !.at = IF client.pushOnly THEN "push" ELSE "ask"]
           ds == Imports[query.doc] \ {query.doc}
<1>1. /\ LspTypeOK /\ client.present /\ SyncDocuments(ds, next)
      /\ client.documents[query.doc] = query.text
  BY DEF SyncImports, LspInv, SessionAtWork, AtWork, TextIsNoted
<1>2. /\ next \in Queries /\ next.doc = query.doc /\ next.text = query.text
      /\ next.at \in {"push", "ask"} /\ query.doc \in Docs
  BY <1>1 DEF LspTypeOK, Queries, QuerySteps
<1>3. ds \in SUBSET Docs /\ query.doc \notin ds
  BY <1>2, LspAssumption
<1> HIDE DEF next, ds
<1>4. Synced(ds).documents[next.doc] = next.text
  <2>1. Synced(ds).documents = [d \in Docs |-> IF d \in ds THEN text[d] ELSE client.documents[d]]
    BY <1>1, <1>3, SyncedType
  <2> QED BY <1>1, <1>2, <1>3, <2>1
<1> QED BY <1>1, <1>2, <1>3, <1>4, SyncKeeps

LEMMA AskKeeps ==
  ASSUME LspInv, Ask
  PROVE  LspInv'
<1> DEFINE m == Message(query.kind, query.doc, Closed, client.nextId)
           noted == [client EXCEPT !.nextId = @ + 1]
           next == [query EXCEPT !.at = "await", !.id = client.nextId]
           id == client.nextId
<1>1. /\ LspTypeOK /\ SendAll(<<m>>, noted, next) /\ UNCHANGED <<text, lspLeft>>
      /\ client.present /\ client.documents[query.doc] = query.text
      /\ query \in Queries /\ client \in Clients /\ server \in ServerStates
  BY DEF Ask, LspInv, LspTypeOK, SessionAtWork, AtWork, TextIsNoted
<1>2. /\ noted \in Clients /\ noted.present /\ noted.nextId = id + 1 /\ id \in Nat
      /\ noted.documents = client.documents
  BY <1>1 DEF Clients
<1>3. /\ next \in Queries /\ next.at = "await" /\ next.id = id /\ next.doc = query.doc
      /\ next.text = query.text
  BY <1>1, <1>2 DEF Queries, QuerySteps
<1>4. /\ m \in Messages /\ m.kind # "text" /\ m.doc = query.doc /\ m.id = id /\ query.doc \in Docs
  BY <1>1, <1>2, LspValues DEF Message, Messages, Queries, QueryKinds
<1>5. /\ id >= 2 /\ OlderIds(toServer, id) /\ OlderIds(toClient, id)
      /\ \A r \in server.asked : r.id < id
  BY <1>1 DEF LspInv, IdsInUse
<1>6. <<m>> \in Seq(Messages) /\ Len(<<m>>) = 1 /\ <<m>>[1] = m
  BY <1>4
<1> HIDE DEF m, noted, next
<1>7. ASSUME ~server.alive, TransportFails(noted)
      PROVE  LspInv'
  <2>1. noted.nextId >= client.nextId
    BY <1>2
  <2> QED BY <1>1, <1>2, <1>7, <2>1, TransportKeeps
<1>8. ASSUME toServer' = toServer \o <<m>>, client' = noted, query' = next, UNCHANGED <<server, toClient>>
      PROVE  LspInv'
  <2>1. /\ toServer \in Seq(Messages) /\ toServer' \in Seq(Messages)
        /\ Len(toServer') = Len(toServer) + 1 /\ Len(toServer) \in Nat
        /\ \A i \in 1..Len(toServer) : toServer'[i] = toServer[i]
        /\ toServer'[Len(toServer) + 1] = m
    <3>1. toServer \in Seq(Messages) /\ toServer \o <<m>> = Append(toServer, m)
      BY <1>1, <1>4, AppendIsConcat DEF LspTypeOK
    <3> QED BY <1>4, <1>8, <3>1, AppendProperties, LenProperties
  <2>2. LspTypeOK' /\ TextsFit'
    BY <1>1, <1>2, <1>3, <1>8, <2>1, TextsAlike DEF LspTypeOK
  <2>3. SessionAtWork' /\ TextIsNoted' /\ AnswersAreAboutTheTextRead'
    BY <1>1, <1>2, <1>3, <1>8 DEF SessionAtWork, TextIsNoted, AnswersAreAboutTheTextRead
  <2>4. IdsInUse'
    <3>1. ASSUME NEW n \in Nat, n < id PROVE n < id + 1
      BY <1>2, <3>1
    <3>2. \A i \in 1..Len(toServer) : toServer[i].id \in Nat
      <4>1. \A i \in 1..Len(toServer) : toServer[i] \in Messages
        BY <2>1, ElementOfSeq
      <4> QED BY <4>1 DEF Messages
    <3>3. \A i \in 1..Len(toClient) : toClient[i].id \in Nat
      <4>1. \A i \in 1..Len(toClient) : toClient[i] \in Messages
        BY <1>1, ElementOfSeq DEF LspTypeOK
      <4> QED BY <4>1 DEF Messages
    <3>4. \A r \in server.asked : r.id \in Nat
      BY <1>1 DEF ServerStates, Messages
    <3>5. \A i \in 1..Len(toServer') : i \in 1..Len(toServer) \/ i = Len(toServer) + 1
      BY <2>1
    <3>6. m.id < id + 1 /\ id + 1 >= 2
      BY <1>2, <1>4, <1>5
    <3>7. \A i \in 1..Len(toServer') : toServer'[i].id < id + 1
      BY <1>5, <2>1, <3>1, <3>2, <3>5, <3>6 DEF OlderIds
    <3>8. \A i \in 1..Len(toClient) : toClient[i].id < id + 1
      BY <1>5, <3>1, <3>3 DEF OlderIds
    <3>9. \A r \in server.asked : r.id < id + 1
      BY <1>5, <3>1, <3>4
    <3> QED BY <1>2, <1>8, <3>6, <3>7, <3>8, <3>9 DEF IdsInUse, OlderIds
  <2>5. NotesCatchUp'
    <3>1. ASSUME server.alive
          PROVE  ComesToHold(toServer \o <<m>>, server.texts, noted.documents)
      <4>1. ComesToHold(toServer, server.texts, client.documents)
        BY <1>1, <3>1 DEF LspInv, NotesCatchUp
      <4>2. \A d \in Docs : Told(<<m>>, d) = {}
        BY <1>4, <1>6 DEF Told, IsTextOf
      <4> QED BY <1>2, <1>6, <2>1, <4>1, <4>2, SendingSome
    <3>2. server.alive => ComesToHold(toServer', server'.texts, client'.documents)
      BY <1>8, <3>1
    <3> QED BY <1>8, <3>2 DEF NotesCatchUp, ComesToHold, Told, IsTextOf
  <2>6. AnswerIsComing'
    <3>1. RequestIsLast(toServer)'
      <4>1. ASSUME NEW i \in 1..Len(toServer'), toServer'[i].kind # "text", toServer'[i].id = id
            PROVE  toServer'[i].doc = query.doc /\ \A j \in i..Len(toServer') : ~IsTextOf(toServer'[j], query.doc)
        <5>1. i \notin 1..Len(toServer)
          <6>1. ASSUME i \in 1..Len(toServer) PROVE FALSE
            <7>1. toServer[i].id < id /\ toServer[i].id = id
              BY <1>5, <2>1, <4>1, <6>1 DEF OlderIds
            <7> QED BY <1>2, <7>1
          <6> QED BY <6>1
        <5>2. i = Len(toServer) + 1 /\ \A j \in i..Len(toServer') : j = i
          BY <2>1, <5>1
        <5> QED BY <1>4, <2>1, <5>2 DEF IsTextOf
      <4> QED BY <1>3, <1>8, <4>1 DEF RequestIsLast, IsTextOf
    <3>2. \A r \in server.asked : r.id # id
      BY <1>2, <1>5
    <3>3. \A i \in 1..Len(toClient) : toClient[i].id # id
      BY <1>2, <1>5 DEF OlderIds
    <3> QED BY <1>3, <1>5, <1>8, <3>1, <3>2, <3>3 DEF AnswerIsComing
  <2> QED BY <2>2, <2>3, <2>4, <2>5, <2>6 DEF LspInv
<1>9. <<m>> # <<>>
  BY <1>6
<1> QED BY <1>1, <1>7, <1>8, <1>9 DEF SendAll

(* What the client reads changes none of its notes of the server. *)
NotesAlike ==
  /\ client' \in Clients /\ client'.present = client.present
  /\ client'.nextId = client.nextId /\ client'.documents = client.documents

LEMMA ReceiveType ==
  ASSUME LspTypeOK, NEW m \in Messages, Receive(m)
  PROVE  NotesAlike
<1>1. client \in Clients /\ m.doc \in Docs /\ m.text \in Held
  BY DEF LspTypeOK, Messages
<1>2. CASE m.kind = "publish"
  <2> DEFINE kept == [client.published EXCEPT ![m.doc] = m.text]
  <2>1. client' = [client EXCEPT !.published = kept] /\ kept \in [Docs -> Held]
    BY <1>1, <1>2 DEF Receive, Clients
  <2> HIDE DEF kept
  <2> QED BY <1>1, <2>1 DEF Clients, NotesAlike
<1>3. CASE m.kind # "publish"
  BY <1>1, <1>3 DEF Receive, NotesAlike
<1> QED BY <1>2, <1>3

LEMMA ReadingAlike ==
  ASSUME LspInv, NotesAlike, toClient # <<>>, toClient' = Tail(toClient),
         UNCHANGED <<text, server, toServer, lspLeft>>, query' \in Queries
  PROVE  /\ LspTypeOK' /\ TextsFit' /\ IdsInUse' /\ NotesCatchUp'
         /\ Head(toClient) = toClient[1] /\ 1 \in 1..Len(toClient)
         /\ \A i \in 1..Len(toClient') : toClient'[i] = toClient[i + 1] /\ i + 1 \in 1..Len(toClient)
<1>1. LspTypeOK /\ toClient \in Seq(Messages)
  BY DEF LspInv, LspTypeOK
<1>2. /\ toClient' \in Seq(Messages) /\ Head(toClient) = toClient[1] /\ 1 \in 1..Len(toClient)
      /\ \A i \in 1..Len(toClient') : toClient'[i] = toClient[i + 1] /\ i + 1 \in 1..Len(toClient)
  <2>1. /\ Tail(toClient) \in Seq(Messages) /\ Len(Tail(toClient)) = Len(toClient) - 1
        /\ Head(toClient) = toClient[1] /\ Len(toClient) \in Nat \ {0}
        /\ \A i \in 1..Len(Tail(toClient)) : Tail(toClient)[i] = toClient[i + 1]
    BY <1>1, HeadTailProperties, EmptySeq
  <2>2. \A i \in 1..Len(Tail(toClient)) : i + 1 \in 1..Len(toClient)
    BY <2>1
  <2> QED BY <2>1, <2>2
<1>3. LspTypeOK' /\ TextsFit'
  BY <1>1, <1>2, TextsAlike DEF LspTypeOK, NotesAlike
<1>4. IdsInUse'
  BY <1>2 DEF LspInv, IdsInUse, NotesAlike, OlderIds
<1>5. NotesCatchUp'
  BY DEF LspInv, NotesCatchUp, NotesAlike, ComesToHold, Told, IsTextOf
<1> QED BY <1>2, <1>3, <1>4, <1>5

LEMMA ReadAnswerKeeps ==
  ASSUME LspInv, ReadAnswer
  PROVE  LspInv'
<1> DEFINE m == Head(toClient)
           refused == Answers(m) /\ m.kind = "refusal"
           at == IF refused THEN "push" ELSE IF Answers(m) THEN "answered" ELSE query.at
           reply == IF Answers(m) /\ ~refused THEN m.text ELSE query.reply
<1>1. /\ LspTypeOK /\ query.at = "await" /\ toClient # <<>> /\ toClient' = Tail(toClient)
      /\ UNCHANGED <<text, server, toServer, lspLeft>>
      /\ toClient \in Seq(Messages) /\ query \in Queries /\ client \in Clients
  BY DEF ReadAnswer, LspInv, LspTypeOK
<1>2. query' = [query EXCEPT !.at = at, !.reply = reply]
  BY DEF ReadAnswer
<1>3. m \in Messages
  BY <1>1, HeadTailProperties
<1>4. NotesAlike
  <2>1. CASE refused
    <3>1. client' = [client EXCEPT !.pushOnly = TRUE]
      BY <2>1 DEF ReadAnswer
    <3> QED BY <1>1, <3>1 DEF NotesAlike, Clients
  <2>2. CASE ~refused
    <3>1. Receive(m)
      BY <2>2 DEF ReadAnswer
    <3> QED BY <1>1, <1>3, <3>1, ReceiveType
  <2> QED BY <2>1, <2>2
<1>5. /\ at \in {"push", "answered", "await"} /\ reply \in Held
      /\ at = "answered" => m.kind = "answer" /\ m.id = query.id /\ reply = m.text
  BY <1>1, <1>3 DEF Answers, Messages, Queries
<1> HIDE DEF m, at, reply
<1>6. /\ query' \in Queries /\ query'.at = at /\ query'.reply = reply /\ query'.id = query.id
      /\ query'.doc = query.doc /\ query'.text = query.text
  BY <1>1, <1>2, <1>5 DEF Queries, QuerySteps
<1>7. /\ LspTypeOK' /\ TextsFit' /\ IdsInUse' /\ NotesCatchUp'
      /\ m = toClient[1] /\ 1 \in 1..Len(toClient)
      /\ \A i \in 1..Len(toClient') : toClient'[i] = toClient[i + 1] /\ i + 1 \in 1..Len(toClient)
  BY <1>1, <1>4, <1>6, ReadingAlike DEF m
<1>8. /\ query.id >= 2
      /\ server.alive =>
           /\ RequestIsLast(toServer)
           /\ \A r \in server.asked : r.id = query.id =>
                /\ r.doc = query.doc /\ server.texts[query.doc] = query.text
                /\ Told(toServer, query.doc) = {}
      /\ \A i \in 1..Len(toClient) :
           toClient[i].kind = "answer" /\ toClient[i].id = query.id => toClient[i].text = query.text
  BY <1>1 DEF LspInv, AnswerIsComing
<1>9. SessionAtWork' /\ TextIsNoted'
  BY <1>1, <1>4, <1>5, <1>6 DEF LspInv, SessionAtWork, AtWork, TextIsNoted, NotesAlike
<1>10. AnswerIsComing'
  <2>1. RequestIsLast(toServer)' <=> RequestIsLast(toServer)
    BY <1>1, <1>6 DEF RequestIsLast, IsTextOf
  <2>2. \A i \in 1..Len(toClient') :
          toClient'[i].kind = "answer" /\ toClient'[i].id = query.id => toClient'[i].text = query.text
    BY <1>7, <1>8
  <2>3. Told(toServer', query'.doc) = Told(toServer, query.doc)
    BY <1>1, <1>6
  <2> QED BY <1>1, <1>6, <1>8, <2>1, <2>2, <2>3 DEF AnswerIsComing, Told, IsTextOf
<1>11. AnswersAreAboutTheTextRead'
  BY <1>5, <1>6, <1>7, <1>8 DEF AnswersAreAboutTheTextRead
<1> QED BY <1>7, <1>9, <1>10, <1>11 DEF LspInv

LEMMA TakePublishedKeeps ==
  ASSUME LspInv, TakePublished
  PROVE  LspInv'
<1> DEFINE new == [query EXCEPT !.at = "answered", !.reply = client.published[query.doc],
                                !.pushed = TRUE]
<1>1. /\ LspTypeOK /\ query' = new
      /\ UNCHANGED <<text, client, server, toServer, toClient, lspLeft>>
  BY DEF TakePublished, LspInv
<1>2. new \in Queries /\ new.at = "answered" /\ new.pushed
  BY <1>1 DEF LspTypeOK, Queries, QuerySteps, Clients
<1> HIDE DEF new
<1>3. LspTypeOK' /\ TextsFit'
  BY <1>1, <1>2, TextsAlike DEF LspTypeOK
<1>4. SessionAtWork' /\ TextIsNoted' /\ AnswerIsComing' /\ AnswersAreAboutTheTextRead'
  BY <1>1, <1>2 DEF SessionAtWork, AtWork, TextIsNoted, AnswerIsComing, AnswersAreAboutTheTextRead
<1> QED BY <1>1, <1>3, <1>4, PipesAlike DEF LspInv

LEMMA ReadPublishedKeeps ==
  ASSUME LspInv, ReadPublished
  PROVE  LspInv'
<1>1. /\ LspTypeOK /\ query.at = "push" /\ toClient # <<>> /\ toClient' = Tail(toClient)
      /\ UNCHANGED <<text, server, toServer, query, lspLeft>> /\ Receive(Head(toClient))
      /\ toClient \in Seq(Messages) /\ query \in Queries
  BY DEF ReadPublished, LspInv, LspTypeOK
<1>2. NotesAlike
  BY <1>1, HeadTailProperties, ReceiveType
<1>3. LspTypeOK' /\ TextsFit' /\ IdsInUse' /\ NotesCatchUp'
  BY <1>1, <1>2, ReadingAlike
<1>4. SessionAtWork' /\ TextIsNoted' /\ AnswerIsComing' /\ AnswersAreAboutTheTextRead'
  BY <1>1, <1>2
  DEF LspInv, SessionAtWork, AtWork, TextIsNoted, AnswerIsComing, AnswersAreAboutTheTextRead, NotesAlike
<1> QED BY <1>3, <1>4 DEF LspInv

LEMMA GivingUpKeeps ==
  ASSUME LspInv, GiveUp \/ EndOfStream
  PROVE  LspInv'
<1>1. LspTypeOK /\ client \in Clients
  BY DEF LspInv, LspTypeOK
<1>2. CASE EndOfStream
  BY <1>1, <1>2, TransportKeeps DEF EndOfStream
<1>3. CASE GiveUp
  <2>1. EndQuery("failed") /\ UNCHANGED <<text, client, server, toServer, toClient>>
        /\ (SpendLsp("faults") \/ UNCHANGED lspLeft)
    BY <1>3 DEF GiveUp
  <2>2. query' \in Queries /\ query'.at = "failed"
    BY <1>1, <2>1, EndType DEF QuerySteps
  <2>3. /\ lspLeft' \in [calls : Nat, texts : Nat, faults : Nat, publishes : Nat]
        /\ lspLeft'.texts = lspLeft.texts
    BY <1>1, <2>1, SpendType DEF LspTypeOK
  <2>4. LspTypeOK' /\ TextsFit'
    BY <1>1, <2>1, <2>2, <2>3, TextsAlike DEF LspTypeOK
  <2> QED BY <2>1, <2>2, <2>4, OutOfWork, PipesAlike DEF LspInv
<1> QED BY <1>2, <1>3

LEMMA ServerReadsKeeps ==
  ASSUME LspInv, ServerReads
  PROVE  LspInv'
<1> DEFINE m == Head(toServer)
           has == IF m.kind = "text" THEN [server.texts EXCEPT ![m.doc] = m.text] ELSE server.texts
           asked == IF m.kind = "text" THEN server.asked ELSE server.asked \cup {m}
<1>1. /\ LspTypeOK /\ server.alive /\ toServer # <<>> /\ toServer' = Tail(toServer)
      /\ UNCHANGED <<text, client, toClient, query, lspLeft>>
      /\ toServer \in Seq(Messages) /\ query \in Queries /\ client \in Clients
      /\ server \in ServerStates
  BY DEF ServerReads, LspInv, LspTypeOK
<1>2. /\ m \in Messages /\ m = toServer[1] /\ 1 \in 1..Len(toServer)
      /\ toServer' \in Seq(Messages)
      /\ \A i \in 1..Len(toServer') : toServer'[i] = toServer[i + 1] /\ i + 1 \in 1..Len(toServer)
  <2>1. /\ m \in Messages /\ Tail(toServer) \in Seq(Messages)
        /\ Len(Tail(toServer)) = Len(toServer) - 1
        /\ m = toServer[1] /\ Len(toServer) \in Nat \ {0}
        /\ \A i \in 1..Len(Tail(toServer)) : Tail(toServer)[i] = toServer[i + 1]
    BY <1>1, HeadTailProperties, EmptySeq
  <2>2. \A i \in 1..Len(Tail(toServer)) : i + 1 \in 1..Len(toServer)
    BY <2>1
  <2> HIDE DEF m
  <2> QED BY <1>1, <2>1, <2>2
<1>3. server' = [server EXCEPT !.texts = has, !.asked = asked]
  <2>1. CASE m.kind = "text"
    BY <1>1, <2>1 DEF ServerReads, ServerStates
  <2>2. CASE m.kind # "text"
    BY <1>1, <2>2 DEF ServerReads, ServerStates
  <2> QED BY <2>1, <2>2
<1>4. has \in [Docs -> Held] /\ asked \subseteq Messages
  BY <1>1, <1>2 DEF Messages, ServerStates
<1>5. client.present => ComesToHold(toServer', has, client.documents)
  <2>1. client.present => ComesToHold(toServer, server.texts, client.documents)
    BY <1>1 DEF LspInv, NotesCatchUp
  <2>2. server.texts \in [Docs -> Held] /\ client.documents \in [Docs -> Held]
    BY <1>1 DEF ServerStates, Clients
  <2>3. ASSUME client.present
        PROVE  ComesToHold(Tail(toServer), has, client.documents)
    BY <1>1, <2>1, <2>2, <2>3, ReadingOne
  <2> QED BY <1>1, <2>3
<1>6. /\ has[query.doc] # server.texts[query.doc] => IsTextOf(m, query.doc)
      /\ \A r \in asked : r \in server.asked \/ (r = m /\ m.kind # "text")
      /\ query.doc \in Docs
  BY <1>1, <1>2 DEF IsTextOf, Messages, ServerStates, Queries
<1> HIDE DEF m, has, asked
<1>7. /\ server' \in ServerStates /\ server'.texts = has /\ server'.asked = asked
      /\ server'.alive
  BY <1>1, <1>3, <1>4 DEF ServerStates
<1>8. LspTypeOK' /\ TextsFit'
  BY <1>1, <1>2, <1>7, TextsAlike DEF LspTypeOK
<1>9. SessionAtWork' /\ TextIsNoted' /\ AnswersAreAboutTheTextRead'
  BY <1>1 DEF LspInv, SessionAtWork, TextIsNoted, AnswersAreAboutTheTextRead
<1>10. IdsInUse'
  BY <1>1, <1>2, <1>6, <1>7 DEF LspInv, IdsInUse, OlderIds
<1>11. NotesCatchUp'
  <2>1. client'.present => ComesToHold(toServer', server'.texts, client'.documents)
    BY <1>1, <1>5, <1>7
  <2> QED BY <2>1 DEF NotesCatchUp, ComesToHold, Told, IsTextOf
<1>12. AnswerIsComing'
  <2> SUFFICES ASSUME query.at = "await"
               PROVE  AnswerIsComing'
    BY <1>1 DEF AnswerIsComing
  <2>1. /\ query.id >= 2 /\ RequestIsLast(toServer)
        /\ \A r \in server.asked : r.id = query.id =>
             /\ r.doc = query.doc /\ server.texts[query.doc] = query.text
             /\ Told(toServer, query.doc) = {}
        /\ \A i \in 1..Len(toClient) :
             toClient[i].kind = "answer" /\ toClient[i].id = query.id => toClient[i].text = query.text
        /\ client.present /\ client.documents[query.doc] = query.text
    BY <1>1 DEF LspInv, AnswerIsComing, SessionAtWork, AtWork, TextIsNoted
  <2>2. ASSUME Told(toServer, query.doc) = {}
        PROVE  Told(toServer', query.doc) = {} /\ has[query.doc] = server.texts[query.doc]
    <3>1. ~IsTextOf(m, query.doc)
      BY <1>2, <2>2 DEF Told
    <3>2. \A i \in 1..Len(toServer') : ~IsTextOf(toServer'[i], query.doc)
      BY <1>2, <2>2 DEF Told
    <3> QED BY <1>6, <3>1, <3>2 DEF Told
  <2>3. ASSUME m.kind # "text", m.id = query.id
        PROVE  /\ m.doc = query.doc /\ server.texts[query.doc] = query.text
               /\ Told(toServer, query.doc) = {}
    <3>1. m.doc = query.doc /\ \A j \in 1..Len(toServer) : ~IsTextOf(toServer[j], query.doc)
      BY <1>2, <2>1, <2>3 DEF RequestIsLast
    <3>2. Told(toServer, query.doc) = {}
      BY <3>1 DEF Told
    <3>3. server.texts[query.doc] = client.documents[query.doc]
      BY <1>1, <1>6, <2>1, <3>2 DEF LspInv, NotesCatchUp, ComesToHold
    <3> QED BY <2>1, <3>1, <3>2, <3>3
  <2>4. \A r \in asked : r.id = query.id =>
          /\ r.doc = query.doc /\ has[query.doc] = query.text
          /\ Told(toServer', query.doc) = {}
    BY <1>6, <2>1, <2>2, <2>3
  <2>5. RequestIsLast(toServer')
    <3> SUFFICES ASSUME NEW i \in 1..Len(toServer'), toServer'[i].kind # "text",
                        toServer'[i].id = query.id
                 PROVE  /\ toServer'[i].doc = query.doc
                        /\ \A j \in i..Len(toServer') : ~IsTextOf(toServer'[j], query.doc)
      BY DEF RequestIsLast
    <3>1. /\ toServer[i + 1].doc = query.doc
          /\ \A j \in i + 1..Len(toServer) : ~IsTextOf(toServer[j], query.doc)
      BY <1>2, <2>1 DEF RequestIsLast
    <3>2. Len(toServer) \in Nat /\ Len(toServer') \in Nat
      BY <1>1, <1>2, LenProperties
    <3>3. ASSUME NEW j \in i..Len(toServer') PROVE ~IsTextOf(toServer'[j], query.doc)
      <4>1. j \in 1..Len(toServer') /\ j + 1 >= i + 1
        BY <3>2
      <4>2. j + 1 \in i + 1..Len(toServer) /\ toServer'[j] = toServer[j + 1]
        BY <1>2, <3>2, <4>1
      <4> QED BY <3>1, <4>2
    <3> QED BY <1>2, <3>1, <3>3
  <2> QED BY <1>1, <1>7, <2>1, <2>4, <2>5 DEF AnswerIsComing, RequestIsLast, Told, IsTextOf
<1> QED BY <1>8, <1>9, <1>10, <1>11, <1>12 DEF LspInv

(* The server sends something: an answer to a call that awaits it is of the text noted. *)
LEMMA ServerSends ==
  ASSUME LspInv, NEW m \in Messages, server.alive, toClient' = Append(toClient, m),
         UNCHANGED <<text, client, toServer, query>>,
         server' \in ServerStates, server'.alive, server'.texts = server.texts,
         server'.asked \subseteq server.asked,
         lspLeft' \in [calls : Nat, texts : Nat, faults : Nat, publishes : Nat],
         lspLeft'.texts = lspLeft.texts,
         client.present => m.id < client.nextId,
         query.at = "await" /\ m.kind = "answer" /\ m.id = query.id => m.text = query.text
  PROVE  LspInv'
<1>1. /\ LspTypeOK /\ toClient \in Seq(Messages) /\ toServer \in Seq(Messages)
  BY DEF LspInv, LspTypeOK
<1>2. /\ toClient' \in Seq(Messages)
      /\ \A i \in 1..Len(toClient') :
           (i \in 1..Len(toClient) /\ toClient'[i] = toClient[i]) \/ toClient'[i] = m
  BY <1>1, AppendProperties, LenProperties
<1>3. LspTypeOK' /\ TextsFit'
  BY <1>1, <1>2, TextsAlike DEF LspTypeOK
<1>4. SessionAtWork' /\ TextIsNoted' /\ AnswersAreAboutTheTextRead'
  BY DEF LspInv, SessionAtWork, TextIsNoted, AnswersAreAboutTheTextRead
<1>5. IdsInUse'
  BY <1>2 DEF LspInv, IdsInUse, OlderIds
<1>6. NotesCatchUp'
  BY DEF LspInv, NotesCatchUp, ComesToHold, Told, IsTextOf
<1>7. AnswerIsComing'
  <2>1. \A i \in 1..Len(toClient') : query.at = "await" =>
          (toClient'[i].kind = "answer" /\ toClient'[i].id = query.id => toClient'[i].text = query.text)
    BY <1>2 DEF LspInv, AnswerIsComing
  <2>2. RequestIsLast(toServer)' <=> RequestIsLast(toServer)
    BY DEF RequestIsLast, IsTextOf
  <2> QED BY <2>1, <2>2 DEF LspInv, AnswerIsComing, Told, IsTextOf
<1> QED BY <1>3, <1>4, <1>5, <1>6, <1>7 DEF LspInv

LEMMA ServerAnswersKeeps ==
  ASSUME LspInv, NEW r \in server.asked, ServerAnswers(r)
  PROVE  LspInv'
<1> DEFINE kind == IF r.kind = "diagnostics" /\ ~server.pulls THEN "refusal" ELSE "answer"
           m == Message(kind, r.doc, server.texts[r.doc], r.id)
<1>1. /\ LspTypeOK /\ server.alive /\ server' = [server EXCEPT !.asked = @ \ {r}]
      /\ toClient' = Append(toClient, m) /\ UNCHANGED <<text, client, toServer, query, lspLeft>>
      /\ server \in ServerStates
  BY DEF ServerAnswers, LspInv, LspTypeOK
<1>2. r \in Messages /\ r.doc \in Docs /\ server.texts[r.doc] \in Held
  BY <1>1 DEF ServerStates, Messages
<1>3. m \in Messages /\ m.kind = kind /\ m.id = r.id /\ m.text = server.texts[r.doc]
  BY <1>2 DEF Message, Messages
<1> HIDE DEF m
<1>4. /\ server' \in ServerStates /\ server'.alive /\ server'.texts = server.texts
      /\ server'.asked \subseteq server.asked
  BY <1>1 DEF ServerStates
<1>5. client.present => m.id < client.nextId
  BY <1>3 DEF LspInv, IdsInUse
<1>6. query.at = "await" /\ m.kind = "answer" /\ m.id = query.id => m.text = query.text
  BY <1>1, <1>3 DEF LspInv, AnswerIsComing
<1>7. /\ lspLeft' \in [calls : Nat, texts : Nat, faults : Nat, publishes : Nat]
      /\ lspLeft'.texts = lspLeft.texts
  BY <1>1 DEF LspTypeOK
<1> QED BY <1>1, <1>3, <1>4, <1>5, <1>6, <1>7, ServerSends

LEMMA ServerPublishesKeeps ==
  ASSUME LspInv, NEW d \in Docs, ServerPublishes(d)
  PROVE  LspInv'
<1> DEFINE m == Message("publish", d, server.texts[d], 0)
<1>1. /\ LspTypeOK /\ server.alive /\ SpendLsp("publishes")
      /\ toClient' = Append(toClient, m) /\ UNCHANGED <<text, client, server, toServer, query>>
      /\ server \in ServerStates /\ client \in Clients
  BY DEF ServerPublishes, LspInv, LspTypeOK
<1>2. m \in Messages /\ m.kind = "publish" /\ m.id = 0
  BY <1>1 DEF Message, Messages, ServerStates
<1> HIDE DEF m
<1>3. client.present => m.id < client.nextId
  <2>1. client.nextId \in Nat /\ (client.present => client.nextId >= 2)
    BY <1>1 DEF LspInv, IdsInUse, Clients
  <2> QED BY <1>2, <2>1
<1>4. /\ lspLeft' \in [calls : Nat, texts : Nat, faults : Nat, publishes : Nat]
      /\ lspLeft'.texts = lspLeft.texts
  BY <1>1, SpendType
<1> QED BY <1>1, <1>2, <1>3, <1>4, ServerSends

LEMMA ServerDiesKeeps ==
  ASSUME LspInv, ServerDies
  PROVE  LspInv'
<1>1. /\ LspTypeOK /\ server \in ServerStates /\ SpendLsp("faults")
      /\ server' = [server EXCEPT !.alive = FALSE]
      /\ UNCHANGED <<text, client, toServer, toClient, query>>
  BY DEF ServerDies, LspInv, LspTypeOK
<1>2. server' \in ServerStates /\ ~server'.alive /\ server'.asked = server.asked
  BY <1>1 DEF ServerStates
<1>3. LspTypeOK' /\ TextsFit'
  BY <1>1, <1>2, SpendType, TextsAlike DEF LspTypeOK
<1>4. SessionAtWork' /\ TextIsNoted' /\ AnswersAreAboutTheTextRead' /\ NotesCatchUp'
  BY <1>1, <1>2 DEF LspInv, SessionAtWork, TextIsNoted, AnswersAreAboutTheTextRead, NotesCatchUp
<1>5. IdsInUse' /\ AnswerIsComing'
  BY <1>1, <1>2 DEF LspInv, IdsInUse, OlderIds, AnswerIsComing
<1> QED BY <1>3, <1>4, <1>5 DEF LspInv

LEMMA EditKeeps ==
  ASSUME LspInv, NEW d \in Docs, Edit(d)
  PROVE  LspInv'
<1>1. /\ LspTypeOK /\ SpendLsp("texts") /\ text' = [text EXCEPT ![d] = @ + 1]
      /\ UNCHANGED <<client, server, toServer, toClient, query>>
  BY DEF Edit, LspInv
<1>2. /\ lspLeft' \in [calls : Nat, texts : Nat, faults : Nat, publishes : Nat]
      /\ lspLeft'.texts = lspLeft.texts - 1
  BY <1>1, SpendType
<1>3. ASSUME NEW e \in Docs
      PROVE  text'[e] \in Versions /\ text'[e] + lspLeft'.texts <= MaxTexts + 1
  <2> DEFINE v == text[e]
             left == lspLeft.texts
  <2>1. v \in 1..MaxTexts + 1 /\ left \in Nat /\ v + left <= MaxTexts + 1 /\ left > 0
    BY <1>1 DEF LspTypeOK, LspInv, TextsFit, SpendLsp, Versions
  <2>2. text'[e] = IF e = d THEN v + 1 ELSE v
    BY <1>1 DEF LspTypeOK
  <2>3. lspLeft'.texts = left - 1 /\ MaxTexts \in Nat
    BY <1>2, LspAssumption
  <2> HIDE DEF v, left
  <2>4. text'[e] \in 1..MaxTexts + 1
    BY <2>1, <2>2, <2>3
  <2>5. text'[e] + lspLeft'.texts <= MaxTexts + 1
    BY <2>1, <2>2, <2>3
  <2> QED BY <2>4, <2>5 DEF Versions
<1>4. LspTypeOK' /\ TextsFit'
  <2>1. text' = [e \in Docs |-> text'[e]]
    BY <1>1 DEF LspTypeOK
  <2>2. text' \in [Docs -> Versions]
    BY <1>3, <2>1
  <2> QED BY <1>1, <1>2, <1>3, <2>2 DEF LspTypeOK, TextsFit
<1>5. SessionAtWork' /\ TextIsNoted' /\ AnswersAreAboutTheTextRead'
  BY <1>1 DEF LspInv, SessionAtWork, TextIsNoted, AnswersAreAboutTheTextRead
<1>6. AnswerIsComing'
  BY <1>1 DEF LspInv, AnswerIsComing, RequestIsLast, Told, IsTextOf
<1> QED BY <1>1, <1>4, <1>5, <1>6, PipesAlike DEF LspInv

LEMMA LspStutterKeeps ==
  ASSUME LspInv, UNCHANGED lspVars
  PROVE  LspInv'
<1>1. LspTypeOK' /\ TextsFit' /\ SessionAtWork' /\ TextIsNoted' /\ AnswersAreAboutTheTextRead'
  BY DEF lspVars, LspInv, LspTypeOK, TextsFit, SessionAtWork, TextIsNoted, AnswersAreAboutTheTextRead
<1>2. AnswerIsComing'
  BY DEF lspVars, LspInv, AnswerIsComing, RequestIsLast, Told, IsTextOf
<1> QED BY <1>1, <1>2, PipesAlike DEF LspInv, lspVars

-----------------------------------------------------------------------------
(* The invariant holds of every behaviour *)

LEMMA LspInvHolds == LspSpec => []LspInv
<1>1. LspInit => LspInv
  <2> SUFFICES ASSUME LspInit PROVE LspInv
    OBVIOUS
  <2>1. MaxTexts \in Nat /\ MaxLspCalls \in Nat /\ MaxServerFaults \in Nat /\ MaxPublishes \in Nat
    BY LspAssumption
  <2>2. /\ text \in [Docs -> Versions] /\ lspLeft.texts = MaxTexts /\ \A d \in Docs : text[d] = 1
        /\ lspLeft \in [calls : Nat, texts : Nat, faults : Nat, publishes : Nat]
    BY <2>1 DEF LspInit, Versions
  <2>3. LspTypeOK
    BY <2>2, LspValues, EmptyPipes DEF LspInit, LspTypeOK
  <2>4. TextsFit
    BY <2>1, <2>2 DEF TextsFit
  <2>5. SessionAtWork /\ TextIsNoted /\ AnswerIsComing /\ AnswersAreAboutTheTextRead
    BY LspValues
    DEF LspInit, SessionAtWork, AtWork, TextIsNoted, AnswerIsComing, AnswersAreAboutTheTextRead
  <2>6. IdsInUse /\ NotesCatchUp
    BY LspValues DEF LspInit, IdsInUse, NotesCatchUp
  <2> QED BY <2>3, <2>4, <2>5, <2>6 DEF LspInv
<1>2. LspInv /\ [LspNext]_lspVars => LspInv'
  <2> SUFFICES ASSUME LspInv, [LspNext]_lspVars PROVE LspInv'
    OBVIOUS
  <2>1. CASE UNCHANGED lspVars \/ LspAtRest
    BY <2>1, LspStutterKeeps DEF LspAtRest
  <2>2. CASE \E k \in QueryKinds, d \in Docs : StartQuery(k, d)
    BY <2>2, StartQueryKeeps
  <2>3. CASE ReuseSession \/ StartSession \/ StartSessionFails \/ DropSessions
    BY <2>3, ReuseSessionKeeps, StartSessionKeeps, EndingKeeps
  <2>4. CASE Prepare \/ SyncImports \/ Ask
    BY <2>4, PrepareKeeps, SyncImportsKeeps, AskKeeps
  <2>5. CASE ReadAnswer \/ TakePublished \/ ReadPublished \/ GiveUp \/ EndOfStream
    BY <2>5, ReadAnswerKeeps, TakePublishedKeeps, ReadPublishedKeeps, GivingUpKeeps
  <2>6. CASE ServerReads \/ ServerDies \/ \E r \in server.asked : ServerAnswers(r)
    BY <2>6, ServerReadsKeeps, ServerDiesKeeps, ServerAnswersKeeps
  <2>7. CASE \E d \in Docs : ServerPublishes(d) \/ Edit(d)
    BY <2>7, ServerPublishesKeeps, EditKeeps
  <2> QED BY <2>1, <2>2, <2>3, <2>4, <2>5, <2>6, <2>7 DEF LspNext
<1> QED BY <1>1, <1>2, PTL DEF LspSpec

(* Every variable of the session, the server and their pipes holds a value of its kind. *)
THEOREM LspTypeCorrect == LspSpec => []LspTypeOK
<1>1. LspInv => LspTypeOK
  BY DEF LspInv
<1> QED BY <1>1, LspInvHolds, PTL

(* A call that asked the server is answered about the text it read from the disk, whatever
   was given up before and is answered late, and whichever process answers
   (read_response_for_id, sync_document). *)
THEOREM AnswersAboutTheText == LspSpec => []AnswersAreAboutTheTextRead
<1>1. LspInv => AnswersAreAboutTheTextRead
  BY DEF LspInv
<1> QED BY <1>1, LspInvHolds, PTL

(* A living server that has read its input holds of every document the text noted for it
   (sync_document sends only what differs from the note). *)
THEOREM NotesTrue == LspSpec => []NotesMatchServer
<1>1. LspInv => NotesMatchServer
  <2> SUFFICES ASSUME LspInv, client.present, server.alive, toServer = <<>>
               PROVE  server.texts = client.documents
    BY DEF NotesMatchServer
  <2>1. \A d \in Docs : Told(toServer, d) = {}
    BY EmptyPipes
  <2>2. \A d \in Docs : server.texts[d] = client.documents[d]
    BY <2>1 DEF LspInv, NotesCatchUp, ComesToHold
  <2>3. server.texts \in [Docs -> Held] /\ client.documents \in [Docs -> Held]
    BY DEF LspInv, LspTypeOK, ServerStates, Clients
  <2> QED BY <2>2, <2>3
<1> QED BY <1>1, LspInvHolds, PTL
=============================================================================
