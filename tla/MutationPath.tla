---------------------------- MODULE MutationPath ----------------------------
(***************************************************************************)
(* The way of a mutation through the dispatcher (crates/codelens-mcp/src/  *)
(* dispatch/mod.rs): the row that opens its operation in the audit log,    *)
(* the gate that asks for fresh verifier evidence (mutation_gate.rs,       *)
(* preflight_store.rs, orchestration_store.rs), the handler, the clearing  *)
(* of all evidence and the row that closes the operation (dispatch/        *)
(* session.rs, audit_sink.rs).  Calls of several sessions interleave: every*)
(* action below is what one thread does between two locks.                 *)
(***************************************************************************)
EXTENDS Naturals, Sequences, FiniteSets, SequencesExt

CONSTANTS
  Verifiers,      \* the verifier calls a run makes
  Edits,          \* the mutations it makes: each has its operation id
  Sessions,       \* the sessions they come from
  GatedSessions,  \* those on a surface that is gated (refactor-full, builder-minimal)
  Targets,        \* the paths calls name
  Symbols,        \* the symbols renames and symbol-aware verifiers name
  NoSymbol,       \* a call or an evidence that names none
  MaxMishaps      \* bound: audit rows that cannot be written, restarts and
                  \* project switches, together

ASSUME MutationAssumption ==
  /\ IsFiniteSet(Verifiers) /\ IsFiniteSet(Edits) /\ Verifiers \cap Edits = {}
  /\ GatedSessions \subseteq Sessions /\ Sessions # {}
  /\ NoSymbol \notin Symbols
  /\ MaxMishaps \in Nat

VARIABLES
  mutCall,        \* the calls
  preflights,     \* RecentPreflightStore: the last evidence of each session
  approvals,      \* OrchestrationStore: the paths of each session's run for
                  \* which a mutation is approved
  ledger,         \* the audit log: the rows of each operation, oldest first
  mishaps

MutCalls == Verifiers \cup Edits

mutVars == <<mutCall, preflights, approvals, ledger, mishaps>>

Phases == {"unsent", "analysing", "recorded", "gate", "handling", "clearing",
           "outcome", "failure", "answered", "refused", "lost"}
Effects == {"none", "whole", "partial"}
Statuses == {"none", "ok", "rolled_back", "no_op", "error"}
ApplyStatuses == {"silent", "applied", "rolled_back", "no_op"}
Closing == {"Audited", "RolledBack", "Failed", "Denied"}

NoEvidence == [paths |-> {}, symbol |-> NoSymbol, blocked |-> FALSE, entered |-> {}]

Unsent == [phase |-> "unsent", session |-> CHOOSE s \in Sessions : TRUE, paths |-> {},
           symbol |-> NoSymbol, run |-> FALSE, blocked |-> FALSE,
           status |-> "none", effect |-> "none", says |-> "silent", spent |-> {},
           unlogged |-> FALSE]

Calling == [phase : Phases, session : Sessions, paths : SUBSET Targets,
            symbol : Symbols \cup {NoSymbol}, run : BOOLEAN, blocked : BOOLEAN,
            status : Statuses,   \* what became of the change
            effect : Effects,    \* and what is left of it in the files
            says : ApplyStatuses,\* the apply_status the answer shows the dispatcher
            spent : SUBSET Edits, unlogged : BOOLEAN]

Preflights == [paths : SUBSET Targets, symbol : Symbols \cup {NoSymbol}, blocked : BOOLEAN,
               entered : SUBSET Edits]

(* Every variable holds a value of its kind. *)
MutationTypeOK ==
  /\ mutCall \in [MutCalls -> Calling]
  /\ preflights \in [Sessions -> Preflights]
  /\ approvals \in [Sessions -> SUBSET Targets]
  /\ ledger \in [Edits -> SeqOf(Closing \cup {"Verifying"}, 2)]
  /\ mishaps \in 0..MaxMishaps

MutationInit ==
  /\ mutCall = [c \in MutCalls |-> Unsent]
  /\ preflights = [s \in Sessions |-> NoEvidence]
  /\ approvals = [s \in Sessions |-> {}]
  /\ ledger = [c \in Edits |-> <<>>]
  /\ mishaps = 0
-----------------------------------------------------------------------------
(* Steps of a call, and rows of its operation. *)

To(c, phase) == mutCall' = [mutCall EXCEPT ![c].phase = phase]

(* The answer leaves of a call what the history needs. *)
Ended(call, phase) ==
  [Unsent EXCEPT !.phase = phase, !.status = call.status, !.effect = call.effect,
                 !.says = call.says, !.spent = call.spent, !.unlogged = call.unlogged]

Answer(c) == mutCall' = [mutCall EXCEPT ![c] = Ended(@, "answered")]

(* calls whose handler has started *)
Entered == {c \in Edits : mutCall[c].phase = "handling" \/ mutCall[c].status # "none"}

Mishap == mishaps < MaxMishaps /\ mishaps' = mishaps + 1

(* AuditSink::write: one INSERT, of a record validate_record accepts *)
RowWritten(c, row) ==
  /\ ledger' = [ledger EXCEPT ![c] = Append(@, row)]
  /\ UNCHANGED mishaps

RowFails ==
  /\ Mishap
  /\ UNCHANGED ledger

(* Evidence replaces what the session had, with the time of the record and not
   of the analysis. *)
Evidence(c) == [paths |-> mutCall[c].paths, symbol |-> mutCall[c].symbol,
                blocked |-> mutCall[c].blocked, entered |-> Entered]

RecordEvidence(c) == preflights' = [preflights EXCEPT ![mutCall[c].session] = Evidence(c)]
-----------------------------------------------------------------------------
(* A verifier: verify_change_readiness and its like ("symbol" is named by the
   symbol-aware ones only), or orchestrate_change for a run. *)
AskVerifier(c, s, paths, sym, orchestrate, blocked) ==
  /\ mutCall[c].phase = "unsent"
  /\ mutCall' = [mutCall EXCEPT ![c] = [Unsent EXCEPT
       !.phase = "analysing", !.session = s, !.paths = paths, !.symbol = sym,
       !.run = orchestrate, !.blocked = blocked]]
  /\ UNCHANGED <<preflights, approvals, ledger, mishaps>>

(* The end of orchestrate_change: evidence, then the approval that was granted,
   which replaces that of the run: one for other actions than the mutation is
   as good as none. *)
OrchestrateRecords(c, granted, allows) ==
  /\ mutCall[c].phase = "analysing" /\ mutCall[c].run
  /\ To(c, "recorded")
  /\ RecordEvidence(c)
  /\ approvals' = IF granted /\ ~mutCall[c].blocked
                  THEN [approvals EXCEPT ![mutCall[c].session] =
                          IF allows THEN mutCall[c].paths ELSE {}]
                  ELSE approvals
  /\ UNCHANGED <<ledger, mishaps>>

(* record_verifier_preflight: every verifier's answer leaves its evidence, that
   of orchestrate_change a second time *)
AnswerVerifier(c) ==
  /\ mutCall[c].phase = (IF mutCall[c].run THEN "recorded" ELSE "analysing")
  /\ Answer(c)
  /\ RecordEvidence(c)
  /\ UNCHANGED <<approvals, ledger, mishaps>>
-----------------------------------------------------------------------------
(* A mutation is refused by role, access or a missing parameter, which leaves
   one row. *)
RefuseMutation(c, s, row) ==
  /\ mutCall[c].phase = "unsent"
  /\ \E logged \in BOOLEAN :
       /\ IF logged THEN RowWritten(c, row) ELSE RowFails
       /\ mutCall' = [mutCall EXCEPT ![c] = [Unsent EXCEPT
            !.phase = "refused", !.session = s, !.unlogged = ~logged]]
  /\ UNCHANGED <<preflights, approvals>>

Opened(c, s, paths, sym, run, phase) ==
  mutCall' = [mutCall EXCEPT ![c] = [Unsent EXCEPT
    !.phase = phase, !.session = s, !.paths = paths, !.symbol = sym, !.run = run]]

BeginUnlogged(c, s, paths, sym, run) ==                            \* mutant
  /\ mutCall[c].phase = "unsent"
  /\ Opened(c, s, paths, sym, run, "gate")
  /\ RowWritten(c, "Verifying") \/ RowFails
  /\ UNCHANGED <<preflights, approvals>>

(* begin_mutation_operation: without the row that opens it there is no
   operation *)
BeginMutation(c, s, paths, sym, run) ==
  /\ mutCall[c].phase = "unsent"
  /\ \/ RowWritten(c, "Verifying") /\ Opened(c, s, paths, sym, run, "gate")
     \/ RowFails /\ Opened(c, s, paths, sym, run, "refused")
  /\ UNCHANGED <<preflights, approvals>>

(* evaluate_mutation_gate.  A caution is no reason to refuse. *)
EvidenceSuffices(c, e) ==
  /\ mutCall[c].paths \cap e.paths # {}
  /\ mutCall[c].symbol \in {NoSymbol, e.symbol}
  /\ ~e.blocked

GatePasses(c) ==
  LET s == mutCall[c].session
  IN  s \in GatedSessions =>
        /\ EvidenceSuffices(c, preflights[s])
        /\ mutCall[c].run => mutCall[c].paths \cap approvals[s] # {}

(* history: the calls answered with success whose handler started only after
   the evidence of session s was there *)
AnsweredSince(s) ==
  {d \in Edits \ preflights[s].entered :
     /\ mutCall[d].phase = "answered"
     /\ mutCall[d].status \in {"ok", "rolled_back"} /\ mutCall[d].effect # "none"}

(* What the call named is dropped: after the gate nothing asks for it. *)
PassGate(c) ==
  LET s == mutCall[c].session
      spent == IF GatePasses(c) /\ s \in GatedSessions THEN AnsweredSince(s) ELSE {}
  IN  /\ mutCall[c].phase = "gate"
      /\ mutCall' = [mutCall EXCEPT ![c] = [Unsent EXCEPT
            !.phase = IF GatePasses(c) THEN "handling" ELSE "failure",
            !.session = s, !.spent = spent]]
      /\ UNCHANGED <<preflights, approvals, ledger, mishaps>>

(* What a handler leaves behind, and whether its answer says so where the
   dispatcher looks: all of its change; a change that was rolled back, of which
   a part may stay when a file cannot be restored; nothing, when there was
   nothing to do or only a preview was asked for; or an error, after which a
   tool that writes without a rollback leaves a part.  merge_apply_evidence puts
   apply_status at the top of the answer; the answer of the tree-sitter move has
   none, and a deletion and the language server's edits keep it in a contract. *)
HandlerEnds ==
  UNION {{"ok"} \X {"whole"} \X {"applied", "silent"},
         {"rolled_back"} \X {"none", "partial"} \X {"rolled_back", "silent"},
         {"no_op"} \X {"none"} \X {"no_op", "silent"},
         {"error"} \X {"none", "partial"} \X {"silent"}}

RunHandler(c) ==
  /\ mutCall[c].phase = "handling"
  /\ \E end \in HandlerEnds :
       mutCall' = [mutCall EXCEPT
         ![c].status = end[1], ![c].effect = end[2], ![c].says = end[3],
         ![c].phase = IF end[1] = "error" THEN "failure" ELSE "clearing"]
  /\ UNCHANGED <<preflights, approvals, ledger, mishaps>>

ClearOwnEvidence(c) ==                                             \* mutant
  /\ mutCall[c].phase = "clearing"
  /\ preflights' = [preflights EXCEPT ![mutCall[c].session] = NoEvidence]
  /\ To(c, "outcome")
  /\ UNCHANGED <<approvals, ledger, mishaps>>

(* apply_post_mutation: the evidence of every session and project is gone, that
   of a rolled back or empty change too *)
ClearEvidence(c) ==
  /\ mutCall[c].phase = "clearing"
  /\ preflights' = [s \in Sessions |-> NoEvidence]
  /\ To(c, "outcome")
  /\ UNCHANGED <<approvals, ledger, mishaps>>

(* The apply_status of the answer, and the row it calls for: an answer that shows
   none counts as applied. *)
AnsweredStatus(c) == IF mutCall[c].says = "silent" THEN "applied" ELSE mutCall[c].says

OutcomeRow(c) == IF AnsweredStatus(c) = "rolled_back" THEN "RolledBack" ELSE "Audited"

OutcomeAlsoFails(c) ==                                             \* mutant
  /\ mutCall[c].phase = "outcome"
  /\ \/ RowWritten(c, OutcomeRow(c)) /\ (Answer(c) \/ To(c, "failure"))
     \/ RowFails /\ mutCall' = [mutCall EXCEPT ![c].phase = "failure", ![c].unlogged = TRUE]
  /\ UNCHANGED <<preflights, approvals>>

(* record_audit_outcome; when its row cannot be written the call becomes an
   error, although the change stands *)
RecordOutcome(c) ==
  /\ mutCall[c].phase = "outcome"
  /\ \/ RowWritten(c, OutcomeRow(c)) /\ Answer(c)
     \/ RowFails /\ mutCall' = [mutCall EXCEPT ![c].phase = "failure", ![c].unlogged = TRUE]
  /\ UNCHANGED <<preflights, approvals>>

(* record_audit_failure *)
RecordFailure(c) ==
  /\ mutCall[c].phase = "failure"
  /\ \/ RowWritten(c, "Failed") /\ Answer(c)
     \/ RowFails /\ mutCall' = [mutCall EXCEPT ![c] = [Ended(@, "answered") EXCEPT !.unlogged = TRUE]]
  /\ UNCHANGED <<preflights, approvals>>
-----------------------------------------------------------------------------
(* Evidence and approval live for the preflight TTL; what is older is refused as
   if it were not there. *)
EvidenceAges(s) ==
  /\ preflights[s] # NoEvidence
  /\ preflights' = [preflights EXCEPT ![s] = NoEvidence]
  /\ UNCHANGED <<mutCall, approvals, ledger, mishaps>>

ApprovalAges(s) ==
  /\ approvals[s] # {}
  /\ approvals' = [approvals EXCEPT ![s] = {}]
  /\ UNCHANGED <<mutCall, preflights, ledger, mishaps>>

Forget ==
  /\ Mishap
  /\ preflights' = [s \in Sessions |-> NoEvidence]
  /\ approvals' = [s \in Sessions |-> {}]

(* activate_project_context: another project is made active, and back *)
SwitchProject == Forget /\ UNCHANGED <<mutCall, ledger>>

Underway == {c \in MutCalls : mutCall[c].phase \notin {"unsent", "answered", "refused", "lost"}}

(* A restart keeps the audit log and nothing else; a handler it cuts short may
   have written a part. *)
Restart ==
  /\ Forget
  /\ \E torn \in SUBSET {c \in Underway : mutCall[c].phase = "handling"} :
       mutCall' = [c \in MutCalls |->
         IF c \in Underway
         THEN [Ended(mutCall[c], "lost") EXCEPT !.effect = IF c \in torn THEN "partial" ELSE @]
         ELSE mutCall[c]]
  /\ UNCHANGED ledger

MutationAtRest ==
  /\ \A c \in MutCalls : mutCall[c].phase \in {"answered", "refused", "lost"}
  /\ UNCHANGED mutVars

MutationNext ==
  \/ \E s \in Sessions, paths \in (SUBSET Targets) \ {{}}, sym \in Symbols \cup {NoSymbol}, run \in BOOLEAN :
       \/ \E c \in Verifiers, blocked \in BOOLEAN : AskVerifier(c, s, paths, sym, run, blocked)
       \/ \E c \in Edits : BeginMutation(c, s, paths, sym, run)
  \/ \E c \in Edits, s \in Sessions, row \in {"Denied", "Failed"} : RefuseMutation(c, s, row)
  \/ \E c \in Verifiers : \/ \E granted, allows \in BOOLEAN : OrchestrateRecords(c, granted, allows)
                          \/ AnswerVerifier(c)
  \/ \E c \in Edits : \/ PassGate(c) \/ RunHandler(c) \/ ClearEvidence(c)
                      \/ RecordOutcome(c) \/ RecordFailure(c)
  \/ \E s \in Sessions : EvidenceAges(s) \/ ApprovalAges(s)
  \/ SwitchProject \/ Restart
  \/ MutationAtRest

MutationSpec == MutationInit /\ [][MutationNext]_mutVars
-----------------------------------------------------------------------------
(* What the audit log can be believed about.  A file an operation has changed,
   even one a crash cut short, is announced by a row that opens it.  An operation
   has one closing row at most.  RolledBack is only written for a change that was
   rolled back, Audited only after the handler's success, which is also written
   for a rollback the answer does not show; Failed for one that changed all it
   was to change only when a row was lost.  An operation that was answered and
   whose rows were all written is closed. *)
LedgerTellsTheTruth ==
  \A c \in Edits :
    LET rows == ledger[c]
        closing == {k \in DOMAIN rows : rows[k] \in Closing}
        Says(row) == \E k \in closing : rows[k] = row
        call == mutCall[c]
    IN  /\ call.effect # "none" => rows # <<>> /\ rows[1] = "Verifying"
        /\ \A j, k \in closing : j = k
        /\ Says("Audited") => \/ call.status \in {"ok", "no_op"}
                              \/ call.status = "rolled_back" /\ call.says = "silent"
        /\ Says("RolledBack") => call.status = "rolled_back"
        /\ Says("Failed") /\ call.effect = "whole" => call.unlogged
        /\ (rows # <<>> /\ call.phase \in {"answered", "refused"} /\ ~call.unlogged)
             => closing # {}

(* A mutation never passes the gate on evidence an answered mutation, of any
   session, has outdated: one whose handler started after the evidence was
   recorded and that was answered with success before the gate was asked. *)
NoSpentEvidence == \A c \in Edits : mutCall[c].spent = {}
=============================================================================
