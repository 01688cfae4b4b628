---------------------------- MODULE MCComponents ----------------------------
(***************************************************************************)
(* Instances of eight components for TLC.  They share no state, so one     *)
(* component is chosen at the start and runs alone: the states are those   *)
(* of the eight runs together.                                             *)
(***************************************************************************)
EXTENDS SymbolIndex, EditTransaction, MutationPath, SessionStore, LspSession,
        ArtifactStore, Coordination, CircularDependencies, TLC

CONSTANTS fa, fb, fc, ma, mb, p, q, r, da, db, sa, sb, ta, tb, tc, ua, ub, ca, cb, cc

(* SymbolIndex: how many changes, calls, failed transactions and fenced reads. *)
Budget(changes, calls, faults, reads) ==
  [changes |-> changes, calls |-> calls, faults |-> faults, reads |-> reads]

MCBudgets == {Budget(2, 1, 0, 0), Budget(1, 2, 0, 0), Budget(1, 1, 1, 0),
              Budget(2, 0, 2, 0), Budget(2, 0, 0, 1)}

(* LspSession: one file imports the other. *)
MCImports == (da :> {db}) @@ (db :> {})

(* ArtifactStore: two threads of one process, and one of another that stores. *)
MCServerOf == (ta :> sa) @@ (tb :> sa) @@ (tc :> sb)
MCDoes == (ta :> {"store", "lookup", "get"}) @@ (tb :> {"lookup", "upsert", "activate"})
            @@ (tc :> {"store"})

(* Coordination: two calls of one session and a claim of another. *)
MCAgentOf == (ca :> ua) @@ (cb :> ua) @@ (cc :> ub)

(* CircularDependencies: two pairs of files that may import each other, and   *)
(* imports that may close a longer loop; a search of all files, one that      *)
(* answers with one cycle, and one that reads a single file.                  *)
Import(from, to, timings) == {[from |-> from, to |-> to, timing |-> t] : t \in timings}
MCStatements ==
  UNION {Import(e[1], e[2], {"eager", "deferred", "erased"}) :
           e \in {<<1, 2>>, <<2, 1>>, <<3, 4>>, <<4, 3>>}}
    \union Import(2, 3, {"eager"}) \union Import(3, 1, {"eager"})
MCDeclarations == {{}, {3}}
MCAncestors == {<<2, 1>>}
Search(scans, limit) == [scans |-> scans, limit |-> limit]
MCSearches == {Search(4, 0), Search(4, 1), Search(1, 0)}

(* Callers, files, mutations, requests and calls that are alike are taken in   *)
(* the order of their names: any other order is one of these, renamed.  Only  *)
(* the first mutation may be answered without its apply_status.  Of the calls *)
(* to coordination the first may be any, the second claims or releases, and   *)
(* the other session's claims one file.                                       *)
Sent(at) == at # "unsent"
CallersInOrder ==
  task[q].at = "idle" /\ task'[q].at # "idle" => task[p].at # "idle"
FilesInOrder == tx'.order \in {<<>>, <<fa>>, <<fa, fb>>, <<fa, fb, fc>>}
EditsInOrder ==
  /\ Sent(mutCall'[mb].phase) => Sent(mutCall'[ma].phase)
  /\ mutCall'[mb].status \in {"none", "error"} \/ mutCall'[mb].says # "silent"
RequestsInOrder ==
  /\ Sent(req'[q].at) => Sent(req'[p].at)
  /\ Sent(req'[r].at) => Sent(req'[q].at)
FirstFile == CHOOSE f \in ClaimedFiles : TRUE
ClaimsInOrder ==
  /\ Sent(claimCall'[cb].at) => Sent(claimCall'[ca].at)
  /\ claimCall'[ca].paths # {} => FirstFile \in claimCall'[ca].paths
  /\ claimCall'[cb].at = "waiting" => claimCall'[cb].op \in {"claim", "release"}
  /\ claimCall'[cc].at = "waiting" => claimCall'[cc].op = "claim" /\ claimCall'[cc].paths # ClaimedFiles

VARIABLE focus

ComponentsInit ==
  /\ focus \in {"index", "edit", "mutation", "session", "lsp", "artifact", "coordination",
                "circular"}
  /\ IndexInit /\ EditInit /\ MutationInit /\ SessionInit /\ LspInit /\ ArtifactInit
  /\ CoordinationInit
  /\ focus # "index" => budget = Budget(2, 1, 0, 0)
  /\ focus # "edit" => \A f \in EditFiles : content[f] = Original
  /\ IF focus = "circular" THEN CircularInit
     ELSE /\ language = "rust" /\ statements = {} /\ declared = {}
          /\ search = Search(1, 0) /\ answered = FALSE /\ cycles = <<>>

ComponentsNext ==
  \/ focus = "index" /\ IndexNext /\ CallersInOrder
     /\ UNCHANGED <<focus, editVars, mutVars, sessionVars, lspVars, artVars, coordVars,
                  circularVars>>
  \/ focus = "edit" /\ EditNext /\ FilesInOrder
     /\ UNCHANGED <<focus, indexVars, mutVars, sessionVars, lspVars, artVars, coordVars,
                  circularVars>>
  \/ focus = "mutation" /\ MutationNext /\ EditsInOrder
     /\ UNCHANGED <<focus, indexVars, editVars, sessionVars, lspVars, artVars, coordVars,
                  circularVars>>
  \/ focus = "session" /\ SessionNext /\ RequestsInOrder
     /\ UNCHANGED <<focus, indexVars, editVars, mutVars, lspVars, artVars, coordVars,
                  circularVars>>
  \/ focus = "lsp" /\ LspNext
     /\ UNCHANGED <<focus, indexVars, editVars, mutVars, sessionVars, artVars, coordVars,
                  circularVars>>
  \/ focus = "artifact" /\ ArtifactNext
     /\ UNCHANGED <<focus, indexVars, editVars, mutVars, sessionVars, lspVars, coordVars,
                  circularVars>>
  \/ focus = "coordination" /\ CoordinationNext /\ ClaimsInOrder
     /\ UNCHANGED <<focus, indexVars, editVars, mutVars, sessionVars, lspVars, artVars,
                  circularVars>>
  \/ focus = "circular" /\ CircularNext
     /\ UNCHANGED <<focus, indexVars, editVars, mutVars, sessionVars, lspVars, artVars,
                  coordVars>>

ComponentsSpec ==
  /\ ComponentsInit
  /\ [][ComponentsNext]_<<focus, indexVars, editVars, mutVars, sessionVars, lspVars, artVars,
                          coordVars, circularVars>>

(* The other components stand still: the states are told apart by the one that runs. *)
FocusView ==
  CASE focus = "index" -> <<focus, indexVars>>
    [] focus = "edit" -> <<focus, editVars>>
    [] focus = "mutation" -> <<focus, mutVars>>
    [] focus = "session" -> <<focus, sessionVars>>
    [] focus = "lsp" -> <<focus, lspVars>>
    [] focus = "artifact" -> <<focus, artVars>>
    [] focus = "coordination" -> <<focus, coordVars>>
    [] focus = "circular" -> <<focus, circularVars>>

(* Every variable of the component that runs holds a value of its kind. *)
ComponentsTypeOK ==
  CASE focus = "index" -> IndexTypeOK
    [] focus = "edit" -> EditTypeOK
    [] focus = "mutation" -> MutationTypeOK
    [] focus = "session" -> SessionTypeOK
    [] focus = "lsp" -> LspTypeOK
    [] focus = "artifact" -> ArtifactTypeOK
    [] focus = "coordination" -> CoordinationTypeOK
    [] focus = "circular" -> CircularTypeOK
=============================================================================
