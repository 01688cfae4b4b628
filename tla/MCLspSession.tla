---------------------------- MODULE MCLspSession ----------------------------
(***************************************************************************)
(* The instance of LspSession in which diagnostics of an older text are    *)
(* taken for those of the newest.                                          *)
(***************************************************************************)
EXTENDS LspSession, TLC

CONSTANTS da, db

(* One file imports the other. *)
MCImports == (da :> {db}) @@ (db :> {})
=============================================================================
