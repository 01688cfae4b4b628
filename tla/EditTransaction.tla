--------------------------- MODULE EditTransaction ---------------------------
(***************************************************************************)
(* One edit of several files (crates/codelens-engine/src/                  *)
(* edit_transaction.rs, atomic_write.rs, rename.rs), next to an editor     *)
(* that writes the same files at any moment.  Three entry points:          *)
(*   "edits"   apply_with_evidence: text edits from a language server,     *)
(*             each applied where the old text still stands                *)
(*   "writes"  apply_full_write(s)_with_evidence: whole new contents, also *)
(*             of files that do not exist yet                              *)
(*   "bare"    apply_edits called directly, by rename, inline and          *)
(*             change_signature: no capture and no rollback                *)
(* A file's content is where it comes from and whether the edit is in it.  *)
(***************************************************************************)
EXTENDS Naturals, Sequences, FiniteSets, SequencesExt

CONSTANTS
  EditFiles,      \* the files of the edit
  MaxForeign,     \* bound: writes of the editor
  MaxIoFaults     \* bound: writes that fail

ASSUME EditAssumption ==
  IsFiniteSet(EditFiles) /\ MaxForeign \in Nat /\ MaxIoFaults \in Nat

VARIABLES
  content,        \* the files on the disk
  tx,             \* the running edit
  foreign,        \* how often the editor has written
  ioFaults,       \* how many writes have failed
  touched,        \* history: files the editor wrote during the edit
  unguarded,      \* history: those it wrote outside the window the edit guards
  lost            \* history: files whose foreign content the edit replaced

editVars == <<content, tx, foreign, ioFaults, touched, unguarded, lost>>

Missing == [base |-> "missing", edited |-> FALSE]
Original == [base |-> "original", edited |-> FALSE]
Foreign == [base |-> "foreign", edited |-> FALSE]
Torn == [base |-> "torn", edited |-> FALSE]     \* truncated by a write that failed
Whole == [base |-> "original", edited |-> TRUE] \* what a full write puts there

Contents == [base : {"missing", "original", "foreign", "torn"}, edited : BOOLEAN]
Kinds == {"edits", "writes", "bare"}
Places == {"none", "capture", "verify", "apply", "rollback", "done"}
Reports == {"none", "restored", "unrestored"}

Transactions ==
  [kind : Kinds, at : Places, order : Seq(EditFiles), next : Nat, text : Contents,
   backup : [EditFiles -> Contents], written : SUBSET EditFiles, report : [EditFiles -> Reports],
   status : {"none", "Applied", "Refused", "RolledBack", "Error"}]

NoTx == [kind |-> "bare", at |-> "none", order |-> <<>>, next |-> 1, text |-> Missing,
         backup |-> [f \in EditFiles |-> Missing], written |-> {},
         report |-> [f \in EditFiles |-> "none"], status |-> "none"]

(* Every variable holds a value of its kind. *)
EditTypeOK ==
  /\ content \in [EditFiles -> Contents]
  /\ tx \in Transactions
  /\ foreign \in 0..MaxForeign /\ ioFaults \in 0..MaxIoFaults
  /\ touched \cup unguarded \cup lost \subseteq EditFiles

EditInit ==
  /\ content \in [EditFiles -> {Original, Missing}]
  /\ tx = NoTx
  /\ foreign = 0 /\ ioFaults = 0
  /\ touched = {} /\ unguarded = {} /\ lost = {}
-----------------------------------------------------------------------------
Current == tx.order[tx.next]
IsLast == tx.next = Len(tx.order)

(* the next file of this phase, or the first one of the next phase *)
Advance(place) == IF IsLast THEN [at |-> place, next |-> 1] ELSE [at |-> tx.at, next |-> tx.next + 1]

Move(a, t) == [t EXCEPT !.at = a.at, !.next = a.next]

End(status) == tx' = [tx EXCEPT !.at = "done", !.status = status]

(* A full write may create files; text edits come from files that exist.  The
   files of a batch are written in the caller's order, those of apply_edits in
   the order of a hash map. *)
StartEdit(kind, order) ==
  /\ tx.at = "none"
  /\ kind = "writes" \/ \A f \in ToSet(order) : content[f] # Missing
  /\ tx' = [NoTx EXCEPT !.kind = kind, !.order = order,
                        !.at = IF kind = "bare" THEN "apply" ELSE "capture"]
  /\ UNCHANGED <<content, foreign, ioFaults, touched, unguarded, lost>>

(* capture: a backup of each file; only a full write accepts a missing one *)
Capture ==
  /\ tx.at = "capture"
  /\ IF content[Current] = Missing /\ tx.kind = "edits"
     THEN End("Refused")
     ELSE tx' = Move(Advance("verify"), [tx EXCEPT !.backup[Current] = content[Current]])
  /\ UNCHANGED <<content, foreign, ioFaults, touched, unguarded, lost>>

VerifyNothing ==                                                   \* mutant
  /\ tx.at = "verify"
  /\ tx' = Move(Advance("apply"), tx)
  /\ UNCHANGED <<content, foreign, ioFaults, touched, unguarded, lost>>

(* verify: the file is read again and compared; one that did not exist is not
   looked at *)
Verify ==
  /\ tx.at = "verify"
  /\ IF tx.backup[Current] # Missing /\ content[Current] # tx.backup[Current]
     THEN End("Refused")
     ELSE tx' = Move(Advance("apply"), tx)
  /\ UNCHANGED <<content, foreign, ioFaults, touched, unguarded, lost>>

(* write_atomic: a temporary renamed over the file, which a failure leaves as
   it was; but in a directory that takes no new entries the file is written in
   place, and a failure may leave it truncated. *)
WriteAtomic(f, new, ok) ==
  \/ /\ ok
     /\ content' = [content EXCEPT ![f] = new]
     /\ UNCHANGED ioFaults
  \/ /\ ~ok /\ ioFaults < MaxIoFaults
     /\ ioFaults' = ioFaults + 1
     /\ \/ UNCHANGED content
        \/ content[f] # Missing /\ content' = [content EXCEPT ![f] = Torn]

Replaced(f, seen) ==
  lost' = IF content[f].base = "foreign" /\ seen.base # "foreign" THEN lost \cup {f} ELSE lost

(* apply_edits reads the file once more and puts in the edits whose old text it
   finds, if the editor changed something else; what it read is written later *)
ReadForEdit ==
  /\ tx.at = "apply" /\ tx.kind # "writes" /\ tx.text = Missing
  /\ \/ /\ content[Current] # Missing
        /\ \E hit \in IF content[Current] = Original THEN {TRUE} ELSE BOOLEAN :
             tx' = [tx EXCEPT !.text = [content[Current] EXCEPT !.edited = hit]]
     \/ /\ content[Current] = Missing
        /\ IF tx.kind = "bare" THEN End("Error")
           ELSE tx' = [tx EXCEPT !.at = "rollback", !.next = 1]
  /\ UNCHANGED <<content, foreign, ioFaults, touched, unguarded, lost>>

NewText == IF tx.kind = "writes" THEN Whole ELSE tx.text

Apply ==
  /\ tx.at = "apply"
  /\ tx.kind = "writes" \/ tx.text # Missing
  /\ \E ok \in BOOLEAN :
       /\ WriteAtomic(Current, NewText, ok)
       /\ IF ok
          THEN /\ Replaced(Current, NewText)
               /\ tx' = IF IsLast THEN [tx EXCEPT !.at = "done", !.status = "Applied", !.text = Missing]
                        ELSE [tx EXCEPT !.next = @ + 1, !.text = Missing, !.written = @ \cup {Current}]
          ELSE /\ UNCHANGED lost
               /\ IF tx.kind = "bare" THEN End("Error")
                  ELSE tx' = [tx EXCEPT !.at = "rollback"]
  /\ UNCHANGED <<foreign, touched, unguarded>>

ToRestoreWithoutFirst ==                                           \* mutant
  {f \in ToSet(tx.order) \ {tx.order[1]} : f \in tx.written /\ tx.report[f] = "none"}

(* which files a rollback takes up again: text edits restore every file of the
   edit; full writes the ones written before the failure, newest first; a single
   full write the file whose write failed *)
ToRestore ==
  {f \in ToSet(tx.order) :
     /\ tx.report[f] = "none"
     /\ tx.kind = "writes" => IF Len(tx.order) = 1 THEN tx.backup[f] # Missing
                              ELSE f \in tx.written}

Position(f) == CHOOSE i \in 1..Len(tx.order) : tx.order[i] = f

RestoreNext(f) ==
  /\ f \in ToRestore
  /\ tx.kind = "writes" => \A g \in ToRestore : Position(g) <= Position(f)

RemoveFile(f, ok) ==
  /\ ok => content[f] # Missing
  /\ ~ok /\ content[f] # Missing => ioFaults < MaxIoFaults
  /\ content' = IF ok THEN [content EXCEPT ![f] = Missing] ELSE content
  /\ ioFaults' = IF ~ok /\ content[f] # Missing THEN ioFaults + 1 ELSE ioFaults

(* a file that did not exist is deleted again *)
Restore ==
  /\ tx.at = "rollback"
  /\ \E f \in EditFiles, ok \in BOOLEAN :
       /\ RestoreNext(f)
       /\ IF tx.backup[f] # Missing THEN WriteAtomic(f, tx.backup[f], ok)
          ELSE RemoveFile(f, ok)
       /\ tx' = [tx EXCEPT !.report[f] = IF ok THEN "restored" ELSE "unrestored"]
       /\ IF ok THEN Replaced(f, tx.backup[f]) ELSE UNCHANGED lost
  /\ UNCHANGED <<foreign, touched, unguarded>>

(* the file whose write failed is reported as not restored *)
RollbackEnds ==
  /\ tx.at = "rollback" /\ ToRestore = {}
  /\ tx' = [tx EXCEPT !.at = "done", !.status = "RolledBack",
              !.report = [f \in EditFiles |-> IF tx.kind = "writes" /\ f = Current /\ @[f] = "none"
                                              THEN "unrestored" ELSE @[f]]]
  /\ UNCHANGED <<content, foreign, ioFaults, touched, unguarded, lost>>

(* the next edit; the files are what this one left *)
NextEdit ==
  /\ tx.at = "done"
  /\ tx' = NoTx
  /\ content' \in [EditFiles -> {Original, Missing}]
  /\ touched' = {} /\ unguarded' = {} /\ lost' = {}
  /\ UNCHANGED <<foreign, ioFaults>>

(* The files whose changes the edit detects or keeps: between capture and
   verification, and, for text edits, before the capture. *)
Guarded ==
  LET before == ToSet(SubSeq(tx.order, 1, tx.next - 1)) IN
  CASE tx.at = "capture" -> {f \in before : tx.backup[f] # Missing} \cup
                            (IF tx.kind = "edits" THEN EditFiles \ before ELSE {})
    [] tx.at = "verify" -> {f \in EditFiles \ before : tx.backup[f] # Missing}
    [] OTHER -> {}

(* The editor writes, creates or deletes a file while the edit runs. *)
ForeignWrite(f) ==
  /\ foreign < MaxForeign
  /\ foreign' = foreign + 1
  /\ tx.at \notin {"none", "done"} /\ f \in ToSet(tx.order)
  /\ content' \in {[content EXCEPT ![f] = new] : new \in {Foreign, Missing} \ {content[f]}}
  /\ touched' = touched \cup {f}
  /\ unguarded' = IF f \in Guarded THEN unguarded ELSE unguarded \cup {f}
  /\ UNCHANGED <<tx, ioFaults, lost>>

EditNext ==
  \/ \E kind \in Kinds, S \in (SUBSET EditFiles) \ {{}} : \E order \in SetToSeqs(S) : StartEdit(kind, order)
  \/ Capture \/ Verify \/ ReadForEdit \/ Apply \/ Restore \/ RollbackEnds \/ NextEdit
  \/ \E f \in EditFiles : ForeignWrite(f)

EditSpec == EditInit /\ [][EditNext]_editVars
-----------------------------------------------------------------------------
EditedFiles == ToSet(tx.order)

(* When the edit says it was applied, it is in every file; when it refused,
   in none; when it rolled back, every file is as it was captured, or the
   report names it as not restored.  Files the editor wrote meanwhile are
   excepted.  (A bare edit that fails promises nothing and keeps nothing.) *)
AllOrNothingOrTold ==
  tx.at = "done" =>
    /\ tx.status = "Applied" => \A f \in EditedFiles \ touched : content[f].edited
    /\ tx.status = "Refused" => \A f \in EditedFiles : ~content[f].edited /\ content[f] # Torn
    /\ tx.status = "RolledBack" =>
         \A f \in EditedFiles \ touched :
            content[f] = tx.backup[f] \/ tx.report[f] = "unrestored"

(* What the editor writes between the capture of a file and its verification
   is never replaced by the edit, whatever fails later. *)
GuardedWritesSurvive == lost \subseteq unguarded
=============================================================================
