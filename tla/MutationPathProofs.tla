------------------------- MODULE MutationPathProofs -------------------------
(***************************************************************************)
(* Proofs about the edits of files and the way of a mutation that leads to *)
(* one, for any files, calls, sessions, targets and number of mishaps.     *)
(***************************************************************************)
EXTENDS EditTransaction, MutationPath, FiniteSetTheorems, SequenceTheorems, TLAPS

(***************************************************************************)
(* One edit of several files (EditTransaction).                            *)
(***************************************************************************)
(* The files the running phase has been at. *)
Past(f) == \E i \in 1..Len(tx.order) : i < tx.next /\ tx.order[i] = f

(* Each file comes once, and a phase is always at one of them. *)
OrderFits ==
  /\ \A i, j \in 1..Len(tx.order) : tx.order[i] = tx.order[j] => i = j
  /\ tx.at # "none" => tx.next \in 1..Len(tx.order)
  /\ tx.at \in {"capture", "verify", "rollback"} => tx.kind # "bare"

(* A full write that runs has written the files it has been at, and no other. *)
WrittenArePast ==
  /\ tx.at \in {"none", "capture", "verify"} => tx.written = {}
  /\ tx.at \in {"apply", "rollback"} /\ tx.kind = "writes" => tx.written = {f \in EditFiles : Past(f)}

(* Before anything is written, a file is what it was or what the editor made of it. *)
NothingEdited ==
  /\ tx.at = "none" => \A f \in EditFiles : content[f] \in {Original, Missing}
  /\ tx.at \in {"capture", "verify"} => \A f \in EditFiles : content[f] \in {Original, Missing, Foreign}

(* Text edits find the text they were computed from in a file the editor left alone. *)
TextsStand ==
  tx.at \in {"capture", "verify", "apply"} /\ tx.kind # "writes" =>
    \A f \in EditedFiles \ touched : (tx.at = "apply" /\ Past(f)) \/ content[f] = Original

(* What was applied stays in a file the editor left alone. *)
EditedSoFar ==
  tx.at = "apply" => \A f \in EditedFiles \ touched : Past(f) => content[f].edited

(* Where the captured content of a file must still be on the disk. *)
NotReached(f) ==
  \/ tx.at = "capture" /\ Past(f)
  \/ tx.at = "verify"
  \/ tx.at = "apply" /\ ~Past(f)
  \/ tx.at = "rollback" /\ tx.kind = "writes" /\ ~Past(f) /\ f # Current

BackupsStand ==
  tx.kind # "bare" => \A f \in EditedFiles \ touched : NotReached(f) => content[f] = tx.backup[f]

(* What the rollback reports as restored is. *)
RestoredIsBack ==
  /\ tx.at \in {"none", "capture", "verify", "apply"} => \A f \in EditFiles : tx.report[f] = "none"
  /\ tx.at = "rollback" =>
       \A f \in EditedFiles \ touched : tx.report[f] = "restored" => content[f] = tx.backup[f]

(* A captured file that the verification, still to come, will find changed. *)
WillRefuse(f) ==
  /\ \/ tx.at = "capture" /\ Past(f)
     \/ tx.at = "verify" /\ f \in EditedFiles /\ ~Past(f)
  /\ tx.backup[f] # Missing /\ content[f] # tx.backup[f]

(* What the editor wrote inside the guarded window is still to be captured, is what
   was captured, or will be found. *)
ForeignIsKnown ==
  tx.at \in {"capture", "verify", "apply", "rollback"} =>
    \A f \in EditFiles : content[f].base = "foreign" =>
      \/ f \in unguarded
      \/ tx.kind = "edits" /\ tx.at = "capture" /\ f \in EditedFiles /\ ~Past(f)
      \/ tx.kind = "edits" /\ tx.backup[f].base = "foreign"
      \/ WillRefuse(f)

BackupIsKnown ==
  \A f \in EditFiles : tx.backup[f].base = "foreign" => f \in unguarded \/ tx.kind = "edits"

BlankText == tx.at \in {"none", "capture", "verify"} => tx.text = Missing

(* The text about to be written keeps what the editor wrote before it was read. *)
TextIsKnown ==
  tx.at = "apply" /\ tx.kind # "writes" /\ tx.text # Missing =>
    /\ tx.text.base = "foreign" =>
         Current \in unguarded \/ (tx.kind = "edits" /\ tx.backup[Current].base = "foreign")
    /\ content[Current].base = "foreign" => tx.text.base = "foreign" \/ Current \in unguarded
    /\ Current \notin touched => tx.text.edited

EditInv ==
  /\ EditTypeOK /\ OrderFits /\ WrittenArePast
  /\ NothingEdited /\ TextsStand /\ EditedSoFar
  /\ BackupsStand /\ RestoredIsBack
  /\ ForeignIsKnown /\ BackupIsKnown /\ BlankText /\ TextIsKnown
  /\ AllOrNothingOrTold /\ GuardedWritesSurvive
-----------------------------------------------------------------------------
(* Where an edit is in its files. *)
LEMMA PlaceFacts ==
  ASSUME EditTypeOK, OrderFits, tx.at # "none"
  PROVE  /\ Len(tx.order) \in Nat /\ tx.next \in 1..Len(tx.order)
         /\ Current \in EditFiles /\ Current \in EditedFiles /\ ~Past(Current)
         /\ EditedFiles \subseteq EditFiles
         /\ \A f : f \in EditedFiles <=> \E i \in 1..Len(tx.order) : tx.order[i] = f
         /\ \A f : Past(f) => f \in EditedFiles
         /\ IsLast => \A f \in EditedFiles : Past(f) \/ f = Current
<1>1. tx.order \in Seq(EditFiles) /\ tx.next \in 1..Len(tx.order)
  BY DEF EditTypeOK, Transactions, OrderFits
<1>2. /\ Len(tx.order) \in Nat
      /\ DOMAIN tx.order = 1..Len(tx.order)
      /\ \A i \in 1..Len(tx.order) : tx.order[i] \in EditFiles
  BY <1>1
<1>3. \A f : f \in EditedFiles <=> \E i \in 1..Len(tx.order) : tx.order[i] = f
  BY <1>2 DEF EditedFiles, ToSet
<1>4. EditedFiles \subseteq EditFiles
  BY <1>2, <1>3
<1>5. Current \in EditFiles /\ Current \in EditedFiles
  BY <1>1, <1>2, <1>3 DEF Current
<1>6. ~Past(Current)
  <2> SUFFICES ASSUME NEW i \in 1..Len(tx.order), i < tx.next, tx.order[i] = tx.order[tx.next]
               PROVE  FALSE
    BY DEF Past, Current
  <2> QED BY <1>1, <1>2 DEF OrderFits
<1>7. \A f : Past(f) => f \in EditedFiles
  BY <1>3 DEF Past
<1>8. IsLast => \A f \in EditedFiles : Past(f) \/ f = Current
  <2> SUFFICES ASSUME IsLast, NEW i \in 1..Len(tx.order), tx.order[i] # Current
               PROVE  i < tx.next
    BY <1>3 DEF Past
  <2>1. tx.next = Len(tx.order) /\ i # tx.next
    BY DEF IsLast, Current
  <2> QED BY <1>2, <2>1
<1> QED BY <1>1, <1>2, <1>3, <1>4, <1>5, <1>6, <1>7, <1>8

(* The files SubSeq names in Guarded. *)
LEMMA BeforeIsPast ==
  ASSUME EditTypeOK, OrderFits, tx.at # "none"
  PROVE  \A f : f \in ToSet(SubSeq(tx.order, 1, tx.next - 1)) <=> Past(f)
<1> DEFINE m == tx.next - 1
           s == SubSeq(tx.order, 1, m)
<1>1. Len(tx.order) \in Nat /\ tx.next \in 1..Len(tx.order) /\ tx.order \in Seq(EditFiles)
  BY PlaceFacts DEF EditTypeOK, Transactions
<1>2. m \in 0..Len(tx.order)
  BY <1>1
<1>3. \A i \in 1..m : tx.order[i] \in EditFiles
  BY <1>1, <1>2
<1>4. m \in Int /\ 1 \in Int
  BY <1>2
<1> HIDE DEF m
<1>5. /\ s \in Seq(EditFiles)
      /\ Len(s) = IF 1 <= m THEN m - 1 + 1 ELSE 0
      /\ \A i \in 1..m - 1 + 1 : s[i] = tx.order[1 + i - 1]
  BY <1>3, <1>4, SubSeqProperties
<1>6. Len(s) = m /\ \A i \in 1..m : s[i] = tx.order[i]
  BY <1>2, <1>4, <1>5
<1>7. DOMAIN s = 1..m
  BY <1>5, <1>6
<1> HIDE DEF s
<1>8. \A f : f \in ToSet(s) <=> \E i \in 1..m : tx.order[i] = f
  BY <1>6, <1>7 DEF ToSet
<1>9. \A i : i \in 1..m <=> i \in 1..Len(tx.order) /\ i < tx.next
  BY <1>1 DEF m
<1> QED BY <1>8, <1>9 DEF Past, s, m

(* A step to the next file of the phase. *)
LEMMA NextFile ==
  ASSUME EditTypeOK, OrderFits, tx.at # "none",
         tx'.order = tx.order, tx'.next = tx.next + 1
  PROVE  \A f : (Past(f)') <=> (Past(f) \/ f = Current)
<1>1. Len(tx.order) \in Nat /\ tx.next \in 1..Len(tx.order)
  BY PlaceFacts
<1> SUFFICES ASSUME NEW f
             PROVE  (\E i \in 1..Len(tx.order) : i < tx.next + 1 /\ tx.order[i] = f)
                      <=> (Past(f) \/ f = tx.order[tx.next])
  BY DEF Past, Current
<1>2. \A i \in 1..Len(tx.order) : i < tx.next + 1 <=> i < tx.next \/ i = tx.next
  BY <1>1
<1> QED BY <1>1, <1>2 DEF Past

(* The first file of a phase. *)
LEMMA FirstFile ==
  ASSUME tx'.next = 1
  PROVE  \A f : ~(Past(f)')
BY DEF Past

(* The same place of the same edit. *)
LEMMA SameFile ==
  ASSUME tx'.order = tx.order, tx'.next = tx.next
  PROVE  /\ \A f : (Past(f)') <=> Past(f)
         /\ EditedFiles' = EditedFiles /\ Current' = Current
BY DEF Past, EditedFiles, Current
-----------------------------------------------------------------------------
LEMMA ContentFacts ==
  /\ {Missing, Original, Foreign, Torn, Whole} \subseteq Contents
  /\ Missing.base = "missing" /\ Original.base = "original" /\ Foreign.base = "foreign"
  /\ Torn.base = "torn" /\ Whole.base = "original" /\ Whole.edited
  /\ ~Missing.edited /\ ~Original.edited /\ ~Foreign.edited /\ ~Torn.edited
BY DEF Missing, Original, Foreign, Torn, Whole, Contents

LEMMA NoTxFacts ==
  /\ NoTx \in Transactions
  /\ NoTx.at = "none" /\ NoTx.next = 1 /\ NoTx.written = {} /\ NoTx.order = <<>> /\ NoTx.text = Missing
  /\ \A f \in EditFiles : NoTx.backup[f] = Missing /\ NoTx.report[f] = "none"
BY ContentFacts DEF NoTx, Transactions, Kinds, Places, Reports

(* The orders in which a set of files can be edited. *)
LEMMA OrderFacts ==
  ASSUME NEW S \in (SUBSET EditFiles) \ {{}}, NEW order \in SetToSeqs(S)
  PROVE  /\ order \in Seq(EditFiles) /\ 1 \in 1..Len(order)
         /\ \A i, j \in 1..Len(order) : order[i] = order[j] => i = j
<1>1. IsFiniteSet(S)
  BY EditAssumption, FS_Subset
<1>2. Cardinality(S) \in Nat
  BY <1>1, FS_CardinalityType
<1>3. Cardinality(S) # 0
  BY <1>1, FS_EmptySet
<1> DEFINE n == Cardinality(S)
<1>4. order \in [1..n -> S] /\ \A i, j \in 1..n : i # j => order[i] # order[j]
  BY DEF SetToSeqs
<1>5. n \in Nat \ {0}
  BY <1>2, <1>3
<1> HIDE DEF n
<1>6. order \in Seq(EditFiles) /\ Len(order) = n
  BY <1>4, <1>5
<1> QED BY <1>4, <1>5, <1>6
-----------------------------------------------------------------------------
(* Nothing has happened to any file. *)
BeforeEdit ==
  /\ content \in [EditFiles -> {Original, Missing}] /\ tx = NoTx
  /\ touched = {} /\ unguarded = {} /\ lost = {}
  /\ foreign \in 0..MaxForeign /\ ioFaults \in 0..MaxIoFaults

LEMMA BeforeEditInv == BeforeEdit => EditInv
<1> SUFFICES ASSUME BeforeEdit PROVE EditInv
  OBVIOUS
<1> USE DEF BeforeEdit
<1>1. EditTypeOK
  BY NoTxFacts, ContentFacts DEF EditTypeOK
<1>2. OrderFits
  BY NoTxFacts DEF OrderFits
<1>3. /\ WrittenArePast /\ NothingEdited /\ TextsStand /\ EditedSoFar /\ ForeignIsKnown
      /\ BlankText /\ TextIsKnown /\ AllOrNothingOrTold /\ GuardedWritesSurvive
  BY NoTxFacts DEF WrittenArePast, NothingEdited, TextsStand, EditedSoFar, ForeignIsKnown,
                   BlankText, TextIsKnown, AllOrNothingOrTold, GuardedWritesSurvive
<1>4. BackupsStand /\ RestoredIsBack
  BY NoTxFacts DEF BackupsStand, RestoredIsBack, NotReached
<1>5. BackupIsKnown
  BY NoTxFacts, ContentFacts DEF BackupIsKnown
<1> QED BY <1>1, <1>2, <1>3, <1>4, <1>5 DEF EditInv

LEMMA EditInitInv == EditInit => EditInv
<1> SUFFICES ASSUME EditInit PROVE EditInv
  OBVIOUS
<1>1. foreign \in 0..MaxForeign /\ ioFaults \in 0..MaxIoFaults
  BY EditAssumption DEF EditInit
<1> QED BY <1>1, BeforeEditInv DEF EditInit, BeforeEdit

LEMMA StartKeeps ==
  ASSUME EditInv, NEW kind \in Kinds, NEW S \in (SUBSET EditFiles) \ {{}},
         NEW order \in SetToSeqs(S), StartEdit(kind, order)
  PROVE  EditInv'
<1>1. /\ tx.at = "none" /\ UNCHANGED <<content, foreign, ioFaults, touched, unguarded, lost>>
      /\ kind = "writes" \/ \A f \in ToSet(order) : content[f] # Missing
      /\ tx' = [NoTx EXCEPT !.kind = kind, !.order = order,
                            !.at = IF kind = "bare" THEN "apply" ELSE "capture"]
  BY DEF StartEdit
<1>2. /\ tx' \in Transactions /\ tx'.kind = kind /\ tx'.order = order
      /\ tx'.at = IF kind = "bare" THEN "apply" ELSE "capture"
      /\ tx'.next = 1 /\ tx'.written = {} /\ tx'.text = Missing
      /\ tx'.backup = NoTx.backup /\ tx'.report = NoTx.report
  BY <1>1, NoTxFacts, OrderFacts, ContentFacts DEF NoTx, Transactions, Places
<1>3. EditTypeOK'
  BY <1>1, <1>2 DEF EditInv, EditTypeOK
<1>4. OrderFits'
  BY <1>2, OrderFacts DEF OrderFits
<1>5. \A f : ~(Past(f)')
  BY <1>2, FirstFile
<1>6. \A f \in EditFiles : content[f] \in {Original, Missing}
  BY <1>1 DEF EditInv, NothingEdited
<1>7. WrittenArePast'
  BY <1>2, <1>5 DEF WrittenArePast
<1>8. NothingEdited'
  BY <1>1, <1>2, <1>6 DEF NothingEdited
<1>9. TextsStand'
  <2>1. order \in Seq(EditFiles)
    BY OrderFacts
  <2>2. ToSet(order) \subseteq EditFiles
    BY <2>1 DEF ToSet
  <2>3. EditedFiles' = ToSet(order)
    BY <1>2 DEF EditedFiles
  <2> QED BY <1>1, <1>2, <1>6, <2>2, <2>3 DEF TextsStand
<1>10. EditedSoFar'
  BY <1>5 DEF EditedSoFar
<1>11. BackupsStand'
  BY <1>2, <1>5 DEF BackupsStand, NotReached
<1>12. RestoredIsBack'
  BY <1>2, NoTxFacts DEF RestoredIsBack
<1>13. ForeignIsKnown'
  BY <1>1, <1>6, ContentFacts DEF ForeignIsKnown
<1>14. BackupIsKnown'
  BY <1>2, NoTxFacts, ContentFacts DEF BackupIsKnown
<1>15. BlankText' /\ TextIsKnown' /\ AllOrNothingOrTold'
  BY <1>2 DEF BlankText, TextIsKnown, AllOrNothingOrTold
<1>16. GuardedWritesSurvive'
  BY <1>1 DEF EditInv, GuardedWritesSurvive
<1> QED BY <1>3, <1>4, <1>7, <1>8, <1>9, <1>10, <1>11, <1>12, <1>13, <1>14, <1>15, <1>16
        DEF EditInv

LEMMA NextEditKeeps ==
  ASSUME EditInv, NextEdit
  PROVE  EditInv'
<1>1. foreign' \in 0..MaxForeign /\ ioFaults' \in 0..MaxIoFaults
  BY DEF NextEdit, EditInv, EditTypeOK
<1>2. BeforeEdit'
  BY <1>1 DEF NextEdit, BeforeEdit
<1> QED BY <1>2, BeforeEditInv, PTL
-----------------------------------------------------------------------------
(* The next file of a phase, or the first of the next phase. *)
LEMMA MoveFacts ==
  ASSUME EditTypeOK, OrderFits, tx.at # "none", NEW place \in Places, NEW t \in Transactions,
         tx' = Move(Advance(place), t)
  PROVE  /\ tx' \in Transactions /\ tx'.next \in 1..Len(tx.order)
         /\ tx'.kind = t.kind /\ tx'.order = t.order /\ tx'.text = t.text /\ tx'.backup = t.backup
         /\ tx'.written = t.written /\ tx'.report = t.report /\ tx'.status = t.status
         /\ \/ tx'.at = place /\ tx'.next = 1 /\ IsLast
            \/ tx'.at = tx.at /\ tx'.next = tx.next + 1
<1> DEFINE a == Advance(place)
<1>1. Len(tx.order) \in Nat /\ tx.next \in 1..Len(tx.order) /\ tx.at \in Places
  BY PlaceFacts DEF EditTypeOK, Transactions
<1>2. CASE IsLast
  <2> DEFINE n == 1
  <2>1. a.at = place /\ a.next = n
    BY <1>2 DEF Advance
  <2>2. n \in 1..Len(tx.order) /\ n \in Nat
    BY <1>1
  <2> HIDE DEF n
  <2>3. tx' = [t EXCEPT !.at = place, !.next = n]
    BY <2>1 DEF Move
  <2>4. /\ tx' \in Transactions /\ tx'.next = n /\ tx'.at = place
        /\ tx'.kind = t.kind /\ tx'.order = t.order /\ tx'.text = t.text /\ tx'.backup = t.backup
        /\ tx'.written = t.written /\ tx'.report = t.report /\ tx'.status = t.status
    BY <2>2, <2>3 DEF Transactions
  <2> QED BY <1>2, <2>2, <2>4 DEF n
<1>3. CASE ~IsLast
  <2> DEFINE n == tx.next + 1
  <2>1. a.at = tx.at /\ a.next = n
    BY <1>3 DEF Advance
  <2>2. n \in 1..Len(tx.order)
    BY <1>1, <1>3 DEF IsLast
  <2>3. n \in Nat
    BY <1>1, <2>2
  <2> HIDE DEF n
  <2>4. tx' = [t EXCEPT !.at = tx.at, !.next = n]
    BY <2>1 DEF Move
  <2>5. /\ tx' \in Transactions /\ tx'.next = n /\ tx'.at = tx.at
        /\ tx'.kind = t.kind /\ tx'.order = t.order /\ tx'.text = t.text /\ tx'.backup = t.backup
        /\ tx'.written = t.written /\ tx'.report = t.report /\ tx'.status = t.status
    BY <1>1, <2>3, <2>4 DEF Transactions
  <2> QED BY <2>2, <2>5 DEF n
<1> QED BY <1>2, <1>3
-----------------------------------------------------------------------------
(* An edit that ends keeps the invariant if it ends as it says. *)
LEMMA EndingKeeps ==
  ASSUME EditInv, tx.at # "none", tx' \in Transactions, tx'.at = "done",
         tx'.kind = tx.kind, tx'.order = tx.order, tx'.next = tx.next, tx'.backup = tx.backup,
         content' \in [EditFiles -> Contents], ioFaults' \in 0..MaxIoFaults, lost' \subseteq unguarded,
         UNCHANGED <<foreign, touched, unguarded>>, AllOrNothingOrTold'
  PROVE  EditInv'
<1>1. EditTypeOK' /\ GuardedWritesSurvive'
  BY DEF EditInv, EditTypeOK, GuardedWritesSurvive
<1>2. OrderFits'
  BY DEF EditInv, OrderFits
<1>3. /\ WrittenArePast' /\ NothingEdited' /\ TextsStand' /\ EditedSoFar' /\ RestoredIsBack'
      /\ ForeignIsKnown' /\ BlankText' /\ TextIsKnown'
  BY DEF WrittenArePast, NothingEdited, TextsStand, EditedSoFar, RestoredIsBack, ForeignIsKnown,
         BlankText, TextIsKnown
<1>4. BackupsStand'
  BY DEF BackupsStand, NotReached
<1>5. BackupIsKnown'
  BY DEF EditInv, BackupIsKnown
<1> QED BY <1>1, <1>2, <1>3, <1>4, <1>5 DEF EditInv

(* A refusal comes before any write. *)
LEMMA RefusalKeeps ==
  ASSUME EditInv, tx.at \in {"capture", "verify"}, End("Refused"),
         UNCHANGED <<content, foreign, ioFaults, touched, unguarded, lost>>
  PROVE  EditInv'
<1>1. /\ tx' \in Transactions /\ tx'.at = "done" /\ tx'.status = "Refused"
      /\ tx'.kind = tx.kind /\ tx'.order = tx.order /\ tx'.next = tx.next /\ tx'.backup = tx.backup
  BY DEF EditInv, EditTypeOK, End, Transactions, Places
<1>2. EditedFiles' \subseteq EditFiles
  <2>1. EditedFiles \subseteq EditFiles
    BY PlaceFacts DEF EditInv
  <2> QED BY <1>1, <2>1 DEF EditedFiles
<1>3. \A f \in EditFiles : ~content[f].edited /\ content[f] # Torn
  <2>1. \A f \in EditFiles : content[f] \in {Original, Missing, Foreign}
    BY DEF EditInv, NothingEdited
  <2> QED BY <2>1, ContentFacts
<1>4. AllOrNothingOrTold'
  BY <1>1, <1>2, <1>3 DEF AllOrNothingOrTold
<1> QED BY <1>1, <1>4, EndingKeeps DEF EditInv, EditTypeOK, GuardedWritesSurvive

LEMMA CaptureKeeps ==
  ASSUME EditInv, Capture
  PROVE  EditInv'
<1>1. /\ tx.at = "capture"
      /\ UNCHANGED <<content, foreign, ioFaults, touched, unguarded, lost>>
      /\ \/ End("Refused")
         \/ tx' = Move(Advance("verify"), [tx EXCEPT !.backup[Current] = content[Current]])
  BY DEF Capture
<1>2. CASE End("Refused")
  BY <1>1, <1>2, RefusalKeeps
<1>3. CASE tx' = Move(Advance("verify"), [tx EXCEPT !.backup[Current] = content[Current]])
  <2> USE <1>1 DEF EditInv
  <2>1. /\ Len(tx.order) \in Nat /\ tx.next \in 1..Len(tx.order)
        /\ Current \in EditFiles /\ Current \in EditedFiles /\ ~Past(Current)
        /\ EditedFiles \subseteq EditFiles
        /\ IsLast => \A f \in EditedFiles : Past(f) \/ f = Current
        /\ \A f : Past(f) => f \in EditedFiles
    BY PlaceFacts
  <2>2. tx \in Transactions /\ content[Current] \in Contents
    BY <2>1 DEF EditTypeOK
  <2> DEFINE kept == [tx EXCEPT !.backup[Current] = content[Current]]
  <2>3. /\ kept \in Transactions
        /\ kept.kind = tx.kind /\ kept.order = tx.order /\ kept.text = tx.text
        /\ kept.written = tx.written /\ kept.report = tx.report /\ kept.status = tx.status
        /\ kept.backup = [tx.backup EXCEPT ![Current] = content[Current]]
    BY <2>1, <2>2 DEF Transactions
  <2>4. tx' = Move(Advance("verify"), kept)
    BY <1>3
  <2> HIDE DEF kept
  <2>5. "verify" \in Places
    BY DEF Places
  <2>6. /\ tx' \in Transactions
        /\ tx'.kind = tx.kind /\ tx'.order = tx.order /\ tx'.text = tx.text
        /\ tx'.written = tx.written /\ tx'.report = tx.report /\ tx'.status = tx.status
        /\ tx'.next \in 1..Len(tx.order)
        /\ tx'.backup = [tx.backup EXCEPT ![Current] = content[Current]]
        /\ \/ tx'.at = "verify" /\ tx'.next = 1 /\ IsLast
           \/ tx'.at = "capture" /\ tx'.next = tx.next + 1
    BY <2>3, <2>4, <2>5, MoveFacts
  <2>7. \A f \in EditFiles : tx'.backup[f] = IF f = Current THEN content[f] ELSE tx.backup[f]
    BY <2>2, <2>6 DEF Transactions
  <2>8. EditedFiles' = EditedFiles
    BY <2>6 DEF EditedFiles
  <2>9. tx'.at = "capture" => \A f : (Past(f)') <=> (Past(f) \/ f = Current)
    BY <2>6, NextFile
  <2>10. tx'.at = "verify" => \A f : ~(Past(f)')
    BY <2>6, FirstFile
  <2>11. EditTypeOK'
    BY <2>6 DEF EditTypeOK
  <2>12. OrderFits'
    BY <2>6 DEF OrderFits
  <2>13. WrittenArePast' /\ NothingEdited' /\ EditedSoFar' /\ RestoredIsBack'
    BY <2>6 DEF WrittenArePast, NothingEdited, EditedSoFar, RestoredIsBack
  <2>14. TextsStand'
    BY <2>6, <2>8 DEF TextsStand
  <2>15. BackupsStand'
    <3> SUFFICES ASSUME tx'.kind # "bare", NEW f \in EditedFiles \ touched, NotReached(f)'
                 PROVE  content[f] = tx'.backup[f]
      BY <2>8 DEF BackupsStand
    <3>1. f \in EditFiles /\ (Past(f) \/ f = Current)
      BY <2>1, <2>6, <2>9 DEF NotReached
    <3>2. Past(f) => content[f] = tx.backup[f]
      BY <2>6 DEF BackupsStand, NotReached
    <3> QED BY <2>7, <3>1, <3>2
  <2>16. ForeignIsKnown'
    <3> SUFFICES ASSUME NEW f \in EditFiles, content[f].base = "foreign", f \notin unguarded
                 PROVE  \/ tx'.kind = "edits" /\ tx'.at = "capture" /\ f \in EditedFiles /\ ~(Past(f)')
                        \/ tx'.kind = "edits" /\ tx'.backup[f].base = "foreign"
                        \/ WillRefuse(f)'
      BY <2>6, <2>8 DEF ForeignIsKnown
    <3>1. \/ tx.kind = "edits" /\ f \in EditedFiles /\ ~Past(f)
          \/ tx.kind = "edits" /\ tx.backup[f].base = "foreign"
          \/ WillRefuse(f)
      BY DEF ForeignIsKnown
    <3>2. CASE f = Current
      <4>1. ~WillRefuse(f)
        BY <2>1, <3>2 DEF WillRefuse
      <4>2. tx.kind = "edits" /\ tx'.backup[f].base = "foreign"
        BY <2>7, <3>1, <3>2, <4>1
      <4> QED BY <2>6, <4>2
    <3>3. CASE f # Current
      <4>1. tx'.backup[f] = tx.backup[f]
        BY <2>7, <3>3
      <4>2. CASE WillRefuse(f)
        BY <2>1, <2>6, <2>8, <2>9, <2>10, <3>3, <4>1, <4>2 DEF WillRefuse
      <4>3. CASE tx.kind = "edits" /\ f \in EditedFiles /\ ~Past(f)
        BY <2>1, <2>6, <2>9, <3>3, <4>3
      <4> QED BY <2>6, <3>1, <4>1, <4>2, <4>3
    <3> QED BY <3>2, <3>3
  <2>17. BackupIsKnown'
    <3> SUFFICES ASSUME NEW f \in EditFiles, tx'.backup[f].base = "foreign", tx.kind # "edits"
                 PROVE  f \in unguarded
      BY <2>6 DEF BackupIsKnown
    <3>1. CASE f = Current
      <4>1. ~WillRefuse(f) /\ content[f].base = "foreign"
        BY <2>1, <2>7, <3>1 DEF WillRefuse
      <4> QED BY <4>1 DEF ForeignIsKnown
    <3>2. CASE f # Current
      BY <2>7, <3>2 DEF BackupIsKnown
    <3> QED BY <3>1, <3>2
  <2>18. BlankText' /\ TextIsKnown' /\ AllOrNothingOrTold' /\ GuardedWritesSurvive'
    BY <2>6 DEF BlankText, TextIsKnown, AllOrNothingOrTold, GuardedWritesSurvive
  <2> QED BY <2>11, <2>12, <2>13, <2>14, <2>15, <2>16, <2>17, <2>18
<1> QED BY <1>1, <1>2, <1>3

LEMMA VerifyKeeps ==
  ASSUME EditInv, Verify
  PROVE  EditInv'
<1>1. /\ tx.at = "verify"
      /\ UNCHANGED <<content, foreign, ioFaults, touched, unguarded, lost>>
      /\ \/ End("Refused")
         \/ /\ tx.backup[Current] = Missing \/ content[Current] = tx.backup[Current]
            /\ tx' = Move(Advance("apply"), tx)
  BY DEF Verify
<1>2. CASE End("Refused")
  BY <1>1, <1>2, RefusalKeeps
<1>3. ASSUME tx.backup[Current] = Missing \/ content[Current] = tx.backup[Current],
             tx' = Move(Advance("apply"), tx)
      PROVE  EditInv'
  <2> USE <1>1 DEF EditInv
  <2>1. /\ Len(tx.order) \in Nat /\ tx.next \in 1..Len(tx.order)
        /\ Current \in EditFiles /\ Current \in EditedFiles /\ ~Past(Current)
        /\ EditedFiles \subseteq EditFiles
        /\ IsLast => \A f \in EditedFiles : Past(f) \/ f = Current
    BY PlaceFacts
  <2>2. tx \in Transactions /\ "apply" \in Places
    BY DEF EditTypeOK, Places
  <2>3. /\ tx' \in Transactions
        /\ tx'.kind = tx.kind /\ tx'.order = tx.order /\ tx'.text = tx.text
        /\ tx'.written = tx.written /\ tx'.report = tx.report /\ tx'.status = tx.status
        /\ tx'.next \in 1..Len(tx.order) /\ tx'.backup = tx.backup
        /\ \/ tx'.at = "apply" /\ tx'.next = 1 /\ IsLast
           \/ tx'.at = "verify" /\ tx'.next = tx.next + 1
    BY <1>3, <2>2, MoveFacts
  <2>4. EditedFiles' = EditedFiles
    BY <2>3 DEF EditedFiles
  <2>5. tx'.at = "verify" => \A f : (Past(f)') <=> (Past(f) \/ f = Current)
    BY <2>3, NextFile
  <2>6. tx'.at = "apply" => \A f : ~(Past(f)')
    BY <2>3, FirstFile
  <2>7. tx'.text = Missing \/ tx'.at = "verify"
    BY <2>3 DEF BlankText
  <2>8. EditTypeOK'
    BY <2>3 DEF EditTypeOK
  <2>9. OrderFits'
    BY <2>3 DEF OrderFits
  <2>10. WrittenArePast'
    BY <2>3, <2>6 DEF WrittenArePast
  <2>11. NothingEdited' /\ RestoredIsBack'
    BY <2>3 DEF NothingEdited, RestoredIsBack
  <2>12. EditedSoFar'
    BY <2>3, <2>6 DEF EditedSoFar
  <2>13. TextsStand'
    BY <2>3, <2>4 DEF TextsStand
  <2>14. BackupsStand'
    BY <2>3, <2>4 DEF BackupsStand, NotReached
  <2>15. ForeignIsKnown'
    <3> SUFFICES ASSUME NEW f \in EditFiles, content[f].base = "foreign", f \notin unguarded
                 PROVE  \/ tx'.kind = "edits" /\ tx'.backup[f].base = "foreign"
                        \/ WillRefuse(f)'
      BY <2>3 DEF ForeignIsKnown
    <3>1. \/ tx.kind = "edits" /\ tx.backup[f].base = "foreign"
          \/ WillRefuse(f)
      BY DEF ForeignIsKnown
    <3>2. WillRefuse(f) => f \in EditedFiles /\ ~Past(f) /\ f # Current
      BY <1>3 DEF WillRefuse
    <3>3. WillRefuse(f) => WillRefuse(f)'
      BY <2>1, <2>3, <2>4, <2>5, <3>2 DEF WillRefuse
    <3> QED BY <2>3, <3>1, <3>3
  <2>16. BackupIsKnown'
    BY <2>3 DEF BackupIsKnown
  <2>17. BlankText' /\ TextIsKnown' /\ AllOrNothingOrTold' /\ GuardedWritesSurvive'
    BY <2>3, <2>7 DEF BlankText, TextIsKnown, AllOrNothingOrTold, GuardedWritesSurvive
  <2> QED BY <2>8, <2>9, <2>10, <2>11, <2>12, <2>13, <2>14, <2>15, <2>16, <2>17
<1> QED BY <1>1, <1>2, <1>3

(* The editor touches the files of a running edit only. *)
LEMMA ForeignKeeps ==
  ASSUME EditInv, NEW g \in EditFiles, ForeignWrite(g)
  PROVE  EditInv'
<1> USE DEF EditInv
<1>1. /\ foreign < MaxForeign /\ foreign' = foreign + 1
      /\ tx.at \notin {"none", "done"} /\ g \in EditedFiles
      /\ touched' = touched \cup {g}
      /\ unguarded' = IF g \in Guarded THEN unguarded ELSE unguarded \cup {g}
      /\ tx' = tx /\ UNCHANGED <<ioFaults, lost>>
  BY DEF ForeignWrite, EditedFiles
<1>2. \E new \in {Foreign, Missing} : new # content[g] /\ content' = [content EXCEPT ![g] = new]
  BY DEF ForeignWrite
<1>3. /\ content' \in [EditFiles -> Contents]
      /\ content'[g] \in {Foreign, Missing} /\ content'[g] # content[g]
      /\ \A f \in EditFiles \ {g} : content'[f] = content[f]
  BY <1>2, ContentFacts DEF EditTypeOK
<1>4. \A f : (Past(f)') <=> Past(f)
  BY <1>1, SameFile
<1>5. EditedFiles' = EditedFiles /\ Current' = Current /\ EditedFiles \subseteq EditFiles
  BY <1>1, SameFile, PlaceFacts
<1>6. /\ tx.at = "capture" =>
           (g \in Guarded <=> (Past(g) /\ tx.backup[g] # Missing) \/ (tx.kind = "edits" /\ ~Past(g)))
      /\ tx.at = "verify" => (g \in Guarded <=> ~Past(g) /\ tx.backup[g] # Missing)
      /\ tx.at \notin {"capture", "verify"} => g \notin Guarded
  <2>1. \A f : f \in ToSet(SubSeq(tx.order, 1, tx.next - 1)) <=> Past(f)
    BY <1>1, BeforeIsPast
  <2> DEFINE before == ToSet(SubSeq(tx.order, 1, tx.next - 1))
  <2>2. Guarded = CASE tx.at = "capture" -> {f \in before : tx.backup[f] # Missing} \cup
                            (IF tx.kind = "edits" THEN EditFiles \ before ELSE {})
                    [] tx.at = "verify" -> {f \in EditFiles \ before : tx.backup[f] # Missing}
                    [] OTHER -> {}
    BY DEF Guarded
  <2> HIDE DEF before
  <2>3. CASE tx.at = "capture"
    BY <2>1, <2>2, <2>3 DEF before
  <2>4. CASE tx.at = "verify"
    BY <2>1, <2>2, <2>4 DEF before
  <2>5. CASE tx.at \notin {"capture", "verify"}
    BY <2>2, <2>5
  <2> QED BY <2>3, <2>4, <2>5
<1>7. EditTypeOK'
  <2>1. foreign' \in 0..MaxForeign
    BY <1>1, EditAssumption DEF EditTypeOK
  <2>2. touched' \cup unguarded' \cup lost' \subseteq EditFiles
    BY <1>1 DEF EditTypeOK
  <2> QED BY <1>1, <1>3, <2>1, <2>2 DEF EditTypeOK
<1>8. OrderFits' /\ WrittenArePast' /\ BlankText'
  BY <1>1, <1>4 DEF OrderFits, WrittenArePast, BlankText
<1>9. NothingEdited'
  BY <1>1, <1>3 DEF NothingEdited
<1>10. TextsStand' /\ EditedSoFar'
  BY <1>1, <1>3, <1>4, <1>5 DEF TextsStand, EditedSoFar
<1>11. BackupsStand' /\ RestoredIsBack'
  BY <1>1, <1>3, <1>4, <1>5 DEF BackupsStand, RestoredIsBack, NotReached
<1>12. ForeignIsKnown'
  <2> SUFFICES ASSUME NEW f \in EditFiles, content'[f].base = "foreign", f \notin unguarded'
               PROVE  \/ tx.kind = "edits" /\ tx.at = "capture" /\ f \in EditedFiles /\ ~Past(f)
                      \/ tx.kind = "edits" /\ tx.backup[f].base = "foreign"
                      \/ WillRefuse(f)'
    BY <1>1, <1>4, <1>5 DEF ForeignIsKnown
  <2>1. CASE f = g
    <3>1. g \in Guarded /\ g \notin unguarded
      BY <1>1, <2>1
    <3>2. CASE tx.at = "capture" /\ tx.kind = "edits" /\ ~Past(g)
      BY <1>1, <2>1, <3>2
    <3>3. CASE (tx.at = "capture" /\ Past(g)) \/ (tx.at = "verify" /\ ~Past(g))
      <4>1. tx.backup[g] # Missing
        BY <1>6, <3>1, <3>3
      <4>2. CASE content'[g] = tx.backup[g]
        <5>1. tx.backup[g].base = "foreign" /\ g \notin unguarded
          BY <2>1, <3>1, <4>2
        <5> QED BY <2>1, <5>1 DEF BackupIsKnown
      <4>3. CASE content'[g] # tx.backup[g]
        BY <1>1, <1>4, <1>5, <2>1, <3>3, <4>1, <4>3 DEF WillRefuse
      <4> QED BY <4>2, <4>3
    <3> QED BY <1>6, <3>1, <3>2, <3>3
  <2>2. CASE f # g
    <3>1. content'[f] = content[f] /\ f \notin unguarded
      BY <1>1, <1>3, <2>2
    <3>2. \/ tx.kind = "edits" /\ tx.at = "capture" /\ f \in EditedFiles /\ ~Past(f)
          \/ tx.kind = "edits" /\ tx.backup[f].base = "foreign"
          \/ WillRefuse(f)
      BY <1>1, <3>1 DEF ForeignIsKnown, EditTypeOK, Transactions, Places
    <3>3. WillRefuse(f) => WillRefuse(f)'
      BY <1>1, <1>4, <1>5, <3>1 DEF WillRefuse
    <3> QED BY <3>2, <3>3
  <2> QED BY <2>1, <2>2
<1>13. BackupIsKnown'
  BY <1>1 DEF BackupIsKnown
<1>14. TextIsKnown'
  <2> SUFFICES ASSUME tx.at = "apply", tx.kind # "writes", tx.text # Missing
               PROVE  TextIsKnown'
    BY <1>1 DEF TextIsKnown
  <2>1. Current \in EditFiles
    BY <1>1, PlaceFacts
  <2>2. g \in unguarded' /\ unguarded \subseteq unguarded' /\ touched \subseteq touched'
    BY <1>1, <1>6
  <2>3. content'[Current] = content[Current] \/ Current \in unguarded'
    BY <1>3, <2>1, <2>2
  <2> QED BY <1>1, <1>5, <2>2, <2>3 DEF TextIsKnown
<1>15. AllOrNothingOrTold' /\ GuardedWritesSurvive'
  BY <1>1 DEF AllOrNothingOrTold, GuardedWritesSurvive
<1> QED BY <1>7, <1>8, <1>9, <1>10, <1>11, <1>12, <1>13, <1>14, <1>15

(* A failure while the edit is applied, which may have truncated the file it is at. *)
LEMMA WriteFailureKeeps ==
  ASSUME EditInv, tx.at = "apply", tx.kind # "bare", tx' \in Transactions, tx'.at = "rollback",
         tx'.kind = tx.kind, tx'.order = tx.order, tx'.backup = tx.backup, tx'.written = tx.written,
         tx'.report = tx.report, tx'.next = tx.next \/ (tx.kind = "edits" /\ tx'.next = 1),
         content' \in [EditFiles -> Contents], content'[Current] \in {content[Current], Torn},
         \A f \in EditFiles \ {Current} : content'[f] = content[f],
         ioFaults' \in 0..MaxIoFaults, UNCHANGED <<foreign, touched, unguarded, lost>>
  PROVE  EditInv'
<1> USE DEF EditInv
<1>1. /\ Len(tx.order) \in Nat /\ tx.next \in 1..Len(tx.order)
      /\ Current \in EditFiles /\ EditedFiles \subseteq EditFiles
  BY PlaceFacts
<1>2. EditedFiles' = EditedFiles
  BY DEF EditedFiles
<1>3. tx.kind = "writes" => Current' = Current /\ \A f : (Past(f)') <=> Past(f)
  BY SameFile
<1>4. EditTypeOK' /\ GuardedWritesSurvive'
  BY DEF EditTypeOK, GuardedWritesSurvive
<1>5. OrderFits'
  BY <1>1 DEF OrderFits
<1>6. WrittenArePast'
  BY <1>3 DEF WrittenArePast
<1>7. /\ NothingEdited' /\ TextsStand' /\ EditedSoFar' /\ BlankText' /\ TextIsKnown'
      /\ AllOrNothingOrTold'
  BY DEF NothingEdited, TextsStand, EditedSoFar, BlankText, TextIsKnown, AllOrNothingOrTold
<1>8. BackupsStand'
  BY <1>1, <1>2, <1>3 DEF BackupsStand, NotReached
<1>9. RestoredIsBack'
  BY <1>1, <1>2 DEF RestoredIsBack
<1>10. ForeignIsKnown'
  <2> SUFFICES ASSUME NEW f \in EditFiles, content'[f].base = "foreign", f \notin unguarded
               PROVE  tx.kind = "edits" /\ tx.backup[f].base = "foreign"
    BY DEF ForeignIsKnown
  <2>1. content[f].base = "foreign"
    BY ContentFacts
  <2> QED BY <2>1 DEF ForeignIsKnown, WillRefuse
<1>11. BackupIsKnown'
  BY DEF BackupIsKnown
<1> QED BY <1>4, <1>5, <1>6, <1>7, <1>8, <1>9, <1>10, <1>11

LEMMA ReadKeeps ==
  ASSUME EditInv, ReadForEdit
  PROVE  EditInv'
<1> USE DEF EditInv
<1>1. /\ tx.at = "apply" /\ tx.kind # "writes" /\ tx.text = Missing
      /\ UNCHANGED <<content, foreign, ioFaults, touched, unguarded, lost>>
      /\ tx \in Transactions
  BY DEF ReadForEdit, EditTypeOK
<1>2. /\ Len(tx.order) \in Nat /\ tx.next \in 1..Len(tx.order)
      /\ Current \in EditFiles /\ Current \in EditedFiles /\ ~Past(Current)
      /\ content[Current] \in Contents
  BY <1>1, PlaceFacts DEF EditTypeOK
<1>3. \/ \E hit \in IF content[Current] = Original THEN {TRUE} ELSE BOOLEAN :
           tx' = [tx EXCEPT !.text = [content[Current] EXCEPT !.edited = hit]]
      \/ tx.kind = "bare" /\ End("Error")
      \/ tx.kind # "bare" /\ tx' = [tx EXCEPT !.at = "rollback", !.next = 1]
  BY DEF ReadForEdit
<1>4. ASSUME NEW hit \in BOOLEAN, content[Current] = Original => hit,
             tx' = [tx EXCEPT !.text = [content[Current] EXCEPT !.edited = hit]]
      PROVE  EditInv'
  <2> DEFINE text == [content[Current] EXCEPT !.edited = hit]
  <2>1. text \in Contents /\ text.base = content[Current].base /\ text.edited = hit
    BY <1>2 DEF Contents
  <2>2. tx' = [tx EXCEPT !.text = text]
    BY <1>4
  <2> HIDE DEF text
  <2>3. /\ tx' \in Transactions /\ tx'.at = tx.at /\ tx'.text = text
        /\ tx'.kind = tx.kind /\ tx'.order = tx.order /\ tx'.next = tx.next
        /\ tx'.backup = tx.backup /\ tx'.written = tx.written /\ tx'.report = tx.report
    BY <1>1, <2>1, <2>2 DEF Transactions
  <2>4. (\A f : (Past(f)') <=> Past(f)) /\ EditedFiles' = EditedFiles /\ Current' = Current
    BY <2>3, SameFile
  <2>5. EditTypeOK' /\ OrderFits' /\ WrittenArePast' /\ NothingEdited'
    BY <1>1, <2>3, <2>4 DEF EditTypeOK, OrderFits, WrittenArePast, NothingEdited
  <2>6. TextsStand' /\ EditedSoFar' /\ RestoredIsBack' /\ BackupIsKnown' /\ BlankText'
    BY <1>1, <2>3, <2>4
       DEF TextsStand, EditedSoFar, RestoredIsBack, BackupIsKnown, BlankText
  <2>7. BackupsStand'
    BY <1>1, <2>3, <2>4 DEF BackupsStand, NotReached
  <2>8. ForeignIsKnown'
    BY <1>1, <2>3, <2>4 DEF ForeignIsKnown, WillRefuse
  <2>9. TextIsKnown'
    <3>1. text.base = "foreign" =>
            Current \in unguarded \/ (tx.kind = "edits" /\ tx.backup[Current].base = "foreign")
      BY <1>1, <1>2, <2>1 DEF ForeignIsKnown, WillRefuse
    <3>2. Current \notin touched => text.edited
      BY <1>1, <1>2, <1>4, <2>1 DEF TextsStand
    <3> QED BY <1>1, <2>1, <2>3, <2>4, <3>1, <3>2 DEF TextIsKnown
  <2>10. AllOrNothingOrTold' /\ GuardedWritesSurvive'
    BY <1>1, <2>3 DEF AllOrNothingOrTold, GuardedWritesSurvive
  <2> QED BY <2>5, <2>6, <2>7, <2>8, <2>9, <2>10
<1>5. CASE tx.kind = "bare" /\ End("Error")
  <2>1. /\ tx' \in Transactions /\ tx'.at = "done" /\ tx'.status = "Error"
        /\ tx'.kind = tx.kind /\ tx'.order = tx.order /\ tx'.next = tx.next /\ tx'.backup = tx.backup
    BY <1>1, <1>5 DEF End, Transactions, Places
  <2>2. AllOrNothingOrTold'
    BY <2>1 DEF AllOrNothingOrTold
  <2> QED BY <1>1, <2>1, <2>2, EndingKeeps DEF EditTypeOK, GuardedWritesSurvive
<1>6. CASE tx.kind # "bare" /\ tx' = [tx EXCEPT !.at = "rollback", !.next = 1]
  <2> DEFINE n == 1
  <2>1. n \in Nat /\ n = 1
    OBVIOUS
  <2>2. tx' = [tx EXCEPT !.at = "rollback", !.next = n]
    BY <1>6
  <2> HIDE DEF n
  <2>3. /\ tx' \in Transactions /\ tx'.at = "rollback" /\ tx'.next = n
        /\ tx'.kind = tx.kind /\ tx'.order = tx.order
        /\ tx'.backup = tx.backup /\ tx'.written = tx.written /\ tx'.report = tx.report
    BY <1>1, <2>1, <2>2 DEF Transactions, Places
  <2>4. tx.kind = "edits"
    BY <1>1, <1>6 DEF Transactions, Kinds
  <2> QED BY <1>1, <1>2, <1>6, <2>1, <2>3, <2>4, WriteFailureKeeps DEF EditTypeOK
<1> QED BY <1>3, <1>4, <1>5, <1>6

(* What a write that works replaces is not the editor's, unless the window was open. *)
LEMMA ApplyKeeps ==
  ASSUME EditInv, Apply
  PROVE  EditInv'
<1> USE DEF EditInv
<1>1. /\ tx.at = "apply" /\ (tx.kind = "writes" \/ tx.text # Missing)
      /\ UNCHANGED <<foreign, touched, unguarded>> /\ tx \in Transactions
  BY DEF Apply, EditTypeOK
<1>2. /\ Len(tx.order) \in Nat /\ tx.next \in 1..Len(tx.order)
      /\ Current \in EditFiles /\ Current \in EditedFiles /\ ~Past(Current)
      /\ EditedFiles \subseteq EditFiles
      /\ IsLast => \A f \in EditedFiles : Past(f) \/ f = Current
  BY <1>1, PlaceFacts
<1>3. PICK ok \in BOOLEAN :
        /\ WriteAtomic(Current, NewText, ok)
        /\ ok => /\ Replaced(Current, NewText)
                 /\ tx' = IF IsLast THEN [tx EXCEPT !.at = "done", !.status = "Applied", !.text = Missing]
                          ELSE [tx EXCEPT !.next = @ + 1, !.text = Missing, !.written = @ \cup {Current}]
        /\ ~ok => /\ UNCHANGED lost
                  /\ IF tx.kind = "bare" THEN End("Error") ELSE tx' = [tx EXCEPT !.at = "rollback"]
  BY DEF Apply
<1>4. /\ NewText \in Contents
      /\ Current \notin touched => NewText.edited
      /\ NewText.base = "foreign" =>
           Current \in unguarded \/ (tx.kind = "edits" /\ tx.backup[Current].base = "foreign")
      /\ content[Current].base = "foreign" => NewText.base = "foreign" \/ Current \in unguarded
  <2>1. CASE tx.kind = "writes"
    <3>1. content[Current].base = "foreign" => Current \in unguarded
      BY <1>1, <1>2, <2>1 DEF ForeignIsKnown, WillRefuse
    <3> QED BY <2>1, <3>1, ContentFacts DEF NewText
  <2>2. CASE tx.kind # "writes"
    <3>1. NewText = tx.text /\ tx.text \in Contents
      BY <1>1, <2>2 DEF NewText, Transactions
    <3> QED BY <1>1, <2>2, <3>1 DEF TextIsKnown
  <2> QED BY <2>1, <2>2
<1>5. CASE ok
  <2>1. /\ content' = [content EXCEPT ![Current] = NewText] /\ UNCHANGED ioFaults
        /\ Replaced(Current, NewText)
    BY <1>3, <1>5 DEF WriteAtomic
  <2>2. /\ content' \in [EditFiles -> Contents] /\ content'[Current] = NewText
        /\ \A f \in EditFiles \ {Current} : content'[f] = content[f]
    BY <1>2, <1>4, <2>1 DEF EditTypeOK
  <2>3. lost' \subseteq unguarded
    BY <1>4, <2>1 DEF Replaced, GuardedWritesSurvive
  <2>4. CASE IsLast
    <3>1. tx' = [tx EXCEPT !.at = "done", !.status = "Applied", !.text = Missing]
      BY <1>3, <1>5, <2>4
    <3>2. /\ tx' \in Transactions /\ tx'.at = "done" /\ tx'.status = "Applied"
          /\ tx'.kind = tx.kind /\ tx'.order = tx.order /\ tx'.next = tx.next
          /\ tx'.backup = tx.backup
      BY <1>1, <3>1, ContentFacts DEF Transactions, Places
    <3>3. EditedFiles' = EditedFiles
      BY <3>2 DEF EditedFiles
    <3>4. \A f \in EditedFiles \ touched : content'[f].edited
      BY <1>1, <1>2, <1>4, <2>2, <2>4 DEF EditedSoFar
    <3>5. AllOrNothingOrTold'
      BY <1>1, <3>2, <3>3, <3>4 DEF AllOrNothingOrTold
    <3>6. ioFaults' \in 0..MaxIoFaults /\ tx.at # "none"
      BY <1>1, <2>1 DEF EditTypeOK
    <3> QED BY <1>1, <2>2, <2>3, <3>2, <3>5, <3>6, EndingKeeps
  <2>5. CASE ~IsLast
    <3> DEFINE n == tx.next + 1
               w == tx.written \cup {Current}
    <3>1. n \in Nat /\ n \in 1..Len(tx.order) /\ w \in SUBSET EditFiles
      BY <1>1, <1>2, <2>5 DEF IsLast, Transactions
    <3>2. tx' = [tx EXCEPT !.next = n, !.text = Missing, !.written = w]
      BY <1>3, <1>5, <2>5
    <3>3. n = tx.next + 1 /\ w = tx.written \cup {Current}
      OBVIOUS
    <3> HIDE DEF n, w
    <3>4. /\ tx' \in Transactions /\ tx'.at = "apply" /\ tx'.next = n /\ tx'.text = Missing
          /\ tx'.kind = tx.kind /\ tx'.order = tx.order /\ tx'.backup = tx.backup
          /\ tx'.written = w /\ tx'.report = tx.report
      BY <1>1, <3>1, <3>2, ContentFacts DEF Transactions
    <3>5. \A f : (Past(f)') <=> (Past(f) \/ f = Current)
      BY <1>1, <3>3, <3>4, NextFile
    <3>6. EditedFiles' = EditedFiles
      BY <3>4 DEF EditedFiles
    <3>7. EditTypeOK'
      BY <1>1, <2>1, <2>2, <2>3, <3>4 DEF EditTypeOK
    <3>8. OrderFits'
      BY <3>1, <3>4 DEF OrderFits
    <3>9. WrittenArePast'
      BY <1>1, <1>2, <3>3, <3>4, <3>5 DEF WrittenArePast
    <3>10. NothingEdited' /\ BlankText' /\ TextIsKnown' /\ AllOrNothingOrTold'
      BY <3>4 DEF NothingEdited, BlankText, TextIsKnown, AllOrNothingOrTold
    <3>11. TextsStand'
      BY <1>1, <1>2, <2>2, <3>4, <3>5, <3>6 DEF TextsStand
    <3>12. EditedSoFar'
      BY <1>1, <1>2, <1>4, <2>2, <3>4, <3>5, <3>6 DEF EditedSoFar
    <3>13. BackupsStand'
      BY <1>1, <1>2, <2>2, <3>4, <3>5, <3>6 DEF BackupsStand, NotReached
    <3>14. RestoredIsBack' /\ BackupIsKnown'
      BY <1>1, <3>4 DEF RestoredIsBack, BackupIsKnown
    <3>15. ForeignIsKnown'
      <4> SUFFICES ASSUME NEW f \in EditFiles, content'[f].base = "foreign", f \notin unguarded
                   PROVE  tx.kind = "edits" /\ tx.backup[f].base = "foreign"
        BY <1>1, <3>4 DEF ForeignIsKnown
      <4>1. CASE f = Current
        BY <1>4, <2>2, <4>1
      <4>2. CASE f # Current
        BY <1>1, <2>2, <4>2 DEF ForeignIsKnown, WillRefuse
      <4> QED BY <4>1, <4>2
    <3>16. GuardedWritesSurvive'
      BY <1>1, <2>3 DEF GuardedWritesSurvive
    <3> QED BY <3>7, <3>8, <3>9, <3>10, <3>11, <3>12, <3>13, <3>14, <3>15, <3>16
  <2> QED BY <2>4, <2>5
<1>6. CASE ~ok
  <2>1. /\ content' \in [EditFiles -> Contents] /\ content'[Current] \in {content[Current], Torn}
        /\ \A f \in EditFiles \ {Current} : content'[f] = content[f]
    BY <1>2, <1>3, <1>6, ContentFacts DEF WriteAtomic, EditTypeOK
  <2>2. ioFaults' \in 0..MaxIoFaults /\ UNCHANGED lost
    BY <1>3, <1>6, EditAssumption DEF WriteAtomic, EditTypeOK
  <2>3. CASE tx.kind = "bare"
    <3>1. End("Error")
      BY <1>3, <1>6, <2>3
    <3>2. /\ tx' \in Transactions /\ tx'.at = "done" /\ tx'.status = "Error"
          /\ tx'.kind = tx.kind /\ tx'.order = tx.order /\ tx'.next = tx.next
          /\ tx'.backup = tx.backup
      BY <1>1, <3>1 DEF End, Transactions, Places
    <3>3. AllOrNothingOrTold'
      BY <3>2 DEF AllOrNothingOrTold
    <3> QED BY <1>1, <2>1, <2>2, <3>2, <3>3, EndingKeeps DEF GuardedWritesSurvive
  <2>4. CASE tx.kind # "bare"
    <3>1. tx' = [tx EXCEPT !.at = "rollback"]
      BY <1>3, <1>6, <2>4
    <3>2. /\ tx' \in Transactions /\ tx'.at = "rollback" /\ tx'.next = tx.next
          /\ tx'.kind = tx.kind /\ tx'.order = tx.order
          /\ tx'.backup = tx.backup /\ tx'.written = tx.written /\ tx'.report = tx.report
      BY <1>1, <3>1 DEF Transactions, Places
    <3> QED BY <1>1, <2>1, <2>2, <2>4, <3>2, WriteFailureKeeps
  <2> QED BY <2>3, <2>4
<1> QED BY <1>3, <1>5, <1>6

(* Each file is restored once, whatever the write that restores it does. *)
LEMMA RestoreKeeps ==
  ASSUME EditInv, Restore
  PROVE  EditInv'
<1> USE DEF EditInv
<1>1. /\ tx.at = "rollback" /\ tx.kind # "bare"
      /\ UNCHANGED <<foreign, touched, unguarded>> /\ tx \in Transactions
  BY DEF Restore, EditTypeOK, OrderFits
<1>2. /\ Len(tx.order) \in Nat /\ tx.next \in 1..Len(tx.order)
      /\ Current \in EditFiles /\ Current \in EditedFiles /\ EditedFiles \subseteq EditFiles
      /\ IsLast => \A f \in EditedFiles : Past(f) \/ f = Current
  BY <1>1, PlaceFacts
<1>3. PICK g \in EditFiles, ok \in BOOLEAN :
        /\ RestoreNext(g)
        /\ IF tx.backup[g] # Missing THEN WriteAtomic(g, tx.backup[g], ok) ELSE RemoveFile(g, ok)
        /\ tx' = [tx EXCEPT !.report[g] = IF ok THEN "restored" ELSE "unrestored"]
        /\ IF ok THEN Replaced(g, tx.backup[g]) ELSE UNCHANGED lost
  BY DEF Restore
<1>4. /\ g \in EditedFiles /\ tx.report[g] = "none"
      /\ tx.kind = "writes" => IF Len(tx.order) = 1 THEN tx.backup[g] # Missing ELSE g \in tx.written
  BY <1>3 DEF RestoreNext, ToRestore, EditedFiles
<1>5. tx.kind = "writes" => Past(g) \/ g = Current
  <2>1. CASE Len(tx.order) = 1
    BY <1>2, <1>4, <2>1 DEF IsLast
  <2>2. CASE Len(tx.order) # 1
    BY <1>1, <1>4, <2>2 DEF WrittenArePast
  <2> QED BY <2>1, <2>2
<1>6. tx.backup[g] \in Contents
  BY <1>1 DEF Transactions
<1>7. /\ content' \in [EditFiles -> Contents]
      /\ \A f \in EditFiles \ {g} : content'[f] = content[f]
      /\ content'[g] \in {content[g], tx.backup[g], Torn}
      /\ ok => content'[g] = tx.backup[g]
  <2>1. CASE tx.backup[g] # Missing
    BY <1>3, <1>6, <2>1, ContentFacts DEF WriteAtomic, EditTypeOK
  <2>2. CASE tx.backup[g] = Missing
    BY <1>3, <1>6, <2>2, ContentFacts DEF RemoveFile, EditTypeOK
  <2> QED BY <2>1, <2>2
<1>8. ioFaults' \in 0..MaxIoFaults
  <2>1. CASE tx.backup[g] # Missing
    BY <1>3, <2>1, EditAssumption DEF WriteAtomic, EditTypeOK
  <2>2. CASE tx.backup[g] = Missing
    BY <1>3, <2>2, EditAssumption DEF RemoveFile, EditTypeOK
  <2> QED BY <2>1, <2>2
<1>9. lost' \subseteq unguarded
  <2>1. content[g].base = "foreign" => g \in unguarded \/ tx.backup[g].base = "foreign"
    BY <1>1 DEF ForeignIsKnown, WillRefuse
  <2> QED BY <1>3, <2>1 DEF Replaced, GuardedWritesSurvive
<1> DEFINE r == [tx.report EXCEPT ![g] = IF ok THEN "restored" ELSE "unrestored"]
<1>10. r \in [EditFiles -> Reports]
  BY <1>1 DEF Transactions, Reports
<1>11. tx' = [tx EXCEPT !.report = r]
  BY <1>1, <1>3 DEF Transactions
<1>12. \A f \in EditFiles : r[f] = IF f = g THEN IF ok THEN "restored" ELSE "unrestored" ELSE tx.report[f]
  BY <1>1 DEF Transactions
<1> HIDE DEF r
<1>13. /\ tx' \in Transactions /\ tx'.at = "rollback" /\ tx'.report = r
       /\ tx'.kind = tx.kind /\ tx'.order = tx.order /\ tx'.next = tx.next
       /\ tx'.backup = tx.backup /\ tx'.written = tx.written
  BY <1>1, <1>10, <1>11 DEF Transactions
<1>14. (\A f : (Past(f)') <=> Past(f)) /\ EditedFiles' = EditedFiles /\ Current' = Current
  BY <1>13, SameFile
<1>15. EditTypeOK'
  BY <1>1, <1>7, <1>8, <1>9, <1>13 DEF EditTypeOK
<1>16. OrderFits' /\ WrittenArePast'
  BY <1>1, <1>13, <1>14 DEF OrderFits, WrittenArePast
<1>17. /\ NothingEdited' /\ TextsStand' /\ EditedSoFar' /\ BlankText' /\ TextIsKnown'
       /\ AllOrNothingOrTold'
  BY <1>13 DEF NothingEdited, TextsStand, EditedSoFar, BlankText, TextIsKnown, AllOrNothingOrTold
<1>18. BackupsStand'
  <2> SUFFICES ASSUME tx.kind = "writes", NEW f \in EditedFiles \ touched, ~Past(f), f # Current
               PROVE  content'[f] = tx.backup[f]
    BY <1>1, <1>13, <1>14 DEF BackupsStand, NotReached
  <2>1. f # g /\ f \in EditFiles
    BY <1>2, <1>5
  <2>2. content[f] = tx.backup[f]
    BY <1>1 DEF BackupsStand, NotReached
  <2> QED BY <1>7, <2>1, <2>2
<1>19. RestoredIsBack'
  BY <1>1, <1>2, <1>7, <1>12, <1>13, <1>14 DEF RestoredIsBack
<1>20. ForeignIsKnown'
  <2> SUFFICES ASSUME NEW f \in EditFiles, content'[f].base = "foreign", f \notin unguarded
               PROVE  tx.kind = "edits" /\ tx.backup[f].base = "foreign"
    BY <1>1, <1>13 DEF ForeignIsKnown
  <2>1. content[f].base = "foreign" => tx.kind = "edits" /\ tx.backup[f].base = "foreign"
    BY <1>1 DEF ForeignIsKnown, WillRefuse
  <2>2. tx.backup[f].base = "foreign" => tx.kind = "edits"
    BY DEF BackupIsKnown
  <2> QED BY <1>7, <2>1, <2>2, ContentFacts
<1>21. BackupIsKnown'
  BY <1>1, <1>13 DEF BackupIsKnown
<1>22. GuardedWritesSurvive'
  BY <1>1, <1>9 DEF GuardedWritesSurvive
<1> QED BY <1>15, <1>16, <1>17, <1>18, <1>19, <1>20, <1>21, <1>22

(* What a rollback neither restored nor reports was never written. *)
LEMMA RollbackKeeps ==
  ASSUME EditInv, RollbackEnds
  PROVE  EditInv'
<1> USE DEF EditInv
<1>1. /\ tx.at = "rollback" /\ tx.kind # "bare" /\ tx \in Transactions /\ ToRestore = {}
      /\ UNCHANGED <<content, foreign, ioFaults, touched, unguarded, lost>>
  BY DEF RollbackEnds, EditTypeOK, OrderFits
<1>2. /\ Len(tx.order) \in Nat /\ tx.next \in 1..Len(tx.order)
      /\ EditedFiles \subseteq EditFiles
      /\ IsLast => \A f \in EditedFiles : Past(f) \/ f = Current
      /\ \A f : f \in EditedFiles <=> \E i \in 1..Len(tx.order) : tx.order[i] = f
  BY <1>1, PlaceFacts
<1> DEFINE r == [f \in EditFiles |-> IF tx.kind = "writes" /\ f = Current /\ tx.report[f] = "none"
                                     THEN "unrestored" ELSE tx.report[f]]
<1>3. r \in [EditFiles -> Reports]
  BY <1>1 DEF Transactions, Reports
<1>4. tx' = [tx EXCEPT !.at = "done", !.status = "RolledBack", !.report = r]
  BY DEF RollbackEnds
<1>5. \A f \in EditFiles : r[f] = IF tx.kind = "writes" /\ f = Current /\ tx.report[f] = "none"
                                  THEN "unrestored" ELSE tx.report[f]
  OBVIOUS
<1> HIDE DEF r
<1>6. /\ tx' \in Transactions /\ tx'.at = "done" /\ tx'.status = "RolledBack" /\ tx'.report = r
      /\ tx'.kind = tx.kind /\ tx'.order = tx.order /\ tx'.next = tx.next
      /\ tx'.backup = tx.backup
  BY <1>1, <1>3, <1>4 DEF Transactions, Places
<1>7. EditedFiles' = EditedFiles
  BY <1>6 DEF EditedFiles
<1>8. ASSUME NEW f \in EditedFiles \ touched, r[f] # "unrestored"
      PROVE  content[f] = tx.backup[f]
  <2>1. f \in EditFiles /\ tx.report[f] \in Reports
    BY <1>1, <1>2 DEF Transactions
  <2>2. CASE tx.report[f] = "none"
    <3>1. ~(tx.kind = "writes" /\ f = Current)
      BY <1>5, <1>8, <2>1, <2>2
    <3>2. tx.kind = "writes" /\ ~IF Len(tx.order) = 1 THEN tx.backup[f] # Missing ELSE f \in tx.written
      BY <1>1, <2>2 DEF ToRestore, EditedFiles
    <3>3. Len(tx.order) # 1
      <4>1. ASSUME Len(tx.order) = 1 PROVE f = Current
        BY <1>2, <4>1 DEF Current
      <4> QED BY <3>1, <3>2, <4>1
    <3>4. ~Past(f) /\ f # Current
      BY <1>1, <2>1, <3>1, <3>2, <3>3 DEF WrittenArePast
    <3> QED BY <1>1, <3>2, <3>4 DEF BackupsStand, NotReached
  <2>3. CASE tx.report[f] = "restored"
    BY <1>1, <2>3 DEF RestoredIsBack
  <2>4. CASE tx.report[f] = "unrestored"
    BY <1>5, <1>8, <2>1, <2>4
  <2> QED BY <2>1, <2>2, <2>3, <2>4 DEF Reports
<1>9. AllOrNothingOrTold'
  BY <1>1, <1>6, <1>7, <1>8 DEF AllOrNothingOrTold
<1> QED BY <1>1, <1>6, <1>9, EndingKeeps DEF EditTypeOK, GuardedWritesSurvive
-----------------------------------------------------------------------------
LEMMA EditInvInductive == EditInv /\ [EditNext]_editVars => EditInv'
<1> SUFFICES ASSUME EditInv, [EditNext]_editVars PROVE EditInv'
  OBVIOUS
<1>1. CASE UNCHANGED editVars
  <2>1. /\ UNCHANGED <<content, tx, foreign, ioFaults, touched, unguarded, lost>>
        /\ (\A f : (Past(f)') <=> Past(f)) /\ EditedFiles' = EditedFiles /\ Current' = Current
    BY <1>1, SameFile DEF editVars
  <2>2. EditTypeOK' /\ OrderFits' /\ WrittenArePast' /\ NothingEdited' /\ TextsStand'
    BY <2>1 DEF EditInv, EditTypeOK, OrderFits, WrittenArePast, NothingEdited, TextsStand
  <2>3. EditedSoFar' /\ BackupsStand' /\ RestoredIsBack'
    BY <2>1 DEF EditInv, EditedSoFar, BackupsStand, NotReached, RestoredIsBack
  <2>4. ForeignIsKnown' /\ BackupIsKnown' /\ BlankText' /\ TextIsKnown'
    BY <2>1 DEF EditInv, ForeignIsKnown, WillRefuse, BackupIsKnown, BlankText, TextIsKnown
  <2>5. AllOrNothingOrTold' /\ GuardedWritesSurvive'
    BY <2>1 DEF EditInv, AllOrNothingOrTold, GuardedWritesSurvive
  <2> QED BY <2>2, <2>3, <2>4, <2>5 DEF EditInv
<1>2. CASE EditNext
  <2>1. ASSUME NEW kind \in Kinds, NEW S \in (SUBSET EditFiles) \ {{}},
               NEW order \in SetToSeqs(S), StartEdit(kind, order)
        PROVE  EditInv'
    BY <2>1, StartKeeps
  <2>2. ASSUME NEW f \in EditFiles, ForeignWrite(f) PROVE EditInv'
    BY <2>2, ForeignKeeps
  <2> QED BY <1>2, <2>1, <2>2, CaptureKeeps, VerifyKeeps, ReadKeeps, ApplyKeeps, RestoreKeeps,
             RollbackKeeps, NextEditKeeps DEF EditNext
<1> QED BY <1>1, <1>2

LEMMA EditInvHolds == EditSpec => []EditInv
BY EditInitInv, EditInvInductive, PTL DEF EditSpec

(* The files, the running edit and the history have their types. *)
THEOREM EditTypeCorrect == EditSpec => []EditTypeOK
BY EditInvHolds, PTL DEF EditInv

(* An edit is in every file when it says so, in none when it refuses, and what a
   rollback could not bring back it names (apply_with_evidence,
   apply_full_writes_with_evidence). *)
THEOREM WholeUndoneOrTold == EditSpec => []AllOrNothingOrTold
BY EditInvHolds, PTL DEF EditInv

(* An editor's write between capture and verification is never replaced. *)
THEOREM EditorsWritesSurvive == EditSpec => []GuardedWritesSurvive
BY EditInvHolds, PTL DEF EditInv
-----------------------------------------------------------------------------
(***************************************************************************)
(* The way of a mutation (MutationPath).                                   *)
(***************************************************************************)
(* The rows of a short log. *)
LEMMA AppendToOne ==
  ASSUME NEW x, NEW y
  PROVE  Append(<<>>, x) = <<x>> /\ Append(<<x>>, y) = <<x, y>>
<1> DEFINE s == Append(<<x>>, y)
           t == <<x, y>>
<1>1. s \in Seq({x, y}) /\ Len(s) = 2 /\ s[1] = x /\ s[2] = y
  BY AppendProperties
<1>2. t \in Seq({x, y}) /\ Len(t) = 2 /\ t[1] = x /\ t[2] = y
  OBVIOUS
<1> HIDE DEF s, t
<1>3. \A i \in 1..Len(s) : s[i] = t[i]
  BY <1>1, <1>2
<1>4. s = t
  BY <1>1, <1>2, <1>3, SeqEqual
<1>5. Append(<<>>, x) = <<x>>
  OBVIOUS
<1> QED BY <1>4, <1>5 DEF s, t
-----------------------------------------------------------------------------
(* The inductive invariant.                                                *)

(* What the audit log holds of an operation whose call is at this step. *)
AuditedFits(call) ==
  \/ call.status \in {"ok", "no_op"}
  \/ call.status = "rolled_back" /\ call.says = "silent"

RowsFit(call, rows) ==
  /\ call.phase \notin {"analysing", "recorded"}
  /\ call.phase = "unsent" => rows = <<>>
  /\ call.phase \in {"gate", "handling", "clearing", "outcome", "failure", "lost"} =>
       rows = <<"Verifying">>
  /\ call.phase = "answered" =>
       \/ rows = <<"Verifying">> /\ call.unlogged
       \/ rows = <<"Verifying", "Audited">> /\ AuditedFits(call)
       \/ rows = <<"Verifying", "RolledBack">> /\ call.status = "rolled_back"
       \/ rows = <<"Verifying", "Failed">> /\ (call.effect = "whole" => call.unlogged)
  /\ call.phase = "refused" => rows \in {<<>>, <<"Denied">>, <<"Failed">>}
  /\ call.phase = "failure" /\ call.effect = "whole" => call.unlogged
  /\ call.phase \in {"unsent", "refused", "gate", "handling"} =>
       call.status = "none" /\ call.effect = "none"
  /\ call.phase \in {"clearing", "outcome"} =>
       /\ call.status \in {"ok", "rolled_back", "no_op"}
       /\ call.says = "rolled_back" => call.status = "rolled_back"
       /\ call.status = "rolled_back" => call.says \in {"rolled_back", "silent"}

RowsFitCalls == \A c \in Edits : RowsFit(mutCall[c], ledger[c])

(* A mutation whose handler succeeded is past the clearing of all evidence. *)
Succeeded(call) == call.status \in {"ok", "rolled_back", "no_op"} /\ call.phase # "clearing"

(* Evidence that could open the gate knows every mutation that has succeeded. *)
EvidenceIsYoung ==
  \A s \in Sessions : preflights[s].paths # {} =>
    \A d \in Edits : Succeeded(mutCall[d]) => d \in preflights[s].entered

MutationInv == MutationTypeOK /\ RowsFitCalls /\ EvidenceIsYoung /\ NoSpentEvidence
-----------------------------------------------------------------------------
(* Records *)

LEMMA CallTypes ==
  /\ Unsent \in Calling /\ Unsent.phase = "unsent" /\ Unsent.status = "none"
  /\ Unsent.effect = "none" /\ Unsent.says = "silent" /\ Unsent.spent = {} /\ ~Unsent.unlogged
  /\ NoEvidence \in Preflights /\ NoEvidence.paths = {}
<1>1. (CHOOSE s \in Sessions : TRUE) \in Sessions
  BY MutationAssumption
<1> QED BY <1>1 DEF Unsent, NoEvidence, Calling, Preflights, Phases, Statuses, Effects, ApplyStatuses

LEMMA EndedCall ==
  ASSUME NEW call \in Calling, NEW phase \in Phases
  PROVE  /\ Ended(call, phase) \in Calling
         /\ Ended(call, phase).phase = phase /\ Ended(call, phase).status = call.status
         /\ Ended(call, phase).effect = call.effect /\ Ended(call, phase).spent = call.spent
         /\ Ended(call, phase).unlogged = call.unlogged /\ Ended(call, phase).says = call.says
BY CallTypes DEF Ended, Calling

(* Every shape the log of an operation takes is a sequence of at most two rows. *)
LEMMA RowShapes ==
  ASSUME NEW rows, rows \in {<<>>, <<"Verifying">>, <<"Denied">>, <<"Failed">>,
                             <<"Verifying", "Audited">>, <<"Verifying", "RolledBack">>,
                             <<"Verifying", "Failed">>}
  PROVE  rows \in SeqOf(Closing \cup {"Verifying"}, 2)
<1> DEFINE Row == Closing \cup {"Verifying"}
<1>1. rows \in [1..0 -> Row] \/ rows \in [1..1 -> Row] \/ rows \in [1..2 -> Row]
  <2>1. <<>> \in [1..0 -> Row]
    OBVIOUS
  <2>2. \A x \in Row : <<x>> \in [1..1 -> Row]
    OBVIOUS
  <2>3. \A x, y \in Row : <<x, y>> \in [1..2 -> Row]
    OBVIOUS
  <2>4. /\ "Verifying" \in Row /\ "Denied" \in Row /\ "Failed" \in Row
        /\ "Audited" \in Row /\ "RolledBack" \in Row
    BY DEF Closing
  <2> HIDE DEF Row
  <2>5. <<"Verifying">> \in [1..1 -> Row] /\ <<"Denied">> \in [1..1 -> Row]
        /\ <<"Failed">> \in [1..1 -> Row]
    BY <2>2, <2>4
  <2>6. /\ <<"Verifying", "Audited">> \in [1..2 -> Row]
        /\ <<"Verifying", "RolledBack">> \in [1..2 -> Row]
        /\ <<"Verifying", "Failed">> \in [1..2 -> Row]
    BY <2>3, <2>4
  <2> QED BY <2>1, <2>5, <2>6, Zenon
<1>2. 0 \in 0..2 /\ 1 \in 0..2 /\ 2 \in 0..2
  OBVIOUS
<1> HIDE DEF Row
<1>3. rows \in UNION {[1..m -> Row] : m \in 0..2}
  BY <1>1, <1>2
<1> QED BY <1>3 DEF SeqOf, Row

LEMMA FittingRows ==
  ASSUME NEW call \in Calling, NEW rows, RowsFit(call, rows)
  PROVE  rows \in SeqOf(Closing \cup {"Verifying"}, 2)
BY RowShapes DEF RowsFit, Calling, Phases

(* A step of one call that leaves the evidence alone keeps the invariant if what it
   makes of the call fits its rows and the call does not succeed by it. *)
LEMMA OneCallMoves ==
  ASSUME MutationInv, NEW c \in MutCalls, NEW new \in Calling, NEW rows,
         mutCall' = [mutCall EXCEPT ![c] = new], c \in Edits => new.spent = {},
         \/ ledger' = ledger
         \/ c \in Edits /\ ledger' = [ledger EXCEPT ![c] = rows],
         c \in Edits => RowsFit(new, ledger'[c])
  PROVE  /\ mutCall' \in [MutCalls -> Calling]
         /\ ledger' \in [Edits -> SeqOf(Closing \cup {"Verifying"}, 2)]
         /\ RowsFitCalls' /\ NoSpentEvidence'
         /\ \A d \in Edits : mutCall'[d] = IF d = c THEN new ELSE mutCall[d]
<1> USE DEF MutationInv, MutationTypeOK, MutCalls
<1>1. /\ mutCall' \in [MutCalls -> Calling]
      /\ \A d \in Edits : mutCall'[d] = IF d = c THEN new ELSE mutCall[d]
  OBVIOUS
<1>2. ASSUME NEW d \in Edits PROVE RowsFit(mutCall'[d], ledger'[d])
  <2>1. CASE d = c
    BY <1>1, <2>1
  <2>2. CASE d # c
    <3>1. mutCall'[d] = mutCall[d] /\ ledger'[d] = ledger[d]
      BY <1>1, <2>2
    <3>2. RowsFit(mutCall[d], ledger[d])
      BY DEF RowsFitCalls
    <3> QED BY <3>1, <3>2
  <2> QED BY <2>1, <2>2
<1>3. ledger' \in [Edits -> SeqOf(Closing \cup {"Verifying"}, 2)]
  <2>1. ledger' = ledger \/ (c \in Edits /\ rows = ledger'[c])
    OBVIOUS
  <2>2. c \in Edits => ledger'[c] \in SeqOf(Closing \cup {"Verifying"}, 2)
    BY <1>1, <1>2, FittingRows
  <2> QED BY <2>1, <2>2
<1>4. \A d \in Edits : mutCall'[d].spent = {}
  BY <1>1 DEF NoSpentEvidence
<1> QED BY <1>1, <1>2, <1>3, <1>4 DEF RowsFitCalls, NoSpentEvidence

(* The evidence stays what it was, and no call succeeds. *)
LEMMA EvidenceStays ==
  ASSUME MutationInv, NEW c \in MutCalls, NEW new \in Calling,
         \A d \in Edits : mutCall'[d] = IF d = c THEN new ELSE mutCall[d],
         c \in Edits /\ Succeeded(new) => Succeeded(mutCall[c]), UNCHANGED preflights
  PROVE  EvidenceIsYoung' /\ preflights' \in [Sessions -> Preflights]
BY DEF MutationInv, MutationTypeOK, EvidenceIsYoung

(* New evidence is that of every handler that has started. *)
LEMMA EvidenceRecorded ==
  ASSUME MutationInv, NEW c \in Verifiers, RecordEvidence(c),
         \A d \in Edits : mutCall'[d] = mutCall[d]
  PROVE  EvidenceIsYoung' /\ preflights' \in [Sessions -> Preflights]
<1> USE DEF MutationInv, MutationTypeOK, MutCalls
<1>1. mutCall[c] \in Calling /\ Evidence(c) \in Preflights /\ Evidence(c).entered = Entered
  BY DEF Evidence, Calling, Preflights, Entered
<1>2. /\ preflights' \in [Sessions -> Preflights]
      /\ \A s \in Sessions : preflights'[s] \in {preflights[s], Evidence(c)}
  <2>1. preflights' = [preflights EXCEPT ![mutCall[c].session] = Evidence(c)]
    BY DEF RecordEvidence
  <2> QED BY <1>1, <2>1 DEF Calling
<1>3. \A d \in Edits : Succeeded(mutCall[d]) => d \in Evidence(c).entered
  BY <1>1 DEF Succeeded, Entered
<1>4. ASSUME NEW s \in Sessions, preflights'[s].paths # {}, NEW d \in Edits, Succeeded(mutCall'[d])
      PROVE  d \in preflights'[s].entered
  BY <1>2, <1>3, <1>4 DEF EvidenceIsYoung
<1> QED BY <1>2, <1>4 DEF EvidenceIsYoung

LEMMA EvidenceGone ==
  ASSUME preflights' = [s \in Sessions |-> NoEvidence]
  PROVE  EvidenceIsYoung' /\ preflights' \in [Sessions -> Preflights]
BY CallTypes DEF EvidenceIsYoung
-----------------------------------------------------------------------------
(* The steps of a verifier *)

LEMMA VerifierSteps ==
  ASSUME MutationInv, NEW c \in Verifiers, NEW new \in Calling,
         mutCall' = [mutCall EXCEPT ![c] = new],
         UNCHANGED preflights \/ RecordEvidence(c),
         approvals' \in [Sessions -> SUBSET Targets], UNCHANGED <<ledger, mishaps>>
  PROVE  MutationInv'
<1>1. c \in MutCalls /\ c \notin Edits
  BY MutationAssumption DEF MutCalls
<1>2. /\ mutCall' \in [MutCalls -> Calling]
      /\ ledger' \in [Edits -> SeqOf(Closing \cup {"Verifying"}, 2)]
      /\ RowsFitCalls' /\ NoSpentEvidence'
      /\ \A d \in Edits : mutCall'[d] = mutCall[d]
  BY <1>1, OneCallMoves
<1>3. EvidenceIsYoung' /\ preflights' \in [Sessions -> Preflights]
  <2>1. CASE UNCHANGED preflights
    <3>1. \A d \in Edits : mutCall'[d] = IF d = c THEN new ELSE mutCall[d]
      BY <1>1, <1>2
    <3> QED BY <1>1, <2>1, <3>1, EvidenceStays
  <2>2. CASE RecordEvidence(c)
    BY <1>2, <2>2, EvidenceRecorded
  <2> QED BY <2>1, <2>2
<1> QED BY <1>2, <1>3 DEF MutationInv, MutationTypeOK

LEMMA AskKeeps ==
  ASSUME MutationInv, NEW c \in Verifiers, NEW s \in Sessions, NEW paths \in SUBSET Targets,
         NEW sym \in Symbols \cup {NoSymbol}, NEW run \in BOOLEAN, NEW blocked \in BOOLEAN,
         AskVerifier(c, s, paths, sym, run, blocked)
  PROVE  MutationInv'
<1> DEFINE new == [Unsent EXCEPT !.phase = "analysing", !.session = s, !.paths = paths,
                                 !.symbol = sym, !.run = run, !.blocked = blocked]
<1>1. new \in Calling
  BY CallTypes DEF Calling, Phases
<1>2. mutCall' = [mutCall EXCEPT ![c] = new] /\ UNCHANGED <<preflights, approvals, ledger, mishaps>>
  BY DEF AskVerifier
<1> HIDE DEF new
<1> QED BY <1>1, <1>2, VerifierSteps DEF MutationInv, MutationTypeOK

LEMMA AnswerKeeps ==
  ASSUME MutationInv, NEW c \in Verifiers,
         AnswerVerifier(c) \/ \E granted, allows \in BOOLEAN : OrchestrateRecords(c, granted, allows)
  PROVE  MutationInv'
<1>1. mutCall[c] \in Calling
  BY DEF MutCalls, MutationInv, MutationTypeOK
<1>2. CASE AnswerVerifier(c)
  <2> DEFINE new == Ended(mutCall[c], "answered")
  <2>1. new \in Calling
    BY <1>1, EndedCall DEF Phases
  <2>2. /\ mutCall' = [mutCall EXCEPT ![c] = new] /\ RecordEvidence(c)
        /\ UNCHANGED <<approvals, ledger, mishaps>>
    BY <1>2 DEF AnswerVerifier, Answer
  <2> HIDE DEF new
  <2> QED BY <2>1, <2>2, VerifierSteps DEF MutationInv, MutationTypeOK
<1>3. ASSUME NEW granted \in BOOLEAN, NEW allows \in BOOLEAN, OrchestrateRecords(c, granted, allows)
      PROVE  MutationInv'
  <2> DEFINE new == [mutCall[c] EXCEPT !.phase = "recorded"]
  <2>1. new \in Calling
    BY <1>1 DEF Calling, Phases
  <2>2. /\ mutCall' = [mutCall EXCEPT ![c] = new] /\ RecordEvidence(c)
        /\ UNCHANGED <<ledger, mishaps>>
    BY <1>3 DEF OrchestrateRecords, To
  <2>3. approvals' \in [Sessions -> SUBSET Targets]
    BY <1>1, <1>3 DEF OrchestrateRecords, Calling, MutationInv, MutationTypeOK
  <2> HIDE DEF new
  <2> QED BY <2>1, <2>2, <2>3, VerifierSteps
<1> QED BY <1>2, <1>3
-----------------------------------------------------------------------------
(* The steps of a mutation *)

LEMMA EditSteps ==
  ASSUME MutationInv, NEW c \in Edits, NEW new \in Calling, NEW rows,
         mutCall' = [mutCall EXCEPT ![c] = new], new.spent = {},
         ledger' = ledger \/ ledger' = [ledger EXCEPT ![c] = rows],
         RowsFit(new, ledger'[c]), Succeeded(new) => Succeeded(mutCall[c]),
         UNCHANGED <<preflights, approvals>>, mishaps' \in 0..MaxMishaps
  PROVE  MutationInv'
<1>1. c \in MutCalls
  BY DEF MutCalls
<1>2. /\ mutCall' \in [MutCalls -> Calling]
      /\ ledger' \in [Edits -> SeqOf(Closing \cup {"Verifying"}, 2)]
      /\ RowsFitCalls' /\ NoSpentEvidence'
      /\ \A d \in Edits : mutCall'[d] = IF d = c THEN new ELSE mutCall[d]
  BY <1>1, OneCallMoves
<1>3. EvidenceIsYoung' /\ preflights' \in [Sessions -> Preflights]
  BY <1>1, <1>2, EvidenceStays
<1> QED BY <1>2, <1>3 DEF MutationInv, MutationTypeOK

(* A row is written behind those of its operation, or the log and the count of the
   mishaps say that it failed. *)
LEMMA RowsGrow ==
  ASSUME MutationInv, NEW c \in Edits, NEW row
  PROVE  /\ RowWritten(c, row) => /\ ledger' = [ledger EXCEPT ![c] = Append(ledger[c], row)]
                                  /\ ledger'[c] = Append(ledger[c], row)
                                  /\ mishaps' \in 0..MaxMishaps
         /\ RowFails => ledger' = ledger /\ mishaps' \in 0..MaxMishaps
BY MutationAssumption DEF RowWritten, RowFails, Mishap, MutationInv, MutationTypeOK

LEMMA BeginKeeps ==
  ASSUME MutationInv, NEW c \in Edits, NEW s \in Sessions, NEW paths \in SUBSET Targets,
         NEW sym \in Symbols \cup {NoSymbol}, NEW run \in BOOLEAN,
         BeginMutation(c, s, paths, sym, run)
  PROVE  MutationInv'
<1> DEFINE new(phase) == [Unsent EXCEPT !.phase = phase, !.session = s, !.paths = paths,
                                        !.symbol = sym, !.run = run]
<1>1. \A phase \in {"gate", "refused"} :
        /\ new(phase) \in Calling /\ new(phase).spent = {} /\ new(phase).status = "none"
        /\ new(phase).effect = "none" /\ new(phase).phase = phase
  BY CallTypes DEF Calling, Phases
<1>2. ledger[c] = <<>>
  BY DEF BeginMutation, MutationInv, RowsFitCalls, RowsFit
<1>3. \A phase : Opened(c, s, paths, sym, run, phase) => mutCall' = [mutCall EXCEPT ![c] = new(phase)]
  BY DEF Opened
<1>4. UNCHANGED <<preflights, approvals>>
  BY DEF BeginMutation
<1> HIDE DEF new
<1>5. CASE RowWritten(c, "Verifying") /\ mutCall' = [mutCall EXCEPT ![c] = new("gate")]
  <2>1. ledger'[c] = <<"Verifying">>
    BY <1>2, <1>5, RowsGrow
  <2>2. RowsFit(new("gate"), ledger'[c]) /\ ~Succeeded(new("gate"))
    BY <1>1, <2>1 DEF RowsFit, Succeeded
  <2> QED BY <1>1, <1>4, <1>5, <2>2, RowsGrow, EditSteps
<1>6. CASE RowFails /\ mutCall' = [mutCall EXCEPT ![c] = new("refused")]
  <2>1. RowsFit(new("refused"), ledger'[c]) /\ ~Succeeded(new("refused"))
    BY <1>1, <1>2, <1>6, RowsGrow DEF RowsFit, Succeeded
  <2> QED BY <1>1, <1>4, <1>6, <2>1, RowsGrow, EditSteps
<1> QED BY <1>3, <1>5, <1>6 DEF BeginMutation

LEMMA RefuseKeeps ==
  ASSUME MutationInv, NEW c \in Edits, NEW s \in Sessions, NEW row \in {"Denied", "Failed"},
         RefuseMutation(c, s, row)
  PROVE  MutationInv'
<1> PICK logged \in BOOLEAN :
      /\ IF logged THEN RowWritten(c, row) ELSE RowFails
      /\ mutCall' = [mutCall EXCEPT ![c] = [Unsent EXCEPT
           !.phase = "refused", !.session = s, !.unlogged = ~logged]]
  BY DEF RefuseMutation
<1> DEFINE new == [Unsent EXCEPT !.phase = "refused", !.session = s, !.unlogged = ~logged]
<1>1. /\ new \in Calling /\ new.spent = {} /\ new.status = "none" /\ new.effect = "none"
      /\ new.phase = "refused"
  BY CallTypes DEF Calling, Phases
<1>2. ledger[c] = <<>>
  BY DEF RefuseMutation, MutationInv, RowsFitCalls, RowsFit
<1>3. mutCall' = [mutCall EXCEPT ![c] = new] /\ UNCHANGED <<preflights, approvals>>
  BY DEF RefuseMutation
<1>4. ledger' = ledger \/ ledger' = [ledger EXCEPT ![c] = Append(ledger[c], row)]
  BY RowsGrow
<1>5. mishaps' \in 0..MaxMishaps
  BY RowsGrow
<1>6. ledger'[c] \in {<<>>, <<"Denied">>, <<"Failed">>}
  <2>1. ledger'[c] = <<>> \/ ledger'[c] = Append(<<>>, row)
    BY <1>2, RowsGrow
  <2> QED BY <2>1, AppendToOne
<1> HIDE DEF new
<1>7. RowsFit(new, ledger'[c]) /\ ~Succeeded(new)
  BY <1>1, <1>6 DEF RowsFit, Succeeded
<1> QED BY <1>1, <1>3, <1>4, <1>5, <1>7, EditSteps

(* What opens the gate knows every mutation that has been answered with success. *)
LEMMA GateKeeps ==
  ASSUME MutationInv, NEW c \in Edits, PassGate(c)
  PROVE  MutationInv'
<1> DEFINE s == mutCall[c].session
           spent == IF GatePasses(c) /\ s \in GatedSessions THEN AnsweredSince(s) ELSE {}
           new == [Unsent EXCEPT !.phase = IF GatePasses(c) THEN "handling" ELSE "failure",
                                 !.session = s, !.spent = spent]
<1>1. s \in Sessions /\ preflights[s] \in Preflights
  BY DEF MutationInv, MutationTypeOK, Calling, MutCalls
<1>2. spent = {}
  <2>1. SUFFICES ASSUME GatePasses(c), s \in GatedSessions PROVE AnsweredSince(s) = {}
    OBVIOUS
  <2>2. preflights[s].paths # {}
    BY <2>1 DEF GatePasses, EvidenceSuffices
  <2> QED BY <1>1, <2>2 DEF AnsweredSince, MutationInv, EvidenceIsYoung, Succeeded
<1>3. mutCall' = [mutCall EXCEPT ![c] = new] /\ UNCHANGED <<preflights, approvals, ledger, mishaps>>
  BY DEF PassGate
<1>4. ledger[c] = <<"Verifying">>
  BY DEF PassGate, MutationInv, RowsFitCalls, RowsFit
<1> HIDE DEF spent
<1>5. /\ new \in Calling /\ new.spent = {} /\ new.status = "none" /\ new.effect = "none"
      /\ new.phase \in {"handling", "failure"}
  BY <1>1, <1>2, CallTypes DEF Calling, Phases
<1> HIDE DEF new
<1>6. RowsFit(new, ledger'[c]) /\ ~Succeeded(new)
  BY <1>3, <1>4, <1>5 DEF RowsFit, Succeeded
<1>7. mishaps' \in 0..MaxMishaps
  BY <1>3 DEF MutationInv, MutationTypeOK
<1> QED BY <1>3, <1>5, <1>6, <1>7, EditSteps

LEMMA HandlerKeeps ==
  ASSUME MutationInv, NEW c \in Edits, RunHandler(c)
  PROVE  MutationInv'
<1> PICK end \in HandlerEnds :
      mutCall' = [mutCall EXCEPT ![c].status = end[1], ![c].effect = end[2], ![c].says = end[3],
                                 ![c].phase = IF end[1] = "error" THEN "failure" ELSE "clearing"]
  BY DEF RunHandler
<1> DEFINE new == [mutCall[c] EXCEPT !.status = end[1], !.effect = end[2], !.says = end[3],
                     !.phase = IF end[1] = "error" THEN "failure" ELSE "clearing"]
<1>1. mutCall[c] \in Calling /\ mutCall[c].spent = {}
  BY DEF MutationInv, MutationTypeOK, MutCalls, NoSpentEvidence
<1>2. mutCall' = [mutCall EXCEPT ![c] = new]
  BY <1>1 DEF MutationInv, MutationTypeOK, MutCalls, Calling
<1>3. /\ end[1] \in Statuses /\ end[2] \in Effects /\ end[3] \in ApplyStatuses
      /\ end[1] \in {"ok", "rolled_back", "no_op", "error"} /\ (end[1] = "error" => end[2] # "whole")
      /\ end[3] = "rolled_back" => end[1] = "rolled_back"
      /\ end[1] = "rolled_back" => end[3] \in {"rolled_back", "silent"}
  BY DEF HandlerEnds, Statuses, Effects, ApplyStatuses
<1>4. /\ new \in Calling /\ new.spent = {} /\ new.status = end[1] /\ new.effect = end[2]
      /\ new.says = end[3]
      /\ new.phase = IF end[1] = "error" THEN "failure" ELSE "clearing"
  BY <1>1, <1>3 DEF Calling, Phases
<1>5. UNCHANGED <<preflights, approvals, ledger, mishaps>>
  BY DEF RunHandler
<1>6. ledger[c] = <<"Verifying">>
  BY DEF RunHandler, MutationInv, RowsFitCalls, RowsFit
<1> HIDE DEF new
<1>7. RowsFit(new, ledger'[c]) /\ ~Succeeded(new)
  BY <1>3, <1>4, <1>5, <1>6 DEF RowsFit, Succeeded
<1>8. mishaps' \in 0..MaxMishaps
  BY <1>5 DEF MutationInv, MutationTypeOK
<1> QED BY <1>2, <1>4, <1>5, <1>7, <1>8, EditSteps

LEMMA ClearKeeps ==
  ASSUME MutationInv, NEW c \in Edits, ClearEvidence(c)
  PROVE  MutationInv'
<1> DEFINE new == [mutCall[c] EXCEPT !.phase = "outcome"]
<1>1. /\ mutCall[c] \in Calling /\ mutCall[c].spent = {} /\ c \in MutCalls
      /\ mutCall[c].phase = "clearing" /\ RowsFit(mutCall[c], ledger[c])
  BY DEF MutationInv, MutationTypeOK, MutCalls, NoSpentEvidence, ClearEvidence, RowsFitCalls
<1>2. /\ new \in Calling /\ new.spent = {} /\ new.status = mutCall[c].status
      /\ new.says = mutCall[c].says /\ new.effect = mutCall[c].effect /\ new.phase = "outcome"
  BY <1>1 DEF Calling, Phases
<1>3. /\ mutCall' = [mutCall EXCEPT ![c] = new] /\ preflights' = [s \in Sessions |-> NoEvidence]
      /\ UNCHANGED <<approvals, ledger, mishaps>>
  BY DEF ClearEvidence, To
<1> HIDE DEF new
<1>4. RowsFit(new, ledger'[c])
  BY <1>1, <1>2, <1>3 DEF RowsFit
<1>5. /\ mutCall' \in [MutCalls -> Calling]
      /\ ledger' \in [Edits -> SeqOf(Closing \cup {"Verifying"}, 2)]
      /\ RowsFitCalls' /\ NoSpentEvidence'
  BY <1>1, <1>2, <1>3, <1>4, OneCallMoves
<1> QED BY <1>3, <1>5, EvidenceGone DEF MutationInv, MutationTypeOK

LEMMA OutcomeKeeps ==
  ASSUME MutationInv, NEW c \in Edits, RecordOutcome(c)
  PROVE  MutationInv'
<1>1. /\ mutCall[c] \in Calling /\ mutCall[c].spent = {} /\ mutCall[c].phase = "outcome"
      /\ ledger[c] = <<"Verifying">> /\ mutCall[c].status \in {"ok", "rolled_back", "no_op"}
      /\ mutCall[c].says = "rolled_back" => mutCall[c].status = "rolled_back"
      /\ mutCall[c].status = "rolled_back" => mutCall[c].says \in {"rolled_back", "silent"}
  BY DEF MutationInv, MutationTypeOK, MutCalls, NoSpentEvidence, RecordOutcome, RowsFitCalls, RowsFit
<1>2. UNCHANGED <<preflights, approvals>>
  BY DEF RecordOutcome
<1>3. CASE RowWritten(c, OutcomeRow(c)) /\ Answer(c)
  <2> DEFINE new == Ended(mutCall[c], "answered")
  <2>1. mutCall' = [mutCall EXCEPT ![c] = new]
    BY <1>3 DEF Answer
  <2>2. /\ new \in Calling /\ new.spent = {} /\ new.phase = "answered"
        /\ new.status = mutCall[c].status /\ new.says = mutCall[c].says
    BY <1>1, EndedCall DEF Phases
  <2>3. /\ ledger'[c] = Append(<<"Verifying">>, OutcomeRow(c)) /\ mishaps' \in 0..MaxMishaps
        /\ ledger' = [ledger EXCEPT ![c] = Append(ledger[c], OutcomeRow(c))]
    BY <1>1, <1>3, RowsGrow
  <2>4. ledger'[c] = <<"Verifying", OutcomeRow(c)>>
    BY <2>3, AppendToOne, Zenon
  <2> HIDE DEF new
  <2>5. RowsFit(new, ledger'[c])
    BY <1>1, <2>2, <2>4 DEF RowsFit, AuditedFits, OutcomeRow, AnsweredStatus
  <2>6. Succeeded(new) => Succeeded(mutCall[c])
    BY <1>1, <2>2 DEF Succeeded
  <2> QED BY <1>2, <2>1, <2>2, <2>3, <2>5, <2>6, EditSteps
<1>4. CASE RowFails /\ mutCall' = [mutCall EXCEPT ![c].phase = "failure", ![c].unlogged = TRUE]
  <2> DEFINE new == [mutCall[c] EXCEPT !.phase = "failure", !.unlogged = TRUE]
  <2>1. mutCall' = [mutCall EXCEPT ![c] = new]
    BY <1>1, <1>4 DEF MutationInv, MutationTypeOK, MutCalls, Calling
  <2>2. /\ new \in Calling /\ new.spent = {} /\ new.phase = "failure" /\ new.unlogged
        /\ new.status = mutCall[c].status
    BY <1>1 DEF Calling, Phases
  <2> HIDE DEF new
  <2>3. ledger' = ledger /\ mishaps' \in 0..MaxMishaps
    BY <1>4, RowsGrow
  <2>4. RowsFit(new, ledger'[c])
    BY <1>1, <2>2, <2>3 DEF RowsFit
  <2>5. Succeeded(new) => Succeeded(mutCall[c])
    BY <1>1, <2>2 DEF Succeeded
  <2> QED BY <1>2, <2>1, <2>2, <2>3, <2>4, <2>5, EditSteps
<1> QED BY <1>3, <1>4 DEF RecordOutcome

LEMMA FailureKeeps ==
  ASSUME MutationInv, NEW c \in Edits, RecordFailure(c)
  PROVE  MutationInv'
<1>1. /\ mutCall[c] \in Calling /\ mutCall[c].spent = {} /\ mutCall[c].phase = "failure"
      /\ ledger[c] = <<"Verifying">> /\ (mutCall[c].effect = "whole" => mutCall[c].unlogged)
  BY DEF MutationInv, MutationTypeOK, MutCalls, NoSpentEvidence, RecordFailure, RowsFitCalls, RowsFit
<1>2. UNCHANGED <<preflights, approvals>>
  BY DEF RecordFailure
<1> DEFINE ended == Ended(mutCall[c], "answered")
<1>3. /\ ended \in Calling /\ ended.spent = {} /\ ended.phase = "answered"
      /\ ended.status = mutCall[c].status /\ ended.effect = mutCall[c].effect
      /\ ended.unlogged = mutCall[c].unlogged
  BY <1>1, EndedCall DEF Phases
<1>4. CASE RowWritten(c, "Failed") /\ Answer(c)
  <2>1. mutCall' = [mutCall EXCEPT ![c] = ended]
    BY <1>4 DEF Answer
  <2>2. /\ ledger'[c] = Append(<<"Verifying">>, "Failed") /\ mishaps' \in 0..MaxMishaps
        /\ ledger' = [ledger EXCEPT ![c] = Append(ledger[c], "Failed")]
    BY <1>1, <1>4, RowsGrow
  <2>3. ledger'[c] = <<"Verifying", "Failed">>
    BY <2>2, AppendToOne, Zenon
  <2> HIDE DEF ended
  <2>4. RowsFit(ended, ledger'[c])
    BY <1>1, <1>3, <2>3 DEF RowsFit
  <2>5. Succeeded(ended) => Succeeded(mutCall[c])
    BY <1>1, <1>3 DEF Succeeded
  <2> QED BY <1>2, <1>3, <2>1, <2>2, <2>4, <2>5, EditSteps
<1>5. CASE RowFails /\ mutCall' = [mutCall EXCEPT ![c] = [ended EXCEPT !.unlogged = TRUE]]
  <2> DEFINE new == [ended EXCEPT !.unlogged = TRUE]
  <2> HIDE DEF ended
  <2>1. mutCall' = [mutCall EXCEPT ![c] = new]
    BY <1>5
  <2>2. /\ new \in Calling /\ new.spent = {} /\ new.phase = "answered" /\ new.unlogged
        /\ new.status = mutCall[c].status
    BY <1>3 DEF Calling
  <2> HIDE DEF new
  <2>3. ledger' = ledger /\ mishaps' \in 0..MaxMishaps
    BY <1>5, RowsGrow
  <2>4. RowsFit(new, ledger'[c])
    BY <1>1, <2>2, <2>3 DEF RowsFit
  <2>5. Succeeded(new) => Succeeded(mutCall[c])
    BY <1>1, <2>2 DEF Succeeded
  <2> QED BY <1>2, <2>1, <2>2, <2>3, <2>4, <2>5, EditSteps
<1> QED BY <1>4, <1>5 DEF RecordFailure
-----------------------------------------------------------------------------
(* Time, other projects and restarts *)

LEMMA AgesKeep ==
  ASSUME MutationInv, NEW s \in Sessions, EvidenceAges(s) \/ ApprovalAges(s)
  PROVE  MutationInv'
<1> USE DEF MutationInv, MutationTypeOK
<1>1. UNCHANGED <<mutCall, ledger, mishaps>>
  BY DEF EvidenceAges, ApprovalAges
<1>2. RowsFitCalls' /\ NoSpentEvidence'
  BY <1>1 DEF RowsFitCalls, NoSpentEvidence
<1>3. /\ preflights' \in [Sessions -> Preflights] /\ approvals' \in [Sessions -> SUBSET Targets]
      /\ \A t \in Sessions : preflights'[t] \in {preflights[t], NoEvidence}
  BY CallTypes DEF EvidenceAges, ApprovalAges
<1>4. EvidenceIsYoung'
  BY <1>1, <1>3, CallTypes DEF EvidenceIsYoung
<1> QED BY <1>1, <1>2, <1>3, <1>4

LEMMA ForgetsAll ==
  ASSUME Forget
  PROVE  /\ EvidenceIsYoung' /\ preflights' \in [Sessions -> Preflights]
         /\ approvals' \in [Sessions -> SUBSET Targets]
         /\ mishaps \in 0..MaxMishaps => mishaps' \in 0..MaxMishaps
<1>1. EvidenceIsYoung' /\ preflights' \in [Sessions -> Preflights]
  BY EvidenceGone DEF Forget
<1> QED BY <1>1, MutationAssumption DEF Forget, Mishap

LEMMA SwitchKeeps == MutationInv /\ SwitchProject => MutationInv'
BY ForgetsAll DEF SwitchProject, MutationInv, MutationTypeOK, RowsFitCalls, NoSpentEvidence

(* A call that a restart cuts short leaves the row that opened it, and no other. *)
LEMMA RestartKeeps == MutationInv /\ Restart => MutationInv'
<1> SUFFICES ASSUME MutationInv, Restart PROVE MutationInv'
  OBVIOUS
<1>1. PICK torn \in SUBSET {c \in Underway : mutCall[c].phase = "handling"} :
        mutCall' = [c \in MutCalls |->
          IF c \in Underway
          THEN [Ended(mutCall[c], "lost") EXCEPT !.effect = IF c \in torn THEN "partial" ELSE @]
          ELSE mutCall[c]]
  BY DEF Restart
<1>2. \A c \in MutCalls : mutCall[c] \in Calling
  BY DEF MutationInv, MutationTypeOK
<1>3. ASSUME NEW c \in MutCalls
      PROVE  \/ mutCall'[c] = mutCall[c] /\ c \notin Underway
             \/ /\ c \in Underway /\ mutCall'[c] \in Calling /\ mutCall'[c].phase = "lost"
                /\ mutCall'[c].spent = mutCall[c].spent
  <2> DEFINE ended == Ended(mutCall[c], "lost")
  <2>1. ended \in Calling /\ ended.phase = "lost" /\ ended.spent = mutCall[c].spent
    BY <1>2, EndedCall DEF Phases
  <2>2. mutCall'[c] = IF c \in Underway
                      THEN [ended EXCEPT !.effect = IF c \in torn THEN "partial" ELSE @]
                      ELSE mutCall[c]
    BY <1>1
  <2> HIDE DEF ended
  <2> QED BY <2>1, <2>2 DEF Calling, Effects
<1>4. mutCall' \in [MutCalls -> Calling]
  <2>1. mutCall' = [c \in MutCalls |-> mutCall'[c]]
    BY <1>1
  <2> QED BY <1>2, <1>3, <2>1
<1>5. ledger' = ledger /\ Forget
  BY DEF Restart
<1>6. ASSUME NEW c \in Edits PROVE RowsFit(mutCall'[c], ledger'[c]) /\ mutCall'[c].spent = {}
  <2>1. c \in MutCalls /\ RowsFit(mutCall[c], ledger[c]) /\ mutCall[c].spent = {}
        /\ mutCall[c].phase \in Phases
    BY <1>2 DEF MutCalls, MutationInv, RowsFitCalls, NoSpentEvidence, Calling
  <2>2. CASE mutCall'[c] = mutCall[c]
    BY <1>5, <2>1, <2>2
  <2>3. CASE c \in Underway /\ mutCall'[c].phase = "lost" /\ mutCall'[c].spent = mutCall[c].spent
    <3>1. ledger[c] = <<"Verifying">>
      BY <2>1, <2>3 DEF Underway, RowsFit, Phases
    <3> QED BY <1>5, <2>1, <2>3, <3>1 DEF RowsFit
  <2> QED BY <1>3, <2>1, <2>2, <2>3
<1>7. RowsFitCalls' /\ NoSpentEvidence'
  BY <1>6 DEF RowsFitCalls, NoSpentEvidence
<1> QED BY <1>4, <1>5, <1>7, ForgetsAll DEF MutationInv, MutationTypeOK
-----------------------------------------------------------------------------
LEMMA MutationInitInv == MutationInit => MutationInv
<1> SUFFICES ASSUME MutationInit PROVE MutationInv
  OBVIOUS
<1>1. \A c \in MutCalls : mutCall[c] = Unsent
  BY DEF MutationInit
<1>2. \A c \in Edits : mutCall[c] = Unsent /\ ledger[c] = <<>>
  BY <1>1 DEF MutationInit, MutCalls
<1>3. RowsFitCalls
  BY <1>2, CallTypes DEF RowsFitCalls, RowsFit
<1>4. NoSpentEvidence /\ EvidenceIsYoung
  BY <1>2, CallTypes DEF NoSpentEvidence, EvidenceIsYoung, Succeeded
<1>5. <<>> \in SeqOf(Closing \cup {"Verifying"}, 2)
  BY RowShapes
<1>6. MutationTypeOK
  BY <1>5, CallTypes, MutationAssumption DEF MutationInit, MutationTypeOK
<1> QED BY <1>3, <1>4, <1>6 DEF MutationInv

LEMMA MutationInvInductive == MutationInv /\ [MutationNext]_mutVars => MutationInv'
<1> SUFFICES ASSUME MutationInv, [MutationNext]_mutVars PROVE MutationInv'
  OBVIOUS
<1>1. ASSUME NEW s \in Sessions, NEW paths \in (SUBSET Targets) \ {{}},
             NEW sym \in Symbols \cup {NoSymbol}, NEW run \in BOOLEAN,
             \/ \E c \in Verifiers, blocked \in BOOLEAN : AskVerifier(c, s, paths, sym, run, blocked)
             \/ \E c \in Edits : BeginMutation(c, s, paths, sym, run)
      PROVE  MutationInv'
  <2>1. paths \in SUBSET Targets
    OBVIOUS
  <2> QED BY <1>1, <2>1, AskKeeps, BeginKeeps
<1>2. ASSUME NEW c \in Edits, NEW s \in Sessions, NEW row \in {"Denied", "Failed"},
             RefuseMutation(c, s, row)
      PROVE  MutationInv'
  BY <1>2, RefuseKeeps
<1>3. ASSUME NEW c \in Verifiers,
             \/ \E granted, allows \in BOOLEAN : OrchestrateRecords(c, granted, allows)
             \/ AnswerVerifier(c)
      PROVE  MutationInv'
  BY <1>3, AnswerKeeps
<1>4. ASSUME NEW c \in Edits,
             \/ PassGate(c) \/ RunHandler(c) \/ ClearEvidence(c)
             \/ RecordOutcome(c) \/ RecordFailure(c)
      PROVE  MutationInv'
  BY <1>4, GateKeeps, HandlerKeeps, ClearKeeps, OutcomeKeeps, FailureKeeps
<1>5. ASSUME NEW s \in Sessions, EvidenceAges(s) \/ ApprovalAges(s) PROVE MutationInv'
  BY <1>5, AgesKeep
<1>6. CASE SwitchProject \/ Restart
  BY <1>6, SwitchKeeps, RestartKeeps
<1>7. CASE UNCHANGED mutVars
  BY <1>7 DEF mutVars, MutationInv, MutationTypeOK, RowsFitCalls, EvidenceIsYoung, NoSpentEvidence
<1> QED BY <1>1, <1>2, <1>3, <1>4, <1>5, <1>6, <1>7 DEF MutationNext, MutationAtRest

(* Calls, evidence, approvals and rows keep their kinds; an operation has two rows at most. *)
THEOREM MutationTypeCorrect == MutationSpec => []MutationTypeOK
BY MutationInitInv, MutationInvInductive, PTL DEF MutationSpec, MutationInv

(* No mutation passes the gate on evidence that an answered mutation has outdated. *)
THEOREM EvidenceNotSpent == MutationSpec => []NoSpentEvidence
BY MutationInitInv, MutationInvInductive, PTL DEF MutationSpec, MutationInv

(* What a log of these rows, of which those at the places closing close the operation,
   says of the call. *)
Tells(call, rows, closing) ==
  LET Says(row) == \E k \in closing : rows[k] = row
  IN  /\ call.effect # "none" => rows # <<>> /\ rows[1] = "Verifying"
      /\ \A j, k \in closing : j = k
      /\ Says("Audited") => \/ call.status \in {"ok", "no_op"}
                            \/ call.status = "rolled_back" /\ call.says = "silent"
      /\ Says("RolledBack") => call.status = "rolled_back"
      /\ Says("Failed") /\ call.effect = "whole" => call.unlogged
      /\ (rows # <<>> /\ call.phase \in {"answered", "refused"} /\ ~call.unlogged)
           => closing # {}

LEMMA FittingRowsTell ==
  ASSUME NEW call \in Calling, NEW rows, RowsFit(call, rows)
  PROVE  Tells(call, rows, {k \in DOMAIN rows : rows[k] \in Closing})
<1> DEFINE closing == {k \in DOMAIN rows : rows[k] \in Closing}
<1> SUFFICES Tells(call, rows, closing)
  OBVIOUS
<1> HIDE DEF closing
<1>1. RowsFit(call, rows) /\ call.phase \in Phases
  BY DEF Calling
<1>2. \/ rows = <<>> \/ rows = <<"Verifying">>
      \/ rows \in {<<"Denied">>, <<"Failed">>} /\ call.phase = "refused"
      \/ rows = <<"Verifying", "Audited">> /\ AuditedFits(call)
      \/ rows = <<"Verifying", "RolledBack">> /\ call.status = "rolled_back"
      \/ rows = <<"Verifying", "Failed">> /\ (call.effect = "whole" => call.unlogged)
  BY <1>1 DEF RowsFit, Phases
<1>3. call.effect # "none" => rows # <<>> /\ rows[1] = "Verifying"
  <2>1. call.effect # "none" => call.phase \notin {"unsent", "refused", "analysing", "recorded"}
    BY <1>1 DEF RowsFit
  <2> QED BY <1>1, <2>1 DEF RowsFit, Phases
<1>4. CASE rows = <<>> \/ rows = <<"Verifying">>
  <2>1. closing = {}
    BY <1>4 DEF closing, Closing
  <2>2. rows # <<>> => (call.phase \in {"answered", "refused"} => call.unlogged)
    BY <1>1, <1>4 DEF RowsFit
  <2> QED BY <1>3, <2>1, <2>2 DEF Tells
<1>5. CASE rows \in {<<"Denied">>, <<"Failed">>} /\ call.phase = "refused"
  <2>1. closing = {1} /\ rows[1] \in {"Denied", "Failed"} /\ call.effect = "none"
    BY <1>1, <1>5 DEF closing, Closing, RowsFit
  <2> QED BY <1>3, <2>1 DEF Tells
<1>6. ASSUME NEW row \in {"Audited", "RolledBack", "Failed"}, rows = <<"Verifying", row>>
      PROVE  closing = {2} /\ rows[2] = row
  BY <1>6 DEF closing, Closing
<1>7. CASE rows = <<"Verifying", "Audited">> /\ AuditedFits(call)
  <2>1. closing = {2} /\ rows[2] = "Audited"
    BY <1>6, <1>7
  <2> QED BY <1>3, <1>7, <2>1 DEF Tells, AuditedFits
<1>8. CASE rows = <<"Verifying", "RolledBack">> /\ call.status = "rolled_back"
  <2>1. closing = {2} /\ rows[2] = "RolledBack"
    BY <1>6, <1>8
  <2> QED BY <1>3, <1>8, <2>1 DEF Tells
<1>9. CASE rows = <<"Verifying", "Failed">> /\ (call.effect = "whole" => call.unlogged)
  <2>1. closing = {2} /\ rows[2] = "Failed"
    BY <1>6, <1>9
  <2> QED BY <1>3, <1>9, <2>1 DEF Tells
<1> QED BY <1>2, <1>4, <1>5, <1>7, <1>8, <1>9

LEMMA FittingLedgerTells == RowsFitCalls /\ MutationTypeOK => LedgerTellsTheTruth
<1> SUFFICES ASSUME RowsFitCalls, MutationTypeOK, NEW c \in Edits
             PROVE  Tells(mutCall[c], ledger[c], {k \in DOMAIN ledger[c] : ledger[c][k] \in Closing})
  BY DEF LedgerTellsTheTruth, Tells
<1>1. mutCall[c] \in Calling /\ RowsFit(mutCall[c], ledger[c])
  BY DEF RowsFitCalls, MutationTypeOK, MutCalls
<1> QED BY <1>1, FittingRowsTell

(* The audit log says of every operation what happened to it. *)
THEOREM LedgerTruthful == MutationSpec => []LedgerTellsTheTruth
BY MutationInitInv, MutationInvInductive, FittingLedgerTells, PTL DEF MutationSpec, MutationInv
=============================================================================
