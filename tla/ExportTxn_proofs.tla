-------------------------- MODULE ExportTxn_proofs --------------------------
(***************************************************************************)
(* Proofs about ExportTxn, for every set of paths and contents and whether *)
(* or not exceptions strike between a rename and its record: TxnInv is     *)
(* inductive, so originals stay recoverable and outcomes are truthful, and *)
(* without gap faults the transaction implements AtomicExport.             *)
(***************************************************************************)
EXTENDS ExportTxn, TLAPS

\* A sorted walk has one next path.
LEMMA FirstUnique ==
  ASSUME NEW S \in SUBSET Paths, NEW p, NEW q, IsFirst(p, S), IsFirst(q, S)
  PROVE  p = q
BY PathsAssumption DEF IsFirst

\* The next path of a sorted walk is one of the paths still to visit.
LEMMA FirstIsMember ==
  ASSUME NEW S, NEW p, IsFirst(p, S)
  PROVE  p \in S
BY DEF IsFirst

\* So is the next path of a walk in reverse.
LEMMA LastIsMember ==
  ASSUME NEW S, NEW p, IsLast(p, S)
  PROVE  p \in S
BY DEF IsLast

\* A plan writes and deletes disjoint sets of paths.
LEMMA OperationSets ==
  ASSUME NEW ops \in Operations
  PROVE  /\ Writes(ops) \subseteq Paths
         /\ Deletes(ops) \subseteq Paths
         /\ Writes(ops) \cap Deletes(ops) = {}
         /\ Touched(ops) = Writes(ops) \cup Deletes(ops)
         /\ \A p \in Writes(ops) : ops[p] \in Contents
BY MarksAssumption DEF Writes, Deletes, Touched, Operations

-----------------------------------------------------------------------------
(* TxnInv is inductive. *)

\* The inductive invariant holds before the first call.
LEMMA InitTxnInv == Init => TxnInv
BY DEF Init, TxnInv, TypeOK, IdleInv, CheckInv, DirectoryInv, OriginalsInv,
       RecordsInv, StageInv, BackupInv, InstallInv, UndoInv, PurgeInv,
       NothingMoved, NoBackup, Undecided, Trees, Nodes, Pcs, TxnPcs,
       ForwardPcs, UndoPcs, Results

\* Leaving the try block: every path has been seen to, so the root holds what
\* the plan promises.
LEMMA CommitKeepsInv ==
  ASSUME TxnInv, Commit
  PROVE  TxnInv'
<1> USE DEF Commit, disk, lists, history, NothingMoved, NoBackup, Undecided,
            ForwardPcs, UndoPcs, TxnPcs, Pcs
<1>1. fs = After(preview.ops, preview.tree)
  <2>1. preview \in Previews /\ fs \in Trees
    BY DEF TxnInv, TypeOK, DirectoryInv
  <2> DEFINE ops == preview.ops
  <2>2. ops \in Operations
    BY <2>1 DEF Previews
  <2>3. ASSUME NEW p \in Writes(ops) PROVE fs[p] = ops[p]
    BY DEF TxnInv, InstallInv
  <2>4. ASSUME NEW p \in Deletes(ops) PROVE fs[p] = Absent
    BY DEF TxnInv, InstallInv
  <2>5. ASSUME NEW p \in Paths \ Touched(ops) PROVE fs[p] = preview.tree[p]
    <3>1. p \notin landed /\ backup[p] = Absent
      BY <2>2, OperationSets DEF TxnInv, InstallInv
    <3>2. p \in Sound /\ Self \in dirs /\ ~committed
      BY DEF TxnInv, DirectoryInv, Sound
    <3> QED
      BY <3>1, <3>2 DEF TxnInv, OriginalsInv
  <2> HIDE DEF ops
  <2>6. fs = [p \in Paths |-> fs[p]]
    BY <2>1 DEF Trees
  <2>7. \A p \in Paths :
          fs[p] = IF p \in Writes(ops) THEN ops[p]
                  ELSE IF p \in Deletes(ops) THEN Absent ELSE preview.tree[p]
    BY <2>2, <2>3, <2>4, <2>5, OperationSets
  <2>8. fs = After(ops, preview.tree)
    BY <2>6, <2>7 DEF After
  <2> QED
    BY <2>8 DEF ops
<1>2. TypeOK' /\ IdleInv' /\ CheckInv' /\ DirectoryInv'
  BY DEF TxnInv, TypeOK, IdleInv, CheckInv, DirectoryInv
<1>3. OriginalsInv' /\ RecordsInv' /\ StageInv' /\ BackupInv' /\ InstallInv' /\ UndoInv'
  BY DEF TxnInv, OriginalsInv, RecordsInv, StageInv, BackupInv, InstallInv, UndoInv
<1>4. PurgeInv'
  BY <1>1 DEF PurgeInv
<1> QED
  BY <1>2, <1>3, <1>4 DEF TxnInv

\* Rolling one installed file back: its path is empty again, and if nothing of
\* it is in the backup it was empty at the preview.
LEMMA UnlinkKeepsInv ==
  ASSUME TxnInv, NEW p \in Paths, Unlink(p)
  PROVE  TxnInv'
<1> USE LastIsMember, MarksAssumption
    DEF Unlink, disk, lists, history, NothingMoved, NoBackup, Undecided,
        ForwardPcs, UndoPcs, TxnPcs, Pcs, Ahead
<1>1. p \in landed /\ fs[p] \in Contents
  BY DEF TxnInv, UndoInv, RecordsInv
<1>2. fs' = [fs EXCEPT ![p] = Absent] /\ fs \in Trees
  BY <1>1 DEF TxnInv, TypeOK
<1>3. TypeOK' /\ IdleInv' /\ CheckInv' /\ DirectoryInv'
  BY <1>2 DEF TxnInv, TypeOK, IdleInv, CheckInv, DirectoryInv, Trees, Nodes
<1>4. OriginalsInv'
  <2> SUFFICES ASSUME Undecided', NEW q \in Sound'
               PROVE  preview.tree[q] = IF q \in landed' \/ backup[q] # Absent
                                          THEN backup[q] ELSE fs'[q]
    BY DEF OriginalsInv
  <2>1. q \in Paths /\ q \in Sound /\ Undecided
    BY DEF Sound
  <2>2. preview.tree[q] = IF q \in landed \/ backup[q] # Absent
                            THEN backup[q] ELSE fs[q]
    BY <2>1 DEF TxnInv, OriginalsInv
  <2>3. CASE q = p
    BY <2>2, <2>3, <1>1, <1>2 DEF Trees
  <2>4. CASE q # p
    BY <2>1, <2>2, <2>4, <1>2 DEF Trees
  <2> QED
    BY <2>3, <2>4
<1>5. RecordsInv' /\ StageInv' /\ BackupInv' /\ InstallInv' /\ UndoInv' /\ PurgeInv'
  BY <1>1, <1>2 DEF TxnInv, TypeOK, Trees, RecordsInv, StageInv, BackupInv,
                    InstallInv, UndoInv, PurgeInv
<1> QED
  BY <1>3, <1>4, <1>5 DEF TxnInv

\* The directory goes away only once every path the rollback answers for is
\* back in place.
LEMMA CleanKeepsInv ==
  ASSUME TxnInv, Clean
  PROVE  TxnInv'
<1> USE DEF Clean, Return, Forget, history, NothingMoved, NoBackup, Undecided,
            ForwardPcs, UndoPcs, TxnPcs, Pcs
<1>1. \A p \in Paths : backup'[p] \in {backup[p], Absent}
  BY DEF TxnInv, TypeOK
<1>2. TypeOK'
  <2>1. backup' \in [Paths -> Contents \cup {Absent}]
    <3>1. CASE backup' = [p \in Paths |-> Absent]
      BY <3>1
    <3>2. ASSUME NEW kept \in SUBSET Paths,
                 backup' = [p \in Paths |-> IF p \in kept THEN backup[p] ELSE Absent]
          PROVE  backup' \in [Paths -> Contents \cup {Absent}]
      BY <3>2 DEF TxnInv, TypeOK
    <3> QED
      BY <3>1, <3>2
  <2>2. dirs' \subseteq {Self} /\ landed' \subseteq Paths /\ slipped' \subseteq Paths
    BY DEF TxnInv, TypeOK
  <2> QED
    BY <2>1, <2>2 DEF TxnInv, TypeOK, Results
<1>3. IdleInv' /\ CheckInv' /\ DirectoryInv'
  BY DEF TxnInv, TypeOK, IdleInv, CheckInv, DirectoryInv
<1>4. OriginalsInv'
  <2> SUFFICES ASSUME Undecided', NEW q \in Sound'
               PROVE  preview.tree[q] = IF q \in landed' \/ backup'[q] # Absent
                                          THEN backup'[q] ELSE fs[q]
    BY DEF OriginalsInv
  <2>1. q \in Sound /\ landed' = landed /\ Undecided
    BY DEF TxnInv, TypeOK, Sound
  <2>2. q \notin landed /\ backup[q] = Absent /\ backup'[q] = Absent
    BY <2>1, <1>1 DEF TxnInv, UndoInv, Sound
  <2> QED
    BY <2>1, <2>2 DEF TxnInv, OriginalsInv
<1>5. RecordsInv' /\ StageInv' /\ BackupInv' /\ InstallInv' /\ UndoInv' /\ PurgeInv'
  BY DEF RecordsInv, StageInv, BackupInv, InstallInv, UndoInv, PurgeInv
<1> QED
  BY <1>2, <1>3, <1>4, <1>5 DEF TxnInv

\* No step of a call, a fault, a crash, a review or an edit breaks it.
LEMMA NextKeepsInv == TxnInv /\ [Next]_vars => TxnInv'
<1> SUFFICES ASSUME TxnInv, [Next]_vars
             PROVE  TxnInv'
  OBVIOUS
<1> USE FirstUnique, FirstIsMember, LastIsMember, OperationSets, MarksAssumption
    DEF TxnInv, TypeOK, IdleInv, CheckInv, DirectoryInv, OriginalsInv,
        RecordsInv, StageInv, BackupInv, InstallInv, UndoInv, PurgeInv,
        Undecided, Sound, Ahead, NothingMoved, NoBackup, disk, lists, history,
        TxnPcs, ForwardPcs, UndoPcs, Pcs, Previews, Trees, Nodes, Results
<1>1. CASE Call
  <2>1. ASSUME NEW ops \in Operations, Preview(ops) PROVE TxnInv'
    BY <2>1 DEF Preview
  <2>2. CASE StartApply
    BY <2>2 DEF StartApply, Return
  <2> QED
    BY <1>1, <2>1, <2>2 DEF Call
<1>2. CASE Forward
  <2>1. CASE MakeTransaction
    BY <2>1 DEF MakeTransaction, Forget
  <2>2. CASE Stage
    BY <2>2 DEF Stage
  <2>3. CASE BackupsDone
    BY <2>3 DEF BackupsDone
  <2>4. CASE Commit
    BY <2>4, CommitKeepsInv
  <2>5. ASSUME NEW p \in Paths, CheckPath(p) PROVE TxnInv'
    BY <2>5 DEF CheckPath, Return
  <2>6. ASSUME NEW p \in Paths, BackupSkip(p) PROVE TxnInv'
    BY <2>6 DEF BackupSkip
  <2>7. ASSUME NEW p \in Paths, BackupMove(p) PROVE TxnInv'
    BY <2>7 DEF BackupMove
  <2>8. ASSUME NEW p \in Paths, BackupRecord(p) PROVE TxnInv'
    BY <2>8 DEF BackupRecord
  <2>9. ASSUME NEW p \in Paths, InstallMove(p) PROVE TxnInv'
    BY <2>9 DEF InstallMove
  <2>10. ASSUME NEW p \in Paths, InstallRecord(p) PROVE TxnInv'
    BY <2>10 DEF InstallRecord
  <2>11. ASSUME NEW p \in Paths, Purge(p) PROVE TxnInv'
    BY <2>11 DEF Purge
  <2>12. CASE PurgeDone
    BY <2>12 DEF PurgeDone, Return, Forget
  <2> QED
    BY <1>2, <2>1, <2>2, <2>3, <2>4, <2>5, <2>6, <2>7, <2>8, <2>9, <2>10,
       <2>11, <2>12 DEF Forward
<1>3. CASE Handler
  <2>1. ASSUME NEW p \in Paths, Unlink(p) PROVE TxnInv'
    BY <2>1, UnlinkKeepsInv
  <2>2. ASSUME NEW p \in Paths, Restore(p) PROVE TxnInv'
    BY <2>2 DEF Restore
  <2>3. CASE UnlinksDone
    BY <2>3 DEF UnlinksDone
  <2>4. CASE RestoresDone
    BY <2>4 DEF RestoresDone
  <2>5. CASE Clean
    BY <2>5, CleanKeepsInv
  <2> QED
    BY <1>3, <2>1, <2>2, <2>3, <2>4, <2>5 DEF Handler
<1>4. CASE Faults
  <2>1. CASE Interrupt
    BY <2>1 DEF Interrupt, EnterHandler
  <2>2. ASSUME NEW p \in Paths, SplitRename(p) PROVE TxnInv'
    BY <2>2 DEF SplitRename, EnterHandler
  <2>3. CASE HandlerFails
    BY <2>3 DEF HandlerFails, Return
  <2>4. CASE PurgeFails
    BY <2>4 DEF PurgeFails, Return, Forget
  <2> QED
    BY <1>4, <2>1, <2>2, <2>3, <2>4 DEF Faults
<1>5. CASE Crash
  BY <1>5 DEF Crash, Return
<1>6. CASE Environment
  <2>1. CASE ManualReview
    BY <2>1 DEF ManualReview, Forget, Recovered
  <2>2. ASSUME NEW p \in Paths, NEW node \in Nodes, UserEdit(p, node) PROVE TxnInv'
    BY <2>2 DEF UserEdit
  <2> QED
    BY <1>6, <2>1, <2>2 DEF Environment
<1>7. CASE UNCHANGED vars
  BY <1>7 DEF vars
<1> QED
  BY <1>1, <1>2, <1>3, <1>4, <1>5, <1>6, <1>7 DEF Next

\* The strengthening behind every theorem below holds in every reachable state.
THEOREM Invariance == Spec => []TxnInv
<1>1. Init => TxnInv
  BY InitTxnInv
<1>2. TxnInv /\ [Next]_vars => TxnInv'
  BY NextKeepsInv
<1> QED
  BY <1>1, <1>2, PTL DEF Spec

\* Variables keep their types.
THEOREM TypeCorrectness == Spec => []TypeOK
<1>1. TxnInv => TypeOK
  BY DEF TxnInv
<1> QED
  BY <1>1, Invariance, PTL

\* At every instant before the commit the previewed tree can be rebuilt, but for
\* a path whose rename an exception split from its record.
THEOREM OriginalsRecoverable == Spec => []Recoverable
<1>1. TxnInv => Recoverable
  BY DEF TxnInv, TypeOK, OriginalsInv, Recoverable, Recovered, Undecided, Sound
<1> QED
  BY <1>1, Invariance, PTL

-----------------------------------------------------------------------------
(* OutcomeTruthful: only the steps that end a call have to be looked at. *)

\* A step that ends a call tells the caller what happened.
LEMMA StepIsTruthful == TxnInv /\ Next => OutcomeStep
<1> SUFFICES ASSUME TxnInv, Next, pc # "idle", pc' = "idle"
             PROVE  OutcomeStep
  BY DEF OutcomeStep
<1>1. \/ (\E p \in Paths : CheckPath(p)) \/ HandlerFails \/ Clean
      \/ PurgeDone \/ PurgeFails \/ Crash
  BY DEF Next, Call, Forward, Handler, Faults, Environment, Preview, StartApply,
         MakeTransaction, Stage, BackupsDone, Commit, BackupSkip, BackupMove,
         BackupRecord, InstallMove, InstallRecord, Purge, Unlink, Restore,
         UnlinksDone, RestoresDone, EnterHandler, Interrupt,
         SplitRename, ManualReview, UserEdit
<1>2. CASE \E p \in Paths : CheckPath(p)
  BY <1>2 DEF CheckPath, Return, OutcomeStep
<1>3. CASE HandlerFails
  BY <1>3 DEF HandlerFails, Return, disk, OutcomeStep, TxnInv, DirectoryInv,
              TxnPcs, UndoPcs
<1>4. CASE Clean
  <2>1. ASSUME Self \notin dirs', NEW p \in Paths, p \in backedUp \/ p \notin slipped
        PROVE  fs'[p] = preview.tree[p]
    <3>1. p \in Sound /\ Undecided /\ fs' = fs
      BY <1>4, <2>1 DEF Clean, Sound, Undecided, TxnInv, DirectoryInv, TxnPcs, UndoPcs
    <3>2. p \notin landed /\ backup[p] = Absent
      BY <1>4, <3>1 DEF Clean, TxnInv, UndoInv
    <3> QED
      BY <3>1, <3>2 DEF TxnInv, OriginalsInv
  <2>2. ~committed
    BY <1>4 DEF Clean, TxnInv, DirectoryInv, UndoPcs
  <2> QED
    BY <1>4, <2>1, <2>2 DEF Clean, Return, OutcomeStep
<1>5. CASE PurgeDone
  BY <1>5 DEF PurgeDone, Return, OutcomeStep, TxnInv, PurgeInv
<1>6. CASE PurgeFails
  BY <1>6 DEF PurgeFails, Return, disk, OutcomeStep, TxnInv, DirectoryInv, TxnPcs, PurgeInv
<1>7. CASE Crash
  BY <1>7 DEF Crash, Return, OutcomeStep
<1> QED
  BY <1>1, <1>2, <1>3, <1>4, <1>5, <1>6, <1>7

\* A normal return means the whole plan is on disk; an exception whose directory
\* is gone means that every path the rollback answers for is as previewed, or, after
\* the commit, that the whole plan is on disk.
THEOREM OutcomesAreTruthful == Spec => OutcomeTruthful
<1>1. TxnInv /\ [Next]_vars => [OutcomeStep]_vars
  BY StepIsTruthful
<1> QED
  BY <1>1, Invariance, PTL DEF Spec, OutcomeTruthful

-----------------------------------------------------------------------------
(* ExportTxn implements AtomicExport when no rename is split. *)

\* With nothing moved, the recoverable tree is the root itself.
LEMMA RecoveredIsRoot ==
  ASSUME TxnInv, ~Undecided
  PROVE  Recovered = fs
BY DEF Recovered, Undecided, TxnInv, TypeOK, Trees

\* While a transaction is open, the recoverable tree is the previewed one.
LEMMA RecoveredIsPreviewed ==
  ASSUME TxnInv, ~GapFaults, Undecided
  PROVE  Recovered = preview.tree
<1>1. slipped = {} /\ preview.tree \in Trees
  BY DEF TxnInv, DirectoryInv, Undecided, Previews
<1>2. \A p \in Paths : Recovered[p] = preview.tree[p]
  BY <1>1 DEF TxnInv, OriginalsInv, Sound, Recovered, Undecided
<1> QED
  BY <1>1, <1>2 DEF Recovered, Trees

\* A step that neither opens nor closes the transaction is invisible, whatever
\* it moves.
LEMMA InnerStepStutters ==
  ASSUME TxnInv, TxnInv', ~GapFaults, UNCHANGED preview,
         Undecided' <=> Undecided, Undecided \/ UNCHANGED fs
  PROVE  UNCHANGED <<Recovered, preview, Undecided>>
<1>1. (Undecided \in BOOLEAN) /\ (Undecided' \in BOOLEAN)
  BY DEF Undecided
<1>2. CASE Undecided
  <2>1. Recovered' = preview'.tree
    BY <1>2 DEF TxnInv, TypeOK, DirectoryInv, OriginalsInv, Sound, Recovered, Undecided, Previews, Trees
  <2> QED
    BY <1>1, <1>2, <2>1, RecoveredIsPreviewed
<1>3. CASE ~Undecided
  <2>1. Recovered' = fs'
    BY <1>3 DEF TxnInv, TypeOK, Recovered, Undecided, Trees
  <2> QED
    BY <1>1, <1>3, <2>1, RecoveredIsRoot
<1> QED
  BY <1>2, <1>3

\* mkdtemp, after every path has been checked, is the abstract Begin.
LEMMA OpeningIsBegin ==
  ASSUME TxnInv, MakeTransaction
  PROVE  Atomic!Begin
<1>1. fs = preview.tree /\ ~Undecided /\ preview # NoPreview
  <2>1. preview \in Previews /\ fs \in Trees /\ dirs = {}
    BY DEF MakeTransaction, TxnInv, TypeOK, CheckInv
  <2>2. \A p \in Paths : fs[p] = preview.tree[p]
    BY DEF MakeTransaction, TxnInv, CheckInv
  <2> QED
    BY <2>1, <2>2, NoPreviewAssumption DEF Undecided, Previews, Trees
<1>2. Undecided' = TRUE /\ UNCHANGED preview
  BY DEF MakeTransaction, Forget, Undecided
<1>3. Recovered' = fs /\ Recovered = fs
  BY <1>1, RecoveredIsRoot DEF MakeTransaction, Forget, Recovered, NoBackup, TxnInv, TypeOK, Trees
<1> QED
  BY <1>1, <1>2, <1>3 DEF Atomic!Begin

\* Leaving the try block is the abstract Commit: the whole plan at once.
LEMMA CommitIsCommit ==
  ASSUME TxnInv, TxnInv', ~GapFaults, Commit
  PROVE  Atomic!Commit
<1>1. Undecided /\ Undecided' = FALSE /\ UNCHANGED <<preview, fs>>
  BY DEF Commit, Undecided, disk, TxnInv, DirectoryInv, TxnPcs, ForwardPcs
<1>2. Recovered = preview.tree
  BY <1>1, RecoveredIsPreviewed
<1>3. Recovered' = fs'
  BY <1>1 DEF Recovered, Undecided, TxnInv, TypeOK, Trees
<1>4. fs' = After(preview.ops, preview.tree)
  BY <1>1 DEF Commit, TxnInv, PurgeInv
<1> QED
  BY <1>1, <1>2, <1>3, <1>4 DEF Atomic!Commit, Atomic!After, After, Atomic!Writes,
     Writes, Atomic!Deletes, Deletes

\* Removing the directory after a rollback is the abstract Undo; leaving it
\* behind leaves the transaction open for the review.
LEMMA CleaningIsUndo ==
  ASSUME TxnInv, TxnInv', ~GapFaults, Clean
  PROVE  Atomic!Undo \/ UNCHANGED <<Recovered, preview, Undecided>>
<1>1. Undecided /\ UNCHANGED <<preview, fs>>
  BY DEF Clean, Undecided, TxnInv, DirectoryInv, TxnPcs, UndoPcs
<1>2. CASE Undecided'
  BY <1>1, <1>2, InnerStepStutters
<1>3. CASE ~Undecided'
  <2>1. Recovered = preview.tree
    BY <1>1, RecoveredIsPreviewed
  <2>2. slipped = {} /\ preview.tree \in Trees /\ fs \in Trees
    BY <1>1 DEF TxnInv, TypeOK, DirectoryInv, Previews, Undecided
  <2>3. \A p \in Paths : fs[p] = preview.tree[p]
    BY <1>1, <2>2 DEF Clean, TxnInv, UndoInv, OriginalsInv, Sound
  <2>4. Recovered' = fs
    BY <1>1, <1>3, <2>2 DEF Recovered, Undecided, Trees
  <2>5. Recovered' = Recovered
    BY <2>1, <2>2, <2>3, <2>4 DEF Trees
  <2>6. Undecided' = FALSE
    BY <1>3 DEF Undecided
  <2> QED
    BY <1>1, <2>5, <2>6 DEF Atomic!Undo
<1> QED
  BY <1>2, <1>3

\* A person closes what the exporter left open.
LEMMA ReviewIsUndo ==
  ASSUME TxnInv, TxnInv', ManualReview
  PROVE  Atomic!Undo \/ UNCHANGED <<Recovered, preview, Undecided>>
<1>1. ~Undecided' /\ UNCHANGED preview /\ fs' = Recovered
  BY DEF ManualReview, Undecided
<1>2. Recovered' = Recovered
  <2>1. Recovered' = fs'
    BY <1>1 DEF Recovered, Undecided, TxnInv, TypeOK, Trees
  <2> QED
    BY <1>1, <2>1
<1>3. (Undecided \in BOOLEAN) /\ Undecided' = FALSE
  BY <1>1 DEF Undecided
<1> QED
  BY <1>1, <1>2, <1>3 DEF Atomic!Undo

\* An edit of the root between calls is the abstract Edit.
LEMMA EditIsEdit ==
  ASSUME TxnInv, TxnInv', NEW p \in Paths, NEW node \in Nodes, UserEdit(p, node)
  PROVE  Atomic!Edit(p, node)
<1>1. ~Undecided /\ Undecided' = Undecided /\ UNCHANGED preview
  BY DEF UserEdit, Undecided, history
<1>2. Recovered = fs
  BY <1>1, RecoveredIsRoot
<1>3. Recovered' = fs'
  BY <1>1 DEF Recovered, Undecided, TxnInv, TypeOK, Trees
<1> QED
  BY <1>1, <1>2, <1>3 DEF UserEdit, Atomic!Edit

\* A preview between transactions is the abstract Preview.
LEMMA PreviewIsPreview ==
  ASSUME TxnInv, TxnInv', NEW ops \in Operations, Preview(ops)
  PROVE  Atomic!Preview(ops)
<1>1. ~Undecided /\ Undecided' = Undecided /\ UNCHANGED fs
  BY DEF Preview, Undecided, disk, history
<1>2. Recovered = fs
  BY <1>1, RecoveredIsRoot
<1>3. Recovered' = fs'
  BY <1>1 DEF Recovered, Undecided, TxnInv, TypeOK, Trees
<1> QED
  BY <1>1, <1>2, <1>3 DEF Preview, Atomic!Preview, Atomic!Plannable, Plannable,
     Atomic!Writes, Writes, Atomic!Deletes, Deletes

\* Every step is an abstract step or leaves the abstract variables alone.
LEMMA StepImplements ==
  ASSUME TxnInv, TxnInv', ~GapFaults, [Next]_vars
  PROVE  [Atomic!Next]_(Atomic!vars)
<1> USE DEF Atomic!vars
<1>1. CASE \E ops \in Operations : Preview(ops)
  BY <1>1, PreviewIsPreview DEF Atomic!Next, Atomic!Operations, Operations
<1>2. CASE MakeTransaction
  BY <1>2, OpeningIsBegin DEF Atomic!Next
<1>3. CASE Commit
  BY <1>3, CommitIsCommit DEF Atomic!Next
<1>4. CASE Clean
  BY <1>4, CleaningIsUndo DEF Atomic!Next
<1>5. CASE ManualReview
  BY <1>5, ReviewIsUndo DEF Atomic!Next
<1>6. CASE \E p \in Paths, node \in Nodes : UserEdit(p, node)
  BY <1>6, EditIsEdit DEF Atomic!Next, Atomic!Nodes, Nodes
<1>7. ASSUME ~MakeTransaction, ~Commit, ~Clean, ~ManualReview,
             ~(\E ops \in Operations : Preview(ops)),
             ~(\E p \in Paths, node \in Nodes : UserEdit(p, node))
      PROVE  UNCHANGED preview /\ (Undecided' <=> Undecided)
               /\ (Undecided \/ UNCHANGED fs)
  <2> USE DEF Undecided, disk, lists, history, TxnInv, DirectoryInv, TxnPcs,
              ForwardPcs, UndoPcs, Return, Forget, EnterHandler
  <2>1. CASE StartApply \/ Crash \/ UNCHANGED vars
    BY <2>1 DEF StartApply, Crash, vars
  <2>2. CASE Forward
    BY <1>7, <2>2 DEF Forward, Stage, BackupsDone, CheckPath, BackupSkip, BackupMove,
       BackupRecord, InstallMove, InstallRecord, Purge, PurgeDone
  <2>3. CASE Handler
    BY <1>7, <2>3 DEF Handler, Unlink, Restore, UnlinksDone, RestoresDone
  <2>4. CASE Faults
    BY <2>4 DEF Faults, Interrupt, SplitRename, HandlerFails, PurgeFails
  <2> QED
    BY <1>7, <2>1, <2>2, <2>3, <2>4 DEF Next, Call, Environment
<1> QED
  BY <1>1, <1>2, <1>3, <1>4, <1>5, <1>6, <1>7, InnerStepStutters

\* When no exception splits a rename from its record, every behaviour of the
\* transaction, crashes, failed rollbacks and reviews included, is one of the
\* all-or-nothing export.
THEOREM Refinement == ASSUME ~GapFaults PROVE Spec => ImplementsAtomicExport
<1>1. Init => Atomic!Init
  <2> SUFFICES ASSUME Init PROVE Atomic!Init
    OBVIOUS
  <2>1. Undecided = FALSE
    BY DEF Init, Undecided
  <2>2. Recovered = fs /\ fs \in Trees
    BY <2>1 DEF Init, Recovered, Undecided, Trees, Nodes
  <2> QED
    BY <2>1, <2>2 DEF Atomic!Init, Init, Atomic!Trees, Trees, Atomic!Nodes, Nodes
<1>2. TxnInv /\ TxnInv' /\ [Next]_vars => [Atomic!Next]_(Atomic!vars)
  BY StepImplements
<1> QED
  BY <1>1, <1>2, Invariance, PTL DEF Spec, ImplementsAtomicExport, Atomic!Spec
=============================================================================
