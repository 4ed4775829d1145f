------------------------------ MODULE ExportTxn ------------------------------
(***************************************************************************)
(* One exporter process: preview, precondition check and the file          *)
(* transaction of _atomic_apply, one filesystem call per action.           *)
(*                                                                         *)
(* The transaction stages all bytes in a temporary directory under the     *)
(* root, renames every touched file into its backup, renames the staged    *)
(* files into place and finally removes the directory.  Any exception      *)
(* before that point unlinks what was recorded as installed and renames    *)
(* back what was recorded as backed up.  A rename and the append that      *)
(* records it are two steps: an asynchronous KeyboardInterrupt, or the     *)
(* chmod between them, may fail in the gap.                                *)
(*                                                                         *)
(* Simplifications: parent directories and file modes are left out, the    *)
(* staged bytes are the operations of the plan, and the tree covers the    *)
(* paths the preconditions of the plan list.                               *)
(***************************************************************************)
EXTENDS ExportTree

CONSTANTS
  Self,        \* the name mkdtemp gives this process's transaction directory
  NoPreview,
  GapFaults    \* may an exception strike between a call's effect and the next statement?

ASSUME GapFaultsAssumption == GapFaults \in BOOLEAN

VARIABLES
  \* on disk
  fs,          \* the target root
  dirs,        \* the transaction directories present in it
  backup,      \* the backup part of this process's directory
  \* in the process
  preview,     \* the prepared export it holds
  pc,          \* where it is
  todo,        \* paths the current loop has still to visit
  backedUp,    \* the backed_up list
  installed,   \* the installed list
  result,      \* how the last call ended
  \* history
  landed,      \* staged files now lying at their targets
  committed,   \* the try block was left normally
  slipped      \* the path whose rename an exception split from its record

disk == <<fs, dirs, backup>>
lists == <<backedUp, installed>>
history == <<landed, committed, slipped>>
vars == <<fs, dirs, backup, preview, pc, todo, backedUp, installed, result,
          landed, committed, slipped>>

Previews == [ops : Operations, tree : Trees]

ASSUME NoPreviewAssumption == NoPreview \notin Previews

Results == {"none", "refused", "ok", "raised", "crashed"}

ForwardPcs == {"stage", "backup", "backing", "install", "installing"}
UndoPcs == {"unlink", "restore", "clean"}
TxnPcs == ForwardPcs \cup UndoPcs \cup {"purge"}
Pcs == {"idle", "check"} \cup TxnPcs

NoBackup == [p \in Paths |-> Absent]

TypeOK ==
  /\ fs \in Trees
  /\ dirs \subseteq {Self}
  /\ backup \in [Paths -> Contents \cup {Absent}]
  /\ preview \in Previews \cup {NoPreview}
  /\ pc \in Pcs
  /\ todo \subseteq Paths
  /\ backedUp \subseteq Paths
  /\ installed \subseteq Paths
  /\ result \in Results
  /\ landed \subseteq Paths
  /\ committed \in BOOLEAN
  /\ slipped \subseteq Paths

Init ==
  /\ fs \in [Paths -> Contents \cup {Absent}]
  /\ dirs = {}
  /\ backup = NoBackup
  /\ preview = NoPreview
  /\ pc = "idle"
  /\ todo = {}
  /\ backedUp = {}
  /\ installed = {}
  /\ result = "none"
  /\ landed = {}
  /\ committed = FALSE
  /\ slipped = {}

-----------------------------------------------------------------------------
(* Before the transaction. *)

\* plan_export / plan_uninstall_export: refuses while a transaction directory
\* is present and when a path is not regular, and captures every path's state.
\* Which operations ownership allows is the subject of ExportLedger.
Preview(ops) ==
  /\ pc = "idle"
  /\ dirs = {}
  /\ Plannable(ops, fs)
  /\ preview' = [ops |-> ops, tree |-> fs]
  /\ UNCHANGED <<disk, pc, todo, lists, result, history>>

\* The call ends: its local lists go with its frame.
Return(how) ==
  /\ pc' = "idle"
  /\ todo' = {}
  /\ backedUp' = {}
  /\ installed' = {}
  /\ result' = how

\* No transaction directory is left to have a history.
Forget ==
  /\ landed' = {}
  /\ committed' = FALSE
  /\ slipped' = {}

\* apply_export on a prepared plan, which may be an old one tried again:
\* _reject_abandoned_transactions first.
StartApply ==
  /\ pc = "idle"
  /\ preview # NoPreview
  /\ IF dirs = {}
       THEN pc' = "check" /\ todo' = Paths /\ UNCHANGED <<lists, result>>
       ELSE Return("refused")
  /\ UNCHANGED <<disk, preview, history>>

\* Mutant of CheckPath: the state is captured and compared with itself.
CheckPathBlind(p) ==
  /\ pc = "check"
  /\ IsFirst(p, todo)
  /\ todo' = todo \ {p}
  /\ UNCHANGED <<disk, preview, pc, lists, result, history>>

\* _assert_preconditions reads one path after the other.
CheckPath(p) ==
  /\ pc = "check"
  /\ IsFirst(p, todo)
  /\ IF fs[p] = preview.tree[p]
       THEN todo' = todo \ {p} /\ UNCHANGED <<pc, lists, result>>
       ELSE Return("refused")
  /\ UNCHANGED <<disk, preview, history>>

MakeTransaction ==
  /\ pc = "check"
  /\ todo = {}
  /\ dirs' = dirs \cup {Self}
  /\ backup' = NoBackup
  /\ backedUp' = {}
  /\ installed' = {}
  /\ Forget
  /\ pc' = "stage"
  /\ UNCHANGED <<fs, preview, todo, result>>

-----------------------------------------------------------------------------
(* Inside the try block. *)

Stage ==
  /\ pc = "stage"
  /\ pc' = "backup"
  /\ todo' = Touched(preview.ops)
  /\ UNCHANGED <<disk, preview, lists, result, history>>

BackupSkip(p) ==
  /\ pc = "backup"
  /\ IsFirst(p, todo)
  /\ fs[p] = Absent
  /\ todo' = todo \ {p}
  /\ UNCHANGED <<disk, preview, pc, lists, result, history>>

BackupMove(p) ==
  /\ pc = "backup"
  /\ IsFirst(p, todo)
  /\ fs[p] \in Contents
  /\ backup' = [backup EXCEPT ![p] = fs[p]]
  /\ fs' = [fs EXCEPT ![p] = Absent]
  /\ pc' = "backing"
  /\ UNCHANGED <<dirs, preview, todo, lists, result, history>>

\* Mutant of BackupRecord: backed_up.append is forgotten.
BackupUnrecorded(p) ==
  /\ pc = "backing"
  /\ IsFirst(p, todo)
  /\ todo' = todo \ {p}
  /\ pc' = "backup"
  /\ UNCHANGED <<disk, preview, lists, result, history>>

BackupRecord(p) ==
  /\ pc = "backing"
  /\ IsFirst(p, todo)
  /\ backedUp' = backedUp \cup {p}
  /\ todo' = todo \ {p}
  /\ pc' = "backup"
  /\ UNCHANGED <<disk, preview, installed, result, history>>

\* Mutant of BackupsDone: the install loop walks all paths, deletes included.
BackupsDoneAllPaths ==
  /\ pc = "backup"
  /\ todo = {}
  /\ pc' = "install"
  /\ todo' = Touched(preview.ops)
  /\ UNCHANGED <<disk, preview, lists, result, history>>

BackupsDone ==
  /\ pc = "backup"
  /\ todo = {}
  /\ pc' = "install"
  /\ todo' = Writes(preview.ops)
  /\ UNCHANGED <<disk, preview, lists, result, history>>

InstallMove(p) ==
  /\ pc = "install"
  /\ IsFirst(p, todo)
  /\ fs[p] # Blocked
  /\ fs' = [fs EXCEPT ![p] = preview.ops[p]]
  /\ landed' = landed \cup {p}
  /\ pc' = "installing"
  /\ UNCHANGED <<dirs, backup, preview, todo, lists, result, committed, slipped>>

InstallRecord(p) ==
  /\ pc = "installing"
  /\ IsFirst(p, todo)
  /\ installed' = installed \cup {p}
  /\ todo' = todo \ {p}
  /\ pc' = "install"
  /\ UNCHANGED <<disk, preview, backedUp, result, history>>

Commit ==
  /\ pc = "install"
  /\ todo = {}
  /\ committed' = TRUE
  /\ pc' = "purge"
  /\ UNCHANGED <<disk, preview, todo, lists, result, landed, slipped>>

-----------------------------------------------------------------------------
(* except BaseException: unlink, restore, remove the directory, raise. *)

\* Mutant of EnterHandler: the rollback unlinks every path the plan writes,
\* installed or not.
EnterHandlerAllWrites ==
  /\ pc' = "unlink"
  /\ todo' = Writes(preview.ops)
  /\ UNCHANGED <<disk, preview, lists, result, landed, committed>>

EnterHandler ==
  /\ pc' = "unlink"
  /\ todo' = installed
  /\ UNCHANGED <<disk, preview, lists, result, landed, committed>>

\* A failing call, or the exception a fault hook raises.
Interrupt ==
  /\ pc \in {"stage", "backup", "install"}
  /\ EnterHandler
  /\ UNCHANGED slipped

\* The loop finds something that is not a regular file.  The precondition check
\* has ruled that out unless somebody else writes to the root: see ExportRace.
MeetBlocked(p) ==
  /\ pc \in {"backup", "install"}
  /\ IsFirst(p, todo)
  /\ fs[p] = Blocked
  /\ EnterHandler
  /\ UNCHANGED slipped

\* An exception in the gap between a rename and its append.
SplitRename(p) ==
  /\ GapFaults
  /\ pc \in {"backing", "installing"}
  /\ IsFirst(p, todo)
  /\ EnterHandler
  /\ slipped' = {p}

Unlink(p) ==
  /\ pc = "unlink"
  /\ IsLast(p, todo)
  /\ fs' = IF fs[p] \in Contents THEN [fs EXCEPT ![p] = Absent] ELSE fs
  /\ landed' = landed \ {p}
  /\ todo' = todo \ {p}
  /\ UNCHANGED <<dirs, backup, preview, pc, lists, result, committed, slipped>>

\* Mutant of UnlinksDone: only what was installed is restored.
UnlinksDoneInstalledOnly ==
  /\ pc = "unlink"
  /\ todo = {}
  /\ pc' = "restore"
  /\ todo' = installed \cap backedUp
  /\ UNCHANGED <<disk, preview, lists, result, history>>

UnlinksDone ==
  /\ pc = "unlink"
  /\ todo = {}
  /\ pc' = "restore"
  /\ todo' = backedUp
  /\ UNCHANGED <<disk, preview, lists, result, history>>

\* os.replace takes the place of whatever file or symlink is there (over a
\* directory it raises: HandlerFails).
Restore(p) ==
  /\ pc = "restore"
  /\ IsLast(p, todo)
  /\ fs' = [fs EXCEPT ![p] = IF backup[p] # Absent THEN backup[p] ELSE @]
  /\ backup' = [backup EXCEPT ![p] = Absent]
  /\ landed' = landed \ {p}
  /\ todo' = todo \ {p}
  /\ UNCHANGED <<dirs, preview, pc, lists, result, committed, slipped>>

RestoresDone ==
  /\ pc = "restore"
  /\ todo = {}
  /\ pc' = "clean"
  /\ UNCHANGED <<disk, preview, todo, lists, result, history>>

\* Mutant of HandlerFails: the handler starts over until it succeeds.
HandlerRetries ==
  /\ pc \in {"unlink", "restore"}
  /\ pc' = "unlink"
  /\ todo' = installed
  /\ UNCHANGED <<disk, preview, lists, result, history>>

\* An exception inside the handler: the directory and what it holds stay.
HandlerFails ==
  /\ pc \in {"unlink", "restore"}
  /\ Return("raised")
  /\ UNCHANGED <<disk, preview, history>>

\* shutil.rmtree(transaction, ignore_errors=True); raise
Clean ==
  /\ pc = "clean"
  /\ \/ /\ dirs' = dirs \ {Self}
        /\ backup' = NoBackup
        /\ Forget
     \/ /\ UNCHANGED <<dirs, history>>
        /\ \E kept \in SUBSET Paths :
             backup' = [p \in Paths |-> IF p \in kept THEN backup[p] ELSE Absent]
  /\ Return("raised")
  /\ UNCHANGED <<fs, preview>>

-----------------------------------------------------------------------------
(* After the try block: shutil.rmtree(transaction), errors raised. *)

Purge(p) ==
  /\ pc = "purge"
  /\ backup[p] # Absent
  /\ backup' = [backup EXCEPT ![p] = Absent]
  /\ UNCHANGED <<fs, dirs, preview, pc, todo, lists, result, history>>

PurgeDone ==
  /\ pc = "purge"
  /\ backup = NoBackup
  /\ dirs' = dirs \ {Self}
  /\ Forget
  /\ Return("ok")
  /\ UNCHANGED <<fs, backup, preview>>

\* Mutant of PurgeFails: the last rmtree ignores errors, too.
PurgeFailsSilently ==
  /\ pc = "purge"
  /\ Return("ok")
  /\ UNCHANGED <<disk, preview, history>>

\* An exception before the end of it, or, in the gap behind it, after all is gone.
PurgeFails ==
  /\ pc = "purge"
  /\ \/ UNCHANGED <<dirs, history>>
     \/ /\ GapFaults /\ backup = NoBackup
        /\ dirs' = dirs \ {Self}
        /\ Forget
  /\ Return("raised")
  /\ UNCHANGED <<fs, backup, preview>>

-----------------------------------------------------------------------------
(* The world around the process. *)

\* SIGKILL or power loss: memory is gone, the disk stays as it is.
Crash ==
  /\ pc # "idle"
  /\ Return("crashed")
  /\ UNCHANGED <<disk, preview, history>>

\* The tree as the directory left behind lets a reviewer put it together.
Recovered ==
  [p \in Paths |-> IF Self \in dirs /\ ~committed
                        /\ (p \in landed \/ backup[p] # Absent)
                     THEN backup[p] ELSE fs[p]]

\* The "manual review" the refusal asks for, done by a person: put the backups
\* back, or accept the committed files, and remove the directory.
ManualReview ==
  /\ pc = "idle"
  /\ Self \in dirs
  /\ fs' = Recovered
  /\ dirs' = {}
  /\ backup' = NoBackup
  /\ Forget
  /\ UNCHANGED <<preview, pc, todo, lists, result>>

\* The owner of the root changes a file, between calls and outside a review.
UserEdit(p, node) ==
  /\ pc = "idle"
  /\ dirs = {}
  /\ fs' = [fs EXCEPT ![p] = node]
  /\ UNCHANGED <<dirs, backup, preview, pc, todo, lists, result, history>>

Call == (\E ops \in Operations : Preview(ops)) \/ StartApply

Forward ==
  \/ MakeTransaction
  \/ Stage
  \/ BackupsDone
  \/ Commit
  \/ \E p \in Paths :
       \/ CheckPath(p)
       \/ BackupSkip(p)
       \/ BackupMove(p)
       \/ BackupRecord(p)
       \/ InstallMove(p)
       \/ InstallRecord(p)
       \/ Purge(p)
  \/ PurgeDone

Handler ==
  \/ \E p \in Paths : Unlink(p) \/ Restore(p)
  \/ UnlinksDone
  \/ RestoresDone
  \/ Clean

Faults ==
  \/ Interrupt
  \/ \E p \in Paths : SplitRename(p)
  \/ HandlerFails
  \/ PurgeFails

Environment ==
  \/ ManualReview
  \/ \E p \in Paths, node \in Nodes : UserEdit(p, node)

Next == Call \/ Forward \/ Handler \/ Faults \/ Crash \/ Environment

Spec == Init /\ [][Next]_vars

\* A running process is scheduled; callers, faults and people owe nothing.
FairSpec == Spec /\ WF_vars(Forward \/ Handler)

-----------------------------------------------------------------------------
(* Correctness, when nobody else writes to the root while a call runs. *)

Undecided == Self \in dirs /\ ~committed

-----------------------------------------------------------------------------
(* The inductive invariant, one conjunct per phase of a call. *)

\* Paths the rollback answers for.
Sound == {p \in Paths : p \in backedUp \/ p \notin slipped}

\* Paths a forward loop has not come to.
Ahead == {p \in todo : ~(pc \in {"backing", "installing"} /\ IsFirst(p, todo))}

NothingMoved == landed = {} /\ backup = NoBackup

IdleInv == dirs = {} => NothingMoved /\ slipped = {} /\ ~committed

CheckInv ==
  pc = "check" => /\ dirs = {}
                  /\ preview \in Previews
                  /\ \A p \in Paths \ todo : fs[p] = preview.tree[p]

DirectoryInv ==
  /\ pc \in TxnPcs => Self \in dirs
  /\ Self \in dirs => preview \in Previews
  /\ pc \in ForwardPcs => ~committed /\ slipped = {}
  /\ pc \in UndoPcs => ~committed
  /\ pc = "purge" => committed
  /\ slipped # {} => GapFaults

\* The previewed node of a path that was moved is in the backup.
OriginalsInv ==
  Undecided => \A p \in Sound :
    preview.tree[p] = IF p \in landed \/ backup[p] # Absent THEN backup[p] ELSE fs[p]

\* What has been moved is what the lists say, but for the rename in progress.
RecordsInv ==
  pc \in ForwardPcs \cup {"unlink"} =>
    /\ \A p \in backedUp : backup[p] # Absent
    /\ \A p \in Paths : backup[p] # Absent =>
         \/ p \in backedUp \cup slipped
         \/ pc = "backing" /\ IsFirst(p, todo)
    /\ \A p \in landed : fs[p] \in Contents
    /\ pc \in ForwardPcs => installed \subseteq landed
    /\ \A p \in landed : \/ p \in (IF pc = "unlink" THEN todo ELSE installed) \cup slipped
                         \/ pc = "installing" /\ IsFirst(p, todo)

StageInv == pc = "stage" => NothingMoved /\ backedUp = {} /\ installed = {}

BackupInv ==
  pc \in {"backup", "backing"} =>
    /\ landed = {}
    /\ installed = {}
    /\ todo \subseteq Touched(preview.ops)
    /\ \A p \in Touched(preview.ops) \ todo : fs[p] = Absent
    /\ \A p \in Paths \ Touched(preview.ops) : backup[p] = Absent
    /\ \A p \in Ahead : backup[p] = Absent
    /\ pc = "backing" => \A p \in todo : IsFirst(p, todo) =>
                           fs[p] = Absent /\ backup[p] # Absent

InstallInv ==
  pc \in {"install", "installing"} =>
    /\ todo \subseteq Writes(preview.ops)
    /\ landed \subseteq Writes(preview.ops)
    /\ \A p \in Deletes(preview.ops) : fs[p] = Absent
    /\ \A p \in Writes(preview.ops) \ todo : fs[p] = preview.ops[p]
    /\ \A p \in Paths \ Touched(preview.ops) : backup[p] = Absent
    /\ \A p \in Ahead : p \notin landed /\ fs[p] = Absent
    /\ pc = "installing" => \A p \in todo : IsFirst(p, todo) =>
                              fs[p] = preview.ops[p] /\ p \in landed

UndoInv ==
  /\ pc = "unlink" => todo \subseteq landed
  /\ pc = "restore" =>
       /\ todo \subseteq backedUp
       /\ \A p \in todo : backup[p] # Absent
       /\ \A p \in Sound : p \in landed \/ backup[p] # Absent => p \in todo
  /\ pc = "clean" => \A p \in Sound : p \notin landed /\ backup[p] = Absent

PurgeInv == pc = "purge" => fs = After(preview.ops, preview.tree)

TxnInv ==
  /\ TypeOK
  /\ IdleInv
  /\ CheckInv
  /\ DirectoryInv
  /\ OriginalsInv
  /\ RecordsInv
  /\ StageInv
  /\ BackupInv
  /\ InstallInv
  /\ UndoInv
  /\ PurgeInv

\* Until the commit, at every instant, crash or failed rollback included, the
\* tree that was previewed can be put together from the root and the directory
\* a killed exporter leaves in it; only a path whose rename was split from its
\* record may be missing (_atomic_apply renames, and never unlinks, originals).
Recoverable ==
  Undecided => \A p \in Paths \ slipped : Recovered[p] = preview.tree[p]

OutcomeStep ==
  pc # "idle" /\ pc' = "idle" =>
    /\ result' = "ok" =>
         Self \notin dirs' /\ fs' = After(preview.ops, preview.tree)
    /\ result' = "raised" /\ Self \notin dirs' =>
         IF committed
           THEN fs' = After(preview.ops, preview.tree)
           ELSE \A p \in Paths : p \in backedUp \/ p \notin slipped =>
                  fs'[p] = preview.tree[p]

\* What the caller is told is what happened: a normal return means the whole
\* plan is on disk and the directory gone; an exception means every file is as
\* previewed, or the directory is still there to stop the next call, or, when
\* it came after the commit, the whole plan is on disk.  A path hit in the gap
\* is restored all the same if its original was recorded.
OutcomeTruthful == [][OutcomeStep]_vars

\* Seen through the directory it leaves, the step-by-step transaction is the
\* atomic one: one Begin on the previewed tree, one Commit or one Undo.
Atomic == INSTANCE AtomicExport WITH tree <- Recovered, open <- Undecided
ImplementsAtomicExport == Atomic!Spec

\* A call that keeps being scheduled returns or raises.
ApplyReturns == (pc # "idle") ~> (pc = "idle")

\* docs/compatibility-security.md: application "preserves prior owned files in
\* a transaction backup, and restores them on interruption or failure" (which an
\* interruption after the commit is not).
RestoresOnFailure ==
  [][pc # "idle" /\ pc' = "idle" /\ result' = "raised" =>
       Self \in dirs' \/ committed \/ fs' = preview.tree]_vars
=============================================================================
