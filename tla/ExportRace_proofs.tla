-------------------------- MODULE ExportRace_proofs --------------------------
(***************************************************************************)
(* Proofs about ExportRace, for every set of paths and contents: whatever  *)
(* a second exporter and the owner do to the root between A's filesystem   *)
(* calls, A takes away only what it previewed or installed, or what was    *)
(* changed after A's check of that path.                                   *)
(***************************************************************************)
EXTENDS ExportRace, TLAPS

\* A sorted walk has one next path.
LEMMA NextIsUnique ==
  ASSUME NEW S \in SUBSET Paths, NEW p, NEW q, IsFirst(p, S), IsFirst(q, S)
  PROVE  p = q
BY PathsAssumption DEF IsFirst

\* The exporter's vocabulary is the root's.
LEMMA VocabularyOfA ==
  /\ A!Operations = Operations
  /\ \A ops : A!Writes(ops) = Writes(ops)
  /\ \A p, S : A!IsFirst(p, S) <=> IsFirst(p, S)
BY DEF A!Operations, Operations, A!Writes, Writes, A!IsFirst, IsFirst

\* The next path of a walk is still to be visited.
LEMMA WalkMember ==
  ASSUME NEW p, NEW S
  PROVE  (IsFirst(p, S) \/ A!IsLast(p, S)) => p \in S
BY DEF A!IsLast, IsFirst

\* What a plan writes are paths of the root, to contents.
LEMMA WritesOfA ==
  ASSUME NEW ops \in Operations
  PROVE  \A p \in Writes(ops) : p \in Paths /\ ops[p] \in Contents
BY DEF Operations, Writes

-----------------------------------------------------------------------------
(* RaceInv is inductive: one lemma for each actor. *)

\* Nothing has happened yet.
LEMMA InitRaceInv == Init => RaceInv
BY DEF Init, A!Init, RaceInv, ShapeInv, SeenInv, OwnInv, LandedInv, MovedInv,
       A!Pcs, A!TxnPcs, A!ForwardPcs, A!UndoPcs, A!NoBackup

\* The rival and the owner are somewhere else in memory, and tell what they change.
LEMMA OthersAreLate ==
  ASSUME DOMAIN fs = Paths, BStep \/ \E p \in Paths, node \in Nodes : OwnerStep(p, node)
  PROVE  /\ UNCHANGED varsA
         /\ DOMAIN fs' = Paths
         /\ \A p \in Paths \ late' : p \notin late /\ fs'[p] = fs[p]
<1>1. CASE BStep
  <2>1. UNCHANGED varsA /\ \A p \in Paths \ late' : p \notin late /\ fs'[p] = fs[p]
    BY <1>1 DEF BStep
  <2>2. DOMAIN fs' = DOMAIN fs
    <3> USE DEF B!disk, B!lists, B!history
    <3>1. CASE B!Call
      BY <3>1 DEF B!Call, B!Preview, B!StartApply
    <3>2. CASE B!Forward
      <4>1. CASE B!MakeTransaction \/ B!Stage \/ B!BackupsDone \/ B!Commit \/ B!PurgeDone
        BY <4>1 DEF B!MakeTransaction, B!Stage, B!BackupsDone, B!Commit, B!PurgeDone
      <4>2. ASSUME NEW p \in Paths, B!CheckPath(p) \/ B!BackupSkip(p) \/ B!BackupMove(p)
                                    \/ B!BackupRecord(p) \/ B!InstallMove(p)
                                    \/ B!InstallRecord(p) \/ B!Purge(p)
            PROVE  DOMAIN fs' = DOMAIN fs
        BY <4>2 DEF B!CheckPath, B!BackupSkip, B!BackupMove, B!BackupRecord,
                    B!InstallMove, B!InstallRecord, B!Purge
      <4> QED
        BY <3>2, <4>1, <4>2 DEF B!Forward
    <3>3. CASE B!Handler
      <4>1. ASSUME NEW p \in Paths, B!Unlink(p) \/ B!Restore(p)
            PROVE  DOMAIN fs' = DOMAIN fs
        BY <4>1 DEF B!Unlink, B!Restore
      <4>2. CASE B!UnlinksDone \/ B!RestoresDone \/ B!Clean
        BY <4>2 DEF B!UnlinksDone, B!RestoresDone, B!Clean
      <4> QED
        BY <3>3, <4>1, <4>2 DEF B!Handler
    <3>4. CASE B!Faults
      BY <3>4 DEF B!Faults, B!Interrupt, B!SplitRename, B!EnterHandler,
                  B!HandlerFails, B!PurgeFails
    <3>5. CASE B!Crash
      BY <3>5 DEF B!Crash
    <3>6. CASE \E p \in Paths : B!MeetBlocked(p)
      BY <3>6 DEF B!MeetBlocked, B!EnterHandler
    <3> QED
      BY <1>1, <3>1, <3>2, <3>3, <3>4, <3>5, <3>6 DEF BStep
  <2> QED
    BY <2>1, <2>2
<1>2. CASE \E p \in Paths, node \in Nodes : OwnerStep(p, node)
  BY <1>2 DEF OwnerStep
<1> QED
  BY <1>1, <1>2

\* So their steps disturb nothing the invariant says.
LEMMA OthersKeepInv ==
  ASSUME RaceInv, BStep \/ \E p \in Paths, node \in Nodes : OwnerStep(p, node)
  PROVE  RaceInv'
<1>1. /\ UNCHANGED varsA
      /\ DOMAIN fs' = Paths
      /\ \A p \in Paths \ late' : p \notin late /\ fs'[p] = fs[p]
  BY OthersAreLate DEF RaceInv, ShapeInv
<1>2. ShapeInv' /\ LandedInv' /\ MovedInv'
  BY <1>1 DEF RaceInv, ShapeInv, LandedInv, MovedInv, varsA
<1>3. SeenInv'
  BY <1>1 DEF RaceInv, SeenInv, varsA
<1>4. OwnInv'
  BY <1>1 DEF RaceInv, OwnInv, varsA
<1> QED
  BY <1>2, <1>3, <1>4 DEF RaceInv

\* Previewing, checking and making the directory.
LEMMA PrepareKeepsInv ==
  ASSUME RaceInv,
         A!Call \/ A!MakeTransaction \/ \E p \in Paths : A!CheckPath(p),
         late' = IF pcA = "check" THEN late \ (todoA \ todoA') ELSE late
  PROVE  RaceInv'
<1> USE VocabularyOfA DEF RaceInv, ShapeInv, SeenInv, OwnInv, LandedInv, MovedInv,
            A!disk, A!lists, A!history, A!Pcs, A!TxnPcs, A!ForwardPcs, A!UndoPcs
<1>1. ASSUME NEW ops \in A!Operations, A!Preview(ops)
      PROVE  RaceInv'
  <2>1. pcA = "idle" /\ pcA' = "idle" /\ previewA'.ops = ops
    BY <1>1 DEF A!Preview
  <2> QED
    BY <1>1, <2>1 DEF A!Preview
<1>2. CASE A!StartApply
  BY <1>2 DEF A!StartApply, A!Return
<1>3. ASSUME NEW p \in Paths, A!CheckPath(p)
      PROVE  RaceInv'
  BY <1>3, WalkMember DEF A!CheckPath, A!Return
<1>4. CASE A!MakeTransaction
  BY <1>4 DEF A!MakeTransaction, A!Forget, A!NoBackup
<1> QED
  BY <1>1, <1>2, <1>3, <1>4 DEF A!Call

\* Moving the originals aside.
LEMMA BackupKeepsInv ==
  ASSUME RaceInv, UNCHANGED late, pcA # "check",
         \/ A!Stage \/ A!BackupsDone
         \/ \E p \in Paths : A!BackupSkip(p) \/ A!BackupMove(p) \/ A!BackupRecord(p)
  PROVE  RaceInv'
<1> USE VocabularyOfA, WalkMember, NextIsUnique
        DEF RaceInv, ShapeInv, SeenInv, OwnInv, LandedInv, MovedInv,
            A!disk, A!lists, A!history, A!Pcs, A!TxnPcs, A!ForwardPcs, A!UndoPcs
<1>1. CASE A!Stage
  BY <1>1 DEF A!Stage, A!Touched, A!Writes, A!Deletes
<1>2. CASE A!BackupsDone
  BY <1>2, WritesOfA DEF A!BackupsDone
<1>3. ASSUME NEW p \in Paths, A!BackupSkip(p)
      PROVE  RaceInv'
  BY <1>3 DEF A!BackupSkip
<1>4. ASSUME NEW p \in Paths, A!BackupMove(p)
      PROVE  RaceInv'
  BY <1>4 DEF A!BackupMove
<1>5. ASSUME NEW p \in Paths, A!BackupRecord(p)
      PROVE  RaceInv'
  BY <1>5 DEF A!BackupRecord
<1> QED
  BY <1>1, <1>2, <1>3, <1>4, <1>5

\* Putting the staged files into place, and removing the directory.
LEMMA InstallKeepsInv ==
  ASSUME RaceInv, UNCHANGED late, pcA # "check",
         \/ A!Commit \/ A!PurgeDone
         \/ \E p \in Paths : A!InstallMove(p) \/ A!InstallRecord(p) \/ A!Purge(p)
  PROVE  RaceInv'
<1> USE VocabularyOfA, WalkMember, NextIsUnique, WritesOfA
        DEF RaceInv, ShapeInv, SeenInv, OwnInv, LandedInv, MovedInv,
            A!disk, A!lists, A!history, A!Pcs, A!TxnPcs, A!ForwardPcs, A!UndoPcs
<1>1. CASE A!Commit
  BY <1>1 DEF A!Commit
<1>2. CASE A!PurgeDone
  BY <1>2 DEF A!PurgeDone, A!Forget, A!Return
<1>3. ASSUME NEW p \in Paths, A!InstallMove(p)
      PROVE  RaceInv'
  BY <1>3 DEF A!InstallMove
<1>4. ASSUME NEW p \in Paths, A!InstallRecord(p)
      PROVE  RaceInv'
  BY <1>4 DEF A!InstallRecord
<1>5. ASSUME NEW p \in Paths, A!Purge(p)
      PROVE  RaceInv'
  BY <1>5 DEF A!Purge
<1> QED
  BY <1>1, <1>2, <1>3, <1>4, <1>5

\* Entering the handler, from a failing call or a node that is in the way.
LEMMA FaultKeepsInv ==
  ASSUME RaceInv, UNCHANGED late, pcA # "check",
         A!Faults \/ A!Crash \/ \E p \in Paths : A!MeetBlocked(p)
  PROVE  RaceInv'
<1> USE VocabularyOfA
        DEF RaceInv, ShapeInv, SeenInv, OwnInv, LandedInv, MovedInv,
            A!disk, A!lists, A!history, A!Pcs, A!TxnPcs, A!ForwardPcs, A!UndoPcs
<1>1. CASE A!Interrupt
  BY <1>1 DEF A!Interrupt, A!EnterHandler
<1>2. CASE A!HandlerFails
  BY <1>2 DEF A!HandlerFails, A!Return
<1>3. CASE A!PurgeFails
  BY <1>3 DEF A!PurgeFails, A!Return
<1>4. CASE A!Crash
  BY <1>4 DEF A!Crash, A!Return
<1>5. ASSUME NEW p \in Paths, A!MeetBlocked(p)
      PROVE  RaceInv'
  BY <1>5 DEF A!MeetBlocked, A!EnterHandler
<1>6. ~ \E p \in Paths : A!SplitRename(p)
  BY DEF A!SplitRename
<1> QED
  BY <1>1, <1>2, <1>3, <1>4, <1>5, <1>6 DEF A!Faults

\* Rolling back.
LEMMA HandlerKeepsInv ==
  ASSUME RaceInv, UNCHANGED late, A!Handler
  PROVE  RaceInv'
<1> USE VocabularyOfA, WalkMember
        DEF RaceInv, ShapeInv, SeenInv, OwnInv, LandedInv, MovedInv,
            A!disk, A!lists, A!history, A!Pcs, A!TxnPcs, A!ForwardPcs, A!UndoPcs
<1>1. ASSUME NEW p \in Paths, A!Unlink(p)
      PROVE  RaceInv'
  BY <1>1, MarksAssumption DEF A!Unlink
<1>2. ASSUME NEW p \in Paths, A!Restore(p)
      PROVE  RaceInv'
  BY <1>2 DEF A!Restore
<1>3. CASE A!UnlinksDone
  BY <1>3 DEF A!UnlinksDone
<1>4. CASE A!RestoresDone
  BY <1>4 DEF A!RestoresDone
<1>5. CASE A!Clean
  BY <1>5 DEF A!Clean, A!Return, A!Forget, A!NoBackup
<1> QED
  BY <1>1, <1>2, <1>3, <1>4, <1>5 DEF A!Handler

\* A's steps keep it: the rename of a file and its record are one step apart, and
\* between them the walk still points at the file.
LEMMA OwnStepsKeepInv ==
  ASSUME RaceInv, AStep
  PROVE  RaceInv'
<1>1. CASE A!Call \/ A!MakeTransaction \/ \E p \in Paths : A!CheckPath(p)
  BY <1>1, PrepareKeepsInv DEF AStep
<1>2. ASSUME pcA # "check"
      PROVE  UNCHANGED late
  BY <1>2 DEF AStep
<1>3. CASE \/ A!Stage \/ A!BackupsDone
           \/ \E p \in Paths : A!BackupSkip(p) \/ A!BackupMove(p) \/ A!BackupRecord(p)
  <2>1. pcA # "check"
    BY <1>3 DEF A!Stage, A!BackupsDone, A!BackupSkip, A!BackupMove, A!BackupRecord
  <2> QED
    BY <1>2, <1>3, <2>1, BackupKeepsInv
<1>4. CASE \/ A!Commit \/ A!PurgeDone
           \/ \E p \in Paths : A!InstallMove(p) \/ A!InstallRecord(p) \/ A!Purge(p)
  <2>1. pcA # "check"
    BY <1>4 DEF A!Commit, A!PurgeDone, A!InstallMove, A!InstallRecord, A!Purge
  <2> QED
    BY <1>2, <1>4, <2>1, InstallKeepsInv
<1>5. CASE A!Handler
  <2>1. pcA # "check"
    BY <1>5 DEF A!Handler, A!Unlink, A!Restore, A!UnlinksDone, A!RestoresDone, A!Clean
  <2> QED
    BY <1>2, <1>5, <2>1, HandlerKeepsInv
<1>6. CASE A!Faults \/ A!Crash \/ \E p \in Paths : A!MeetBlocked(p)
  <2>1. CASE pcA = "check"
    <3>1. A!Crash
      BY <1>6, <2>1 DEF A!Faults, A!Interrupt, A!SplitRename, A!HandlerFails,
                        A!PurgeFails, A!MeetBlocked
    <3> QED
      BY <3>1, <2>1 DEF A!Crash, A!Return, A!disk, A!history, RaceInv, ShapeInv,
                        SeenInv, OwnInv, LandedInv, MovedInv, A!Pcs, A!TxnPcs,
                        A!ForwardPcs, A!UndoPcs
  <2>2. CASE pcA # "check"
    BY <1>2, <1>6, <2>2, FaultKeepsInv
  <2> QED
    BY <2>1, <2>2
<1> QED
  BY <1>1, <1>3, <1>4, <1>5, <1>6 DEF AStep, A!Forward

\* No step of the three actors breaks it.
LEMMA NextKeepsInv == RaceInv /\ [Next]_vars => RaceInv'
<1> SUFFICES ASSUME RaceInv, [Next]_vars
             PROVE  RaceInv'
  OBVIOUS
<1>1. CASE UNCHANGED vars
  BY <1>1 DEF vars, varsA, RaceInv, ShapeInv, SeenInv, OwnInv, LandedInv, MovedInv
<1> QED
  BY <1>1, OwnStepsKeepInv, OthersKeepInv DEF Next

\* RaceInv: whatever the others do, A's records account for all it has moved,
\* and where nobody came in between, the root and the backup hold what A put there.
THEOREM RaceInvariance == Spec => []RaceInv
BY InitRaceInv, NextKeepsInv, PTL DEF Spec

-----------------------------------------------------------------------------
(* What follows for the files of the root. *)

\* A step of A that changes a node is one of the transaction, rollback included.
LEMMA ChangesAreInTransaction ==
  ASSUME ShapeInv, AStep, NEW p \in Paths, fs'[p] # fs[p]
  PROVE  pcA \in A!TxnPcs
<1> USE DEF A!disk, A!history
<1>1. fs' # fs
  OBVIOUS
<1>2. ~A!Call /\ ~A!Crash
  BY <1>1 DEF A!Call, A!Preview, A!StartApply, A!Crash
<1>3. ~ \E q \in Paths : A!CheckPath(q)
  BY <1>1 DEF A!CheckPath
<1>4. ~A!MakeTransaction
  BY <1>1 DEF A!MakeTransaction
<1>5. pcA # "idle" /\ pcA # "check"
  BY <1>2, <1>3, <1>4
     DEF AStep, A!Forward, A!Handler, A!Faults, A!Stage, A!BackupsDone, A!Commit,
         A!BackupSkip, A!BackupMove, A!BackupRecord, A!InstallMove, A!InstallRecord,
         A!Purge, A!PurgeDone, A!Unlink, A!Restore, A!UnlinksDone, A!RestoresDone,
         A!Clean, A!Interrupt, A!SplitRename, A!HandlerFails, A!PurgeFails,
         A!MeetBlocked
<1> QED
  BY <1>5 DEF ShapeInv, A!Pcs

\* CheckedEditsSurvive: whatever the rival or the owner put at a path before A's
\* check of it, no later step of the call overwrites, moves or unlinks it.
THEOREM CheckedEditsAreKept == Spec => CheckedEditsSurvive
<1>1. ASSUME RaceInv, [Next]_vars
      PROVE  [\A p \in Paths : TakesForeign(p) => p \in late]_vars
  <2>1. SUFFICES ASSUME NEW p \in Paths, TakesForeign(p), p \notin late
                 PROVE  FALSE
    OBVIOUS
  <2>2. AStep
    <3>1. <<pcA, todoA>>' # <<pcA, todoA>>
      BY <2>1 DEF TakesForeign
    <3>2. ~UNCHANGED varsA
      BY <3>1 DEF varsA
    <3> QED
      BY <1>1, <3>2 DEF Next, BStep, OwnerStep, vars
  <2>3. pcA \in A!TxnPcs
    BY <1>1, <2>1, <2>2, ChangesAreInTransaction DEF RaceInv, TakesForeign
  <2> QED
    BY <1>1, <2>1, <2>3 DEF RaceInv, OwnInv, TakesForeign
<1> QED
  BY <1>1, RaceInvariance, PTL DEF Spec, CheckedEditsSurvive

\* NothingLeftInRemovedBackup: a call that raises and takes its directory away
\* keeps no file in it, even one it moved aside after somebody's late edit.
THEOREM NothingIsDiscarded == Spec => NothingLeftInRemovedBackup
<1>1. ASSUME RaceInv
      PROVE  pcA = "clean" => backupA = A!NoBackup
  BY <1>1 DEF RaceInv, ShapeInv, MovedInv, A!NoBackup
<1>2. RaceInv => [pcA = "clean" /\ "txnA" \notin dirs' => backupA = A!NoBackup]_vars
  BY <1>1
<1> QED
  BY <1>2, RaceInvariance, PTL DEF NothingLeftInRemovedBackup
=============================================================================
