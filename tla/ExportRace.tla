----------------------------- MODULE ExportRace -----------------------------
(***************************************************************************)
(* Two exporter processes and the owner of the files share one target      *)
(* root.  Nothing locks it: apply_export looks for a transaction directory *)
(* and rechecks its preconditions, and acts afterwards, so the others may  *)
(* move between any two of its filesystem calls.                           *)
(***************************************************************************)
EXTENDS ExportTree

CONSTANTS
  NoPreview,
  Rival       \* does a second exporter run?

ASSUME RivalAssumption == Rival \in BOOLEAN

VARIABLES
  fs, dirs,                          \* the shared root
  backupA, previewA, pcA, todoA, backedUpA, installedA, resultA,
  landedA, committedA, slippedA,     \* exporter A
  backupB, previewB, pcB, todoB, backedUpB, installedB, resultB,
  landedB, committedB, slippedB,     \* exporter B
  late      \* paths others changed after A's check of them

varsA == <<backupA, previewA, pcA, todoA, backedUpA, installedA, resultA,
           landedA, committedA, slippedA>>
varsB == <<backupB, previewB, pcB, todoB, backedUpB, installedB, resultB,
           landedB, committedB, slippedB>>
vars == <<fs, dirs, varsA, varsB, late>>

A == INSTANCE ExportTxn WITH
  Self <- "txnA", GapFaults <- FALSE, backup <- backupA, preview <- previewA,
  pc <- pcA, todo <- todoA, backedUp <- backedUpA, installed <- installedA,
  result <- resultA, landed <- landedA, committed <- committedA,
  slipped <- slippedA

B == INSTANCE ExportTxn WITH
  Self <- "txnB", GapFaults <- FALSE, backup <- backupB, preview <- previewB,
  pc <- pcB, todo <- todoB, backedUp <- backedUpB, installed <- installedB,
  result <- resultB, landed <- landedB, committed <- committedB,
  slipped <- slippedB

Init ==
  /\ A!Init
  /\ B!Init
  /\ late = {}

\* Each exporter previews and applies once; the paths A's check has just read
\* are the ones whose earlier changes it has taken into account.
AStep ==
  /\ \/ resultA = "none" /\ A!Call
     \/ A!Forward \/ A!Handler \/ A!Faults \/ A!Crash
     \/ \E p \in Paths : A!MeetBlocked(p)
  /\ late' = IF pcA = "check" THEN late \ (todoA \ todoA') ELSE late
  /\ UNCHANGED varsB

BStep ==
  /\ Rival
  /\ \/ resultB = "none" /\ B!Call
     \/ B!Forward \/ B!Handler \/ B!Faults \/ B!Crash
     \/ \E p \in Paths : B!MeetBlocked(p)
  /\ late' = late \cup {p \in Paths : fs'[p] # fs[p]}
  /\ UNCHANGED varsA

\* The owner saves, deletes or blocks a file at any moment.
OwnerStep(p, node) ==
  /\ fs' = [fs EXCEPT ![p] = node]
  /\ late' = late \cup {p}
  /\ UNCHANGED <<dirs, varsA, varsB>>

Next ==
  \/ AStep
  \/ BStep
  \/ \E p \in Paths, node \in Nodes : OwnerStep(p, node)

Spec == Init /\ [][Next]_vars

-----------------------------------------------------------------------------
(* The inductive invariant, about A and the root: the others may do anything to *)
(* the root as long as late tells.                                              *)

ShapeInv ==
  /\ DOMAIN fs = Paths
  /\ backupA = [p \in Paths |-> backupA[p]]
  /\ pcA \in A!Pcs
  /\ todoA \subseteq Paths /\ backedUpA \subseteq Paths /\ installedA \subseteq Paths
  /\ previewA # NoPreview => previewA.ops \in Operations
  /\ pcA # "idle" => previewA # NoPreview

\* What the check has passed is as it was previewed.
SeenInv ==
  pcA = "check" =>
    \A p \in (Paths \ todoA) \ late : fs[p] = previewA.tree[p]

\* Where nobody interferes, the root and the backup hold what A put there.
OwnInv ==
  pcA \in A!TxnPcs =>
    \A p \in Paths \ late :
      /\ IF p \in landedA THEN fs[p] \in Contents
                           ELSE fs[p] \in {previewA.tree[p], Absent}
      /\ backupA[p] \in {previewA.tree[p], Absent}

\* Staged files that have landed are recorded until they are unlinked.
LandedInv ==
  /\ pcA \in {"stage", "backup", "backing", "restore", "clean"} => landedA = {}
  /\ pcA \in {"install", "installing"} => todoA \subseteq Writes(previewA.ops)
  /\ pcA = "install" => landedA \subseteq installedA
  /\ pcA = "installing" => \A p \in landedA : p \in installedA \/ IsFirst(p, todoA)
  /\ pcA = "unlink" => landedA \subseteq todoA

\* So are backups, until they are put back.
MovedInv ==
  LET moved == {p \in Paths : backupA[p] # Absent}
  IN  /\ pcA \in {"stage", "clean"} => moved = {}
      /\ pcA \in {"backup", "install", "installing", "unlink"} => moved \subseteq backedUpA
      /\ pcA = "backing" => \A p \in moved : p \in backedUpA \/ IsFirst(p, todoA)
      /\ pcA = "restore" => moved \subseteq todoA

RaceInv == ShapeInv /\ SeenInv /\ OwnInv /\ LandedInv /\ MovedInv

-----------------------------------------------------------------------------
\* A's step takes p away from a node that A neither previewed nor installed.
TakesForeign(p) ==
  /\ <<pcA, todoA>>' # <<pcA, todoA>>
  /\ fs'[p] # fs[p]
  /\ fs[p] \notin {previewA.tree[p], Absent}
  /\ p \notin landedA

\* What _assert_preconditions buys without a lock: whatever the rival or the
\* owner put at a path before A's check of that path, no later step of the call,
\* rollback included, overwrites, moves or unlinks it.
CheckedEditsSurvive ==
  [][\A p \in Paths : TakesForeign(p) => p \in late]_vars

\* The rollback of a failed call puts a late edit it had moved aside back, too:
\* an exporter that raises and takes its directory away keeps no file in it.
NothingLeftInRemovedBackup ==
  [][pcA = "clean" /\ "txnA" \notin dirs' => backupA = A!NoBackup]_vars
=============================================================================
