------------------------- MODULE ExportLedger_proofs -------------------------
(***************************************************************************)
(* Proofs about ExportLedger, for every set of paths, contents and         *)
(* snapshots and any interleaving of previews, applies and the owner's     *)
(* edits: an apply, of a prepared plan or through the CLI, acts as if it   *)
(* were planned on the tree it meets, receipts list only the exporter's    *)
(* own bytes, and nothing but such bytes is overwritten or deleted.        *)
(***************************************************************************)
EXTENDS ExportLedger, TLAPS

-----------------------------------------------------------------------------
(* The inductive invariant: a saved preview is one the planner made, of a  *)
(* tree and a receipt that met its conditions.                             *)

PreviewPlanned ==
  saved # NoPlan =>
    \/ /\ saved.source \in Snapshots
       /\ ExportAllowed(saved.source, saved.tree, saved.receipt)
       /\ saved = ExportPlan(saved.source, saved.tree, saved.receipt)
    \/ /\ UninstallAllowed(saved.tree, saved.receipt)
       /\ saved = UninstallPlan(saved.tree, saved.receipt)

LedgerInv == TypeOK /\ PreviewPlanned /\ LedgerListsOnlyOwnBytes

\* What the planner makes of a tree and a receipt is a plan.
LEMMA ExportPlanType ==
  ASSUME NEW d \in Snapshots, NEW tree \in Ledgers, NEW ledger \in Ledgers \cup {NoReceipt}
  PROVE  ExportPlan(d, tree, ledger) \in Plans
<1>1. d \in Ledgers
  BY SnapshotsAssumption DEF Ledgers
<1>2. ExportOps(d, tree, ledger) \in Operations
  BY <1>1 DEF ExportOps, Operations, Listed, Ledgers
<1> QED
  BY <1>1, <1>2 DEF ExportPlan, Plans, Listed

LEMMA UninstallPlanType ==
  ASSUME NEW tree \in Ledgers, NEW ledger \in Ledgers \cup {NoReceipt},
         UninstallAllowed(tree, ledger)
  PROVE  UninstallPlan(tree, ledger) \in Plans
<1>1. ledger \in Ledgers
  BY DEF UninstallAllowed, Matches, Listed
<1>2. Reduced(tree, ledger) \in Ledgers \cup {NoReceipt}
  BY <1>1 DEF Reduced, Modified, Ledgers
<1>3. UninstallPlan(tree, ledger).ops \in Operations
  BY DEF UninstallPlan, Operations
<1> QED
  BY <1>1, <1>2, <1>3 DEF UninstallPlan, Plans, Listed

-----------------------------------------------------------------------------
(* An apply acts on what it finds. *)

Exports(d) == ExportAllowed(d, fs, receipt) /\ Perform(ExportPlan(d, fs, receipt))
Uninstalls == UninstallAllowed(fs, receipt) /\ Perform(UninstallPlan(fs, receipt))

\* The preconditions a prepared plan checks cover all that the planner looked at.
LEMMA FreshExport ==
  ASSUME LedgerInv, ApplyPrepared, saved.kind = "export"
  PROVE  Exports(saved.source)
<1> DEFINE d == saved.source
           tree == saved.tree
<1>1. /\ saved = ExportPlan(d, tree, receipt) /\ ExportAllowed(d, tree, receipt)
      /\ \A p \in saved.scope : fs[p] = tree[p]
      /\ Perform(saved)
  BY DEF LedgerInv, PreviewPlanned, ApplyPrepared, Unchanged, UninstallPlan
<1>2. \A p \in Listed(d) \cup Listed(receipt) : fs[p] = tree[p]
  BY <1>1 DEF ExportPlan
<1>3. ExportAllowed(d, fs, receipt)
  BY <1>1, <1>2 DEF ExportAllowed, Matches
<1>4. ExportOps(d, fs, receipt) = ExportOps(d, tree, receipt)
  BY <1>2 DEF ExportOps, Matches
<1>5. Perform(ExportPlan(d, fs, receipt))
  BY <1>1, <1>4 DEF Perform, ExportPlan
<1> QED
  BY <1>3, <1>5 DEF Exports

LEMMA FreshUninstall ==
  ASSUME LedgerInv, ApplyPrepared, saved.kind = "uninstall"
  PROVE  Uninstalls
<1> DEFINE tree == saved.tree
<1>1. /\ saved = UninstallPlan(tree, receipt) /\ UninstallAllowed(tree, receipt)
      /\ \A p \in saved.scope : fs[p] = tree[p]
      /\ Perform(saved)
  BY DEF LedgerInv, PreviewPlanned, ApplyPrepared, Unchanged, ExportPlan
<1>2. \A p \in Listed(receipt) : fs[p] = tree[p]
  <2>1. UninstallPlan(tree, receipt).scope = Listed(receipt)
    BY DEF UninstallPlan
  <2> QED
    BY <1>1, <2>1
<1>3. UninstallAllowed(fs, receipt) /\ Modified(fs, receipt) = Modified(tree, receipt)
  BY <1>1, <1>2 DEF UninstallAllowed, Matches, Modified
<1>4. Reduced(fs, receipt) = Reduced(tree, receipt)
  BY <1>3 DEF Reduced
<1>5. \A p \in Paths : Matches(p, fs, receipt) <=> Matches(p, tree, receipt)
  BY <1>2 DEF Matches
<1>6. UninstallPlan(fs, receipt).ops = UninstallPlan(tree, receipt).ops
  BY <1>5 DEF UninstallPlan
<1>7. Perform(UninstallPlan(fs, receipt))
  BY <1>1, <1>4, <1>6 DEF Perform, UninstallPlan
<1> QED
  BY <1>3, <1>7 DEF Uninstalls

\* Whichever way a preview is applied, the outcome is that of planning now.
LEMMA AppliesFresh ==
  ASSUME LedgerInv, ApplyPrepared \/ ApplyCli
  PROVE  \/ saved.kind = "export" /\ saved.source \in Snapshots /\ Exports(saved.source)
         \/ saved.kind = "uninstall" /\ Uninstalls
<1>1. \/ saved.kind = "export" /\ saved.source \in Snapshots
      \/ saved.kind = "uninstall"
  BY DEF LedgerInv, PreviewPlanned, ApplyPrepared, ApplyCli, ExportPlan, UninstallPlan
<1>2. CASE ApplyPrepared
  BY <1>1, <1>2, FreshExport, FreshUninstall
<1>3. CASE ApplyCli
  BY <1>1, <1>3 DEF ApplyCli, Exports, Uninstalls
<1> QED
  BY <1>2, <1>3

-----------------------------------------------------------------------------
(* What an export and an uninstall do. *)

\* An export leaves the snapshot on disk and has written, now or before, every
\* byte string it lists.
LEMMA ExportEffect ==
  ASSUME LedgerInv, NEW d \in Snapshots, Exports(d)
  PROVE  /\ fs' \in Ledgers /\ drift' \subseteq drift /\ wrote' \in [Paths -> SUBSET Contents]
         /\ receipt' = d /\ d \in Ledgers /\ saved' = NoPlan
         /\ \A p \in Listed(d) : fs'[p] = d[p] /\ d[p] \in wrote'[p]
         /\ \A p \in Paths \ Listed(d) :
              fs'[p] = IF Matches(p, fs, receipt) THEN Absent ELSE fs[p]
<1> DEFINE ops == ExportOps(d, fs, receipt)
<1> USE MarksAssumption
<1>1. d \in Ledgers /\ fs \in Ledgers /\ wrote \in [Paths -> SUBSET Contents]
  BY SnapshotsAssumption DEF Ledgers, LedgerInv, TypeOK
<1>2. /\ fs' = After(ops, fs) /\ drift' = drift \ Touched(ops) /\ receipt' = d
      /\ wrote' = [p \in Paths |-> IF p \in Writes(ops) THEN wrote[p] \cup {ops[p]}
                                                        ELSE wrote[p]]
      /\ saved' = NoPlan
  BY DEF Exports, Perform, ExportPlan
<1>3. ASSUME NEW p \in Listed(d)
      PROVE  fs'[p] = d[p] /\ d[p] \in wrote'[p]
  <2>1. p \in Paths /\ d[p] \in Contents
    BY <1>1 DEF Listed, Ledgers
  <2>2. CASE fs[p] = d[p]
    <3>1. Matches(p, fs, receipt)
      BY <2>1, <2>2 DEF Exports, ExportAllowed
    <3>2. d[p] \in wrote[p]
      BY <2>2, <3>1 DEF Matches, LedgerInv, LedgerListsOnlyOwnBytes
    <3>3. ops[p] = Keep
      BY <2>1, <2>2 DEF ExportOps
    <3> QED
      BY <1>1, <1>2, <2>1, <2>2, <3>2, <3>3 DEF After, Writes, Deletes
  <2>3. CASE fs[p] # d[p]
    <3>1. ops[p] = d[p]
      BY <2>1, <2>3 DEF ExportOps
    <3> QED
      BY <1>2, <2>1, <3>1 DEF After, Writes
  <2> QED
    BY <2>2, <2>3
<1>4. ASSUME NEW p \in Paths \ Listed(d)
      PROVE  fs'[p] = IF Matches(p, fs, receipt) THEN Absent ELSE fs[p]
  BY <1>2 DEF After, Writes, Deletes, ExportOps
<1>5. fs' \in Ledgers
  BY <1>1, <1>2 DEF After, Writes, Deletes, Ledgers
<1>6. wrote' \in [Paths -> SUBSET Contents]
  BY <1>1, <1>2 DEF Writes
<1> QED
  BY <1>1, <1>2, <1>3, <1>4, <1>5, <1>6

\* An uninstall takes what matches the receipt and lists what remains of it.
LEMMA UninstallEffect ==
  ASSUME LedgerInv, Uninstalls
  PROVE  /\ fs' \in Ledgers /\ drift' \subseteq drift /\ wrote' = wrote /\ saved' = NoPlan
         /\ receipt' \in Ledgers \cup {NoReceipt}
         /\ \A p \in Paths : fs'[p] = IF Matches(p, fs, receipt) THEN Absent ELSE fs[p]
         /\ Listed(receipt') = Modified(fs, receipt)
         /\ \A p \in Listed(receipt') : receipt'[p] = receipt[p]
<1> DEFINE ops == [p \in Paths |-> IF Matches(p, fs, receipt) THEN Remove ELSE Keep]
<1> USE MarksAssumption
<1>1. /\ fs' = After(ops, fs) /\ drift' = drift \ Touched(ops)
      /\ receipt' = Reduced(fs, receipt) /\ saved' = NoPlan
      /\ wrote' = [p \in Paths |-> IF p \in Writes(ops) THEN wrote[p] \cup {ops[p]}
                                                        ELSE wrote[p]]
  BY DEF Uninstalls, Perform, UninstallPlan
<1>2. fs \in Ledgers /\ wrote \in [Paths -> SUBSET Contents] /\ receipt \in Ledgers
  BY DEF Uninstalls, UninstallAllowed, Matches, Listed, LedgerInv, TypeOK
<1>3. Writes(ops) = {} /\ wrote' = wrote
  BY <1>1, <1>2 DEF Writes
<1>4. \A p \in Paths : fs'[p] = IF Matches(p, fs, receipt) THEN Absent ELSE fs[p]
  BY <1>1, <1>3 DEF After, Deletes
<1>5. fs' \in Ledgers
  BY <1>1, <1>2, <1>3 DEF After, Deletes, Ledgers
<1>6. /\ receipt' \in Ledgers \cup {NoReceipt}
      /\ Listed(receipt') = Modified(fs, receipt)
      /\ \A p \in Listed(receipt') : receipt'[p] = receipt[p]
  <2>1. CASE Modified(fs, receipt) = {}
    BY <1>1, <2>1 DEF Reduced, Listed
  <2>2. CASE Modified(fs, receipt) # {}
    <3>1. receipt' = [p \in Paths |-> IF p \in Modified(fs, receipt)
                                         THEN receipt[p] ELSE Absent]
      BY <1>1, <2>2 DEF Reduced
    <3>2. receipt' \in Ledgers
      BY <1>2, <3>1 DEF Ledgers
    <3>3. receipt' # NoReceipt /\ receipt # NoReceipt
      BY <1>2, <3>2, NoneAssumption
    <3> QED
      BY <3>1, <3>2, <3>3 DEF Listed, Modified
  <2> QED
    BY <2>1, <2>2
<1> QED
  BY <1>1, <1>3, <1>4, <1>5, <1>6

-----------------------------------------------------------------------------
(* LedgerInv is inductive. *)

LEMMA InitLedgerInv == Init => LedgerInv
BY DEF Init, LedgerInv, TypeOK, PreviewPlanned, LedgerListsOnlyOwnBytes, Listed, Ledgers

LEMMA ApplyKeepsInv ==
  ASSUME LedgerInv, ApplyPrepared \/ ApplyCli
  PROVE  LedgerInv'
<1>1. CASE saved.source \in Snapshots /\ Exports(saved.source)
  BY <1>1, ExportEffect DEF LedgerInv, TypeOK, PreviewPlanned, LedgerListsOnlyOwnBytes
<1>2. CASE Uninstalls
  BY <1>2, UninstallEffect DEF LedgerInv, TypeOK, PreviewPlanned, LedgerListsOnlyOwnBytes,
     Modified
<1> QED
  BY <1>1, <1>2, AppliesFresh

\* Neither previews, applies nor the owner break it.
LEMMA NextLedgerInv == LedgerInv /\ [Next]_vars => LedgerInv'
<1> SUFFICES ASSUME LedgerInv, [Next]_vars
             PROVE  LedgerInv'
  OBVIOUS
<1> USE DEF LedgerInv, TypeOK, PreviewPlanned, LedgerListsOnlyOwnBytes
<1>1. ASSUME NEW d \in Snapshots, PlanExport(d) PROVE LedgerInv'
  <2>1. saved' = ExportPlan(d, fs, receipt) /\ saved' \in Plans
    BY <1>1, ExportPlanType DEF PlanExport
  <2>2. saved'.source = d /\ saved'.tree = fs /\ saved'.receipt = receipt
    BY <2>1 DEF ExportPlan
  <2> QED
    BY <1>1, <2>1, <2>2 DEF PlanExport
<1>2. CASE PlanUninstall
  <2>1. saved' = UninstallPlan(fs, receipt) /\ saved' \in Plans
    BY <1>2, UninstallPlanType DEF PlanUninstall
  <2>2. saved'.tree = fs /\ saved'.receipt = receipt
    BY <2>1 DEF UninstallPlan
  <2> QED
    BY <1>2, <2>1, <2>2 DEF PlanUninstall
<1>3. CASE ApplyPrepared \/ ApplyCli
  BY <1>3, ApplyKeepsInv
<1>4. ASSUME NEW p \in Paths, NEW c \in Contents \cup {Absent}, OwnerWrites(p, c)
      PROVE  LedgerInv'
  BY <1>4 DEF OwnerWrites, Ledgers
<1>5. ASSUME NEW p \in Paths, OwnerChmods(p) PROVE LedgerInv'
  BY <1>5 DEF OwnerChmods
<1>6. CASE OwnerDropsReceipt
  BY <1>6 DEF OwnerDropsReceipt, Listed
<1>7. CASE UNCHANGED vars
  BY <1>7 DEF vars
<1> QED
  BY <1>1, <1>2, <1>3, <1>4, <1>5, <1>6, <1>7 DEF Next

\* The invariant holds in every reachable state.
THEOREM LedgerInvariance == Spec => []LedgerInv
<1>1. Init => LedgerInv
  BY InitLedgerInv
<1>2. LedgerInv /\ [Next]_vars => LedgerInv'
  BY NextLedgerInv
<1> QED
  BY <1>1, <1>2, PTL DEF Spec

\* Variables keep their types.
THEOREM LedgerTypes == Spec => []TypeOK
<1>1. LedgerInv => TypeOK
  BY DEF LedgerInv
<1> QED
  BY <1>1, LedgerInvariance, PTL

\* Every hash a receipt lists is of bytes the exporter wrote at that path.
THEOREM ReceiptsListOwnBytes == Spec => []LedgerListsOnlyOwnBytes
<1>1. LedgerInv => LedgerListsOnlyOwnBytes
  BY DEF LedgerInv
<1> QED
  BY <1>1, LedgerInvariance, PTL

-----------------------------------------------------------------------------
(* The action properties: only a step that applies a preview counts. *)

\* No other step takes the preview away.
LEMMA AppliedIsApply ==
  ASSUME LedgerInv, [Next]_vars, Applied
  PROVE  \/ saved.kind = "export" /\ saved.source \in Snapshots /\ Exports(saved.source)
         \/ saved.kind = "uninstall" /\ Uninstalls
<1> USE DEF Applied
<1>1. ASSUME NEW d \in Snapshots PROVE ~PlanExport(d)
  BY ExportPlanType, NoneAssumption DEF PlanExport, LedgerInv, TypeOK
<1>2. ~PlanUninstall
  BY UninstallPlanType, NoneAssumption DEF PlanUninstall, LedgerInv, TypeOK
<1>3. ASSUME NEW p \in Paths, NEW c PROVE ~OwnerWrites(p, c) /\ ~OwnerChmods(p)
  BY DEF OwnerWrites, OwnerChmods
<1>4. ~OwnerDropsReceipt /\ ~UNCHANGED vars
  BY DEF OwnerDropsReceipt, vars
<1>5. ApplyPrepared \/ ApplyCli
  BY <1>1, <1>2, <1>3, <1>4 DEF Next
<1> QED
  BY <1>5, AppliesFresh

\* An apply overwrites and deletes nothing but bytes the exporter wrote there and
\* its receipt lists, whatever was edited between preview and apply.
THEOREM OnlyOwnBytesTaken == Spec => OnlyMatchingOwnedTaken
<1>1. ASSUME LedgerInv, [Next]_vars PROVE TakesOnlyOwned
  <2> SUFFICES ASSUME Applied, NEW p \in Paths, fs'[p] # fs[p], fs[p] # Absent
               PROVE  Matches(p, fs, receipt) /\ fs[p] \in wrote[p]
    BY DEF TakesOnlyOwned
  <2>1. Matches(p, fs, receipt)
    <3>1. CASE saved.source \in Snapshots /\ Exports(saved.source)
      BY <1>1, <3>1, ExportEffect DEF Exports, ExportAllowed
    <3>2. CASE Uninstalls
      BY <1>1, <3>2, UninstallEffect
    <3> QED
      BY <1>1, <3>1, <3>2, AppliedIsApply
  <2> QED
    BY <1>1, <2>1 DEF Matches, LedgerInv, LedgerListsOnlyOwnBytes
<1>2. LedgerInv /\ [Next]_vars => [TakesOnlyOwned]_vars
  BY <1>1
<1> QED
  BY <1>2, LedgerInvariance, PTL DEF Spec, OnlyMatchingOwnedTaken

\* A finished export validates but for execute bits, and planning it again is
\* allowed and finds nothing to do.
THEOREM ExportsSettle == Spec => ExportSettles
<1>1. ASSUME LedgerInv, [Next]_vars PROVE Settles
  <2> DEFINE d == saved.source
  <2> SUFFICES ASSUME Applied, saved.kind = "export"
               PROVE  /\ Validates(fs', drift', receipt') \/ drift' \cap Listed(receipt') # {}
                      /\ ExportAllowed(d, fs', receipt')
                      /\ Touched(ExportOps(d, fs', receipt')) = {}
    BY DEF Settles
  <2>1. d \in Snapshots /\ Exports(d)
    BY <1>1, AppliedIsApply
  <2>2. /\ receipt' = d /\ d \in Ledgers /\ fs' \in Ledgers
        /\ \A p \in Listed(d) : fs'[p] = d[p]
    BY <1>1, <2>1, ExportEffect
  <2>3. Manifest \in Listed(d)
    BY <2>1, <2>2, SnapshotsAssumption, NoneAssumption DEF Listed
  <2>4. Validates(fs', drift', receipt') \/ drift' \cap Listed(receipt') # {}
    BY <2>2, <2>3 DEF Validates
  <2>5. \A p \in Listed(d) : Matches(p, fs', receipt')
    BY <2>2 DEF Matches
  <2>6. ExportOps(d, fs', receipt') = [p \in Paths |-> Keep]
    BY <2>2 DEF ExportOps, Matches
  <2>7. Touched(ExportOps(d, fs', receipt')) = {}
    BY <2>6, MarksAssumption DEF Touched, Writes, Deletes
  <2> QED
    BY <2>4, <2>5, <2>7 DEF ExportAllowed
<1>2. LedgerInv /\ [Next]_vars => [Settles]_vars
  BY <1>1
<1> QED
  BY <1>2, LedgerInvariance, PTL DEF Spec, ExportSettles

\* An uninstall leaves of the listed files those the owner modified, as they were,
\* and a receipt for exactly these.
THEOREM UninstallsRelease == Spec => UninstallReleases
<1>1. ASSUME LedgerInv, [Next]_vars PROVE Releases
  <2> SUFFICES ASSUME Applied, saved.kind = "uninstall"
               PROVE  /\ \A p \in Listed(receipt) : fs'[p] \in {Absent, fs[p]} \ {receipt[p]}
                      /\ Listed(receipt') = {p \in Listed(receipt) : fs'[p] # Absent}
    BY DEF Releases
  <2>1. Uninstalls
    BY <1>1, AppliedIsApply
  <2>2. /\ \A p \in Paths : fs'[p] = IF Matches(p, fs, receipt) THEN Absent ELSE fs[p]
        /\ Listed(receipt') = Modified(fs, receipt)
    BY <1>1, <2>1, UninstallEffect
  <2>3. \A p \in Listed(receipt) : p \in Paths /\ receipt[p] # Absent
    BY DEF Listed
  <2> QED
    BY <2>2, <2>3 DEF Matches, Modified
<1>2. LedgerInv /\ [Next]_vars => [Releases]_vars
  BY <1>1
<1> QED
  BY <1>2, LedgerInvariance, PTL DEF Spec, UninstallReleases
=============================================================================
