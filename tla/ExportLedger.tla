---------------------------- MODULE ExportLedger ----------------------------
(***************************************************************************)
(* Ownership by receipt: what plan_export and plan_uninstall_export allow, *)
(* and what happens to the target root when previews are applied, directly *)
(* or through the CLI, while its owner edits files between the calls.      *)
(*                                                                         *)
(* An apply is one atomic step here, as AtomicExport promises and          *)
(* ExportTxn shows; a failed one changes nothing.  Contents stand for      *)
(* hashes, a receipt maps every path to the hash it lists or to Absent,    *)
(* and the receipt file is kept apart from the tree it speaks of.          *)
(***************************************************************************)
EXTENDS ExportTree

CONSTANTS
  Manifest,   \* the path of the canonical manifest
  Snapshots,  \* what the exporter may be asked to render: path -> bytes
  NoReceipt,
  NoPlan

ASSUME SnapshotsAssumption ==
  /\ Manifest \in Paths
  /\ \A d \in Snapshots : /\ d \in [Paths -> Contents \cup {Absent}]
                          /\ d[Manifest] # Absent

Ledgers == [Paths -> Contents \cup {Absent}]

Plans ==
  [kind : {"export", "uninstall"}, source : Ledgers, ops : Operations,
   ledger : Ledgers \cup {NoReceipt}, relists : BOOLEAN,
   tree : Ledgers, receipt : Ledgers \cup {NoReceipt}, scope : SUBSET Paths]

ASSUME NoneAssumption == NoReceipt \notin Ledgers /\ NoPlan \notin Plans

VARIABLES
  fs,       \* the tree
  drift,    \* files whose execute bit is not the one a snapshot gives them
  receipt,  \* the installed export receipt
  saved,    \* the confirmed preview
  wrote     \* history: the bytes the exporter ever put at each path

vars == <<fs, drift, receipt, saved, wrote>>

Listed(ledger) ==
  IF ledger = NoReceipt THEN {} ELSE {p \in Paths : ledger[p] # Absent}

Matches(p, tree, ledger) == p \in Listed(ledger) /\ tree[p] = ledger[p]

-----------------------------------------------------------------------------
(* Planning: plan_export. *)

\* No unowned collision and no modified owned file among the desired paths.
ExportAllowed(d, tree, ledger) ==
  \A p \in Listed(d) : tree[p] # Absent => Matches(p, tree, ledger)

\* Mutant of ExportOps: deletes what the receipt lists, modified or not.
ExportOpsUnmatched(d, tree, ledger) ==
  [p \in Paths |->
     IF p \in Listed(d)
       THEN IF tree[p] = d[p] THEN Keep ELSE d[p]
       ELSE IF p \in Listed(ledger) /\ tree[p] # Absent THEN Remove ELSE Keep]

\* Mutant of ExportOps: takes a listed file for an up-to-date one.
ExportOpsNewOnly(d, tree, ledger) ==
  [p \in Paths |->
     IF p \in Listed(d)
       THEN IF p \in Listed(ledger) /\ tree[p] # Absent THEN Keep ELSE d[p]
       ELSE IF Matches(p, tree, ledger) THEN Remove ELSE Keep]

\* Write what differs; delete what is owned, no longer desired and unmodified.
ExportOps(d, tree, ledger) ==
  [p \in Paths |->
     IF p \in Listed(d)
       THEN IF tree[p] = d[p] THEN Keep ELSE d[p]
       ELSE IF Matches(p, tree, ledger) THEN Remove ELSE Keep]

ExportPlan(d, tree, ledger) ==
  [kind |-> "export", source |-> d, ops |-> ExportOps(d, tree, ledger),
   ledger |-> d, relists |-> ledger # d,
   tree |-> tree, receipt |-> ledger, scope |-> Listed(d) \cup Listed(ledger)]

(* Planning: plan_uninstall_export. *)

UninstallAllowed(tree, ledger) == Matches(Manifest, tree, ledger)

Modified(tree, ledger) ==
  {p \in Listed(ledger) : tree[p] \notin {Absent, ledger[p]}}

\* Mutant of Reduced: the reduced receipt takes the current hashes.
ReducedRehashed(tree, ledger) ==
  IF Modified(tree, ledger) = {}
    THEN NoReceipt
    ELSE [p \in Paths |-> IF p \in Modified(tree, ledger) THEN tree[p] ELSE Absent]

\* Mutant of Reduced: the receipt is always deleted.
ReducedNever(tree, ledger) == NoReceipt

Reduced(tree, ledger) ==
  IF Modified(tree, ledger) = {}
    THEN NoReceipt
    ELSE [p \in Paths |-> IF p \in Modified(tree, ledger) THEN ledger[p] ELSE Absent]

UninstallPlan(tree, ledger) ==
  [kind |-> "uninstall", source |-> ledger,
   ops |-> [p \in Paths |-> IF Matches(p, tree, ledger) THEN Remove ELSE Keep],
   ledger |-> Reduced(tree, ledger), relists |-> TRUE,
   tree |-> tree, receipt |-> ledger, scope |-> Listed(ledger)]

\* The plan file and plan_id cover the operations, not the preconditions.
Public(plan) == <<plan.kind, plan.source, plan.ops, plan.ledger, plan.relists>>

\* _assert_preconditions
Unchanged(plan, tree, ledger) ==
  /\ ledger = plan.receipt
  /\ \A p \in plan.scope : tree[p] = plan.tree[p]

-----------------------------------------------------------------------------
Init ==
  /\ fs \in [Paths -> Contents \cup {Absent}]
  /\ drift = {}
  /\ receipt = NoReceipt
  /\ saved = NoPlan
  /\ wrote = [p \in Paths |-> {}]

PlanExport(d) ==
  /\ ExportAllowed(d, fs, receipt)
  /\ saved' = ExportPlan(d, fs, receipt)
  /\ UNCHANGED <<fs, drift, receipt, wrote>>

PlanUninstall ==
  /\ UninstallAllowed(fs, receipt)
  /\ saved' = UninstallPlan(fs, receipt)
  /\ UNCHANGED <<fs, drift, receipt, wrote>>

\* The transaction of a plan whose checks have passed.
Perform(plan) ==
  /\ fs' = After(plan.ops, fs)
  /\ drift' = drift \ Touched(plan.ops)
  /\ receipt' = plan.ledger
  /\ wrote' = [p \in Paths |-> IF p \in Writes(plan.ops)
                                 THEN wrote[p] \cup {plan.ops[p]} ELSE wrote[p]]
  /\ saved' = NoPlan

\* apply_export, apply_uninstall_export on the prepared object itself.
ApplyPrepared ==
  /\ saved # NoPlan
  /\ Unchanged(saved, fs, receipt)
  /\ Perform(saved)

\* run_cli apply: plan again from the same inputs, compare with the plan file,
\* and apply the fresh plan with its fresh preconditions.
ApplyCli ==
  /\ saved # NoPlan
  /\ \/ /\ saved.kind = "export"
        /\ ExportAllowed(saved.source, fs, receipt)
        /\ LET fresh == ExportPlan(saved.source, fs, receipt)
           IN  Public(fresh) = Public(saved) /\ Perform(fresh)
     \/ /\ saved.kind = "uninstall"
        /\ UninstallAllowed(fs, receipt)
        /\ LET fresh == UninstallPlan(fs, receipt)
           IN  Public(fresh) = Public(saved) /\ Perform(fresh)

\* The owner of the root at work: writes or deletes a file, changes its mode,
\* deletes the receipt.
OwnerWrites(p, c) ==
  /\ fs' = [fs EXCEPT ![p] = c]
  /\ drift' = IF c = Absent THEN drift \ {p} ELSE drift
  /\ UNCHANGED <<receipt, saved, wrote>>

OwnerChmods(p) ==
  /\ fs[p] # Absent
  /\ drift' = (drift \cup {p}) \ (drift \cap {p})
  /\ UNCHANGED <<fs, receipt, saved, wrote>>

OwnerDropsReceipt ==
  /\ receipt # NoReceipt
  /\ receipt' = NoReceipt
  /\ UNCHANGED <<fs, drift, saved, wrote>>

Next ==
  \/ \E d \in Snapshots : PlanExport(d)
  \/ PlanUninstall
  \/ ApplyPrepared
  \/ ApplyCli
  \/ \E p \in Paths, c \in Contents \cup {Absent} : OwnerWrites(p, c)
  \/ \E p \in Paths : OwnerChmods(p)
  \/ OwnerDropsReceipt

Spec == Init /\ [][Next]_vars

-----------------------------------------------------------------------------
\* validate_installed_export, the checks that do not look into the files.
Validates(tree, modes, ledger) ==
  /\ Manifest \in Listed(ledger)
  /\ \A p \in Listed(ledger) : tree[p] = ledger[p] /\ p \notin modes

Applied == saved # NoPlan /\ saved' = NoPlan

TypeOK ==
  /\ fs \in Ledgers
  /\ drift \subseteq Paths
  /\ receipt \in Ledgers \cup {NoReceipt}
  /\ saved \in Plans \cup {NoPlan}
  /\ wrote \in [Paths -> SUBSET Contents]

\* A receipt is an ownership ledger: every hash in it is of bytes the exporter
\* itself wrote at that path, through any sequence of re-exports, modified
\* files, partial uninstalls and deleted receipts.
LedgerListsOnlyOwnBytes ==
  \A p \in Listed(receipt) : receipt[p] \in wrote[p]

TakesOnlyOwned ==
  Applied =>
     \A p \in Paths : fs'[p] # fs[p] /\ fs[p] # Absent =>
       Matches(p, fs, receipt) /\ fs[p] \in wrote[p]

\* Whatever a re-export or uninstall overwrites or deletes was listed with its
\* current hash and written by the exporter: an edit made at any time before
\* the apply, the owner's own files included, survives it.
OnlyMatchingOwnedTaken == [][TakesOnlyOwned]_vars

Settles ==
  Applied /\ saved.kind = "export" =>
       /\ Validates(fs', drift', receipt') \/ drift' \cap Listed(receipt') # {}
       /\ ExportAllowed(saved.source, fs', receipt')
       /\ Touched(ExportOps(saved.source, fs', receipt')) = {}

\* A finished export validates, unless the owner changed the mode of a file the
\* export had no reason to write; and planning the same snapshot again is
\* allowed and has nothing to do.
ExportSettles == [][Settles]_vars

Releases ==
  Applied /\ saved.kind = "uninstall" =>
       /\ \A p \in Listed(receipt) : fs'[p] \in {Absent, fs[p]} \ {receipt[p]}
       /\ Listed(receipt') = {p \in Listed(receipt) : fs'[p] # Absent}

\* An uninstall leaves of the listed files only those the owner modified, each
\* as it was, and keeps a receipt exactly for them.
UninstallReleases == [][Releases]_vars
=============================================================================
