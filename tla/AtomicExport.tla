---------------------------- MODULE AtomicExport ----------------------------
(***************************************************************************)
(* What apply_export and apply_uninstall_export promise: a transaction     *)
(* opens only on the very tree that was previewed, and then the whole plan *)
(* takes effect in one step or none of it does.                            *)
(***************************************************************************)
EXTENDS ExportTree

CONSTANT NoPreview

VARIABLES
  tree,     \* the user's files, as they are or as they can be recovered
  preview,  \* the confirmed preview: its operations and the tree it was made on
  open      \* a transaction has begun and is neither committed nor undone

vars == <<tree, preview, open>>

Previews == [ops : Operations, tree : Trees]

Init ==
  /\ tree \in Trees
  /\ preview = NoPreview
  /\ open = FALSE

Preview(ops) ==
  /\ ~open
  /\ Plannable(ops, tree)
  /\ preview' = [ops |-> ops, tree |-> tree]
  /\ UNCHANGED <<tree, open>>

Begin ==
  /\ ~open
  /\ preview # NoPreview
  /\ tree = preview.tree
  /\ open' = TRUE
  /\ UNCHANGED <<tree, preview>>

Commit ==
  /\ open
  /\ tree' = After(preview.ops, tree)
  /\ open' = FALSE
  /\ UNCHANGED preview

Undo ==
  /\ open
  /\ open' = FALSE
  /\ UNCHANGED <<tree, preview>>

Edit(p, node) ==
  /\ ~open
  /\ tree' = [tree EXCEPT ![p] = node]
  /\ UNCHANGED <<preview, open>>

Next ==
  \/ \E ops \in Operations : Preview(ops)
  \/ Begin
  \/ Commit
  \/ Undo
  \/ \E p \in Paths, node \in Nodes : Edit(p, node)

Spec == Init /\ [][Next]_vars
=============================================================================
