----------------------------- MODULE ExportTree -----------------------------
(***************************************************************************)
(* The vocabulary the export modules share: a target root as a function    *)
(* from paths to what lies there, and an export plan as one operation per  *)
(* path.  Paths are numbered by their rank in sorted order, because the    *)
(* exporter walks every collection of paths sorted.                        *)
(***************************************************************************)
EXTENDS Naturals

CONSTANTS
  Paths,     \* ranks of the paths a plan's preconditions mention
  Contents,  \* the byte strings a regular file may hold (stand for their hashes)
  Absent,    \* lstat raises FileNotFoundError
  Blocked,   \* a directory or a symlink: not a regular file
  Keep,      \* the plan leaves the path alone
  Remove     \* the plan deletes the path

ASSUME PathsAssumption == Paths \subseteq Nat

ASSUME MarksAssumption ==
  /\ {Absent, Blocked, Keep, Remove} \cap Contents = {}
  /\ Absent # Blocked
  /\ Keep # Remove

Nodes == Contents \cup {Absent, Blocked}
Trees == [Paths -> Nodes]
Operations == [Paths -> Contents \cup {Keep, Remove}]

Writes(ops) == {p \in Paths : ops[p] \in Contents}
Deletes(ops) == {p \in Paths : ops[p] = Remove}
Touched(ops) == Writes(ops) \cup Deletes(ops)

\* Mutant of After: a delete is taken for a write.
AfterWritesOnly(ops, tree) ==
  [p \in Paths |-> IF p \in Touched(ops) THEN ops[p] ELSE tree[p]]

\* What a plan promises of the tree it was previewed on.
After(ops, tree) ==
  [p \in Paths |-> IF p \in Writes(ops) THEN ops[p]
                   ELSE IF p \in Deletes(ops) THEN Absent
                   ELSE tree[p]]

\* plan_export only writes bytes that differ and only deletes existing files.
Plannable(ops, tree) ==
  /\ \A p \in Paths : tree[p] # Blocked
  /\ \A p \in Writes(ops) : ops[p] # tree[p]
  /\ \A p \in Deletes(ops) : tree[p] \in Contents

\* The next path of a sorted walk, and of a walk in reverse.
IsFirst(p, S) == p \in S /\ \A q \in S : p <= q
IsLast(p, S) == p \in S /\ \A q \in S : q <= p
=============================================================================
