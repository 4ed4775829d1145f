# TLA+ verification of cheeky-squad-os

cheeky-squad-os generates a "squad" of roles for Claude Code and Codex, supervises it
with hooks and shell scripts over files in `.squad/`, and exports it to other machines
with a Python command, `squad-export`. This directory models the export engine, from the
contracts it loads to the file system calls it makes, and the squad at work in one
project: the permission hook, the worktrees, the belief ledger, the escalations.

Paths below are relative to the repository root (`src/` of this workspace); the Python
package is `src/cheeky_squad_portability/`.

## 1. Inventory

| Component | State | Operations | What is hard | What makes it correct |
| --- | --- | --- | --- | --- |
| Export transaction (`exporter.py`, `_atomic_apply` and around) | the target root, `.squad-export-txn-*` directories, the lists `backed_up` and `installed` | precondition check, stage, back up, install, roll back, remove | exceptions at every call, kills, a failing rollback, two exporters, an owner who keeps editing; no lock | all or nothing; originals recoverable at any instant; the caller is told the truth |
| Export planning, receipts, CLI (`exporter.py`, `plan.py`, `receipt.py`, `cli.py`) | the receipt, saved plan files | plan, apply, validate, plan uninstall, uninstall | stale previews, modified files, partial uninstalls, deleted receipts | never overwrite or delete what the exporter did not write; a receipt stays a true ledger |
| Belief ledger (`skills/squad-world/scripts/world.sh`) | none of its own: reads `.squad/world/claims-<owner>.md` | parse, reject, detect conflicts, project | two passes whose order matters, last-line-wins fields, derived in two scripts | the two scripts agree; a malformed block hides no good one |
| Verification report (`skills/squad-verify/scripts/verify.sh`) | none: reads roster, goal, records, ledger | signals, owned files, escalations, conflicts | the same numbers derived elsewhere | agrees with `world.sh` and `session-start.sh` |
| Session and prompt hooks (`hooks/session-start.sh`, `hooks/user-prompt-submit.sh`) | none | goal injection, escalation notice | two parsers of one front matter | an open escalation is never silent |
| Permission hook (`hooks/permission-request.sh`) | reads roster, role maps, records at each request | allow, or defer to the human | state read at call time; order of the gates | a role writes its scope and its own contract files only, after it has published a record |
| Spawn and collect (`skills/squad-spawn/scripts/spawn.sh`) | worktrees, root copies of records | prepare, collect | modification times decide which copy wins | no record is lost |
| Provisioning (`skills/squad-env/scripts/provision.sh`) | workspaces, links, copies | provision, repeat | a second run over the first one's result | idempotent, counts are true |
| Dispatch workflow (`templates/squad-dispatch.workflow.js`) | results of concurrent agents | fan out, synthesize | agents that throw | every role counted once |
| Contracts, migration, namespaces (`contracts.py`, `migration.py`, `namespace.py`) | none | parse, validate, migrate, derive identifiers | what is accepted here is rendered, written, loaded and hashed again elsewhere; bounded identifiers | what loads can be exported and read back; identifiers of different squads differ |
| Provider adapters, runtime bundle (`adapters/`, `runtime.py`) | none | render agents, skills, plugins; collect files | the same decision taken per provider and again by the exporter | the providers agree; no live value gets out; hooks registered are hooks shipped |
| Skills, templates, examples | prose | interpreted by a language model | - | - |

Interactions: the CLI calls planner and transaction in one process; processes meet only
in the file system. The hooks and scripts share `.squad/`: roles write records and
claims through the permission hook, `spawn.sh collect` copies them from worktrees,
`world.sh`, `verify.sh` and `session-start.sh` read them.

## 2. Modules

| Module | Models | Stands on |
| --- | --- | --- |
| `ExportTree` | the shared vocabulary: nodes of a root, operations of a plan, sorted walks | - |
| `AtomicExport` | the promise: a confirmed preview takes effect whole or not at all, on the tree it was made on | `ExportTree` |
| `ExportTxn` | one exporter process, one file system call per step | `ExportTree`, refines `AtomicExport` |
| `ExportTxn_proofs` | the theorems about `ExportTxn` | `ExportTxn`, `TLAPS` |
| `ExportRace` | two instances of `ExportTxn` and the owner of the files on one root | `ExportTxn` |
| `ExportRace_proofs` | the theorems about `ExportRace` | `ExportRace`, `TLAPS` |
| `ExportLedger` | which plans the receipt allows, and every sequence of plan, apply, uninstall and edit | `ExportTree` |
| `ExportLedger_proofs` | the theorems about `ExportLedger` | `ExportLedger`, `TLAPS` |
| `Namespaces` | `namespace.py`: escaped, bounded provider identifiers | - |
| `Namespaces_proofs` | the theorems about identifiers, for texts of any length | `Namespaces`, `TLAPS` |
| `SquadContracts` | `contracts.py`, `migration.py`: which documents load, what they load to | - |
| `SquadCompilers` | `adapters/`, `runtime.py`: the artifacts of both providers | `SquadContracts`, `Namespaces` |
| `SquadExport` | `plan_export` from documents to files, installation, validation and removal of several squads over the same roots | `SquadCompilers` |
| `SquadExport_proofs` | the theorems about `SquadExport` | `SquadExport`, `Namespaces_proofs`, `TLAPS` |
| `WorldLedger` | the claims files of `.squad/world`, how `world.sh` reads and projects them, how `verify.sh` counts disputes again | - |
| `WorldLedger_proofs` | the theorems about `WorldLedger` | `WorldLedger`, `TLAPS` |
| `Engagement` | a squad at work: `permission-request.sh`, `spawn.sh`, rulings, parked squads, installed snapshots | - |
| `Engagement_proofs` | the theorems about `Engagement` | `Engagement`, `TLAPS` |
| `Escalation` | engagement records, `verification.md` and the two scripts that derive from them which escalations are open: `verify.sh` and `session-start.sh` | - |
| `Escalation_proofs` | the theorems about `Escalation` | `Escalation`, `TLAPS` |
| `MC...` | the small sets the configurations use | the module named after |

`ExportTxn`, `ExportLedger` and `SquadExport` are three views of one command, each
taking the next finer one as a single step: the calls of one transaction; the previews,
receipts and the owner's edits; the rendered files and their meaning. The refinement of
`AtomicExport` is what lets the coarser two take an apply as one step.

### From the code to `ExportTxn`

| Code | Model |
| --- | --- |
| files under the root listed in the preconditions | `fs`, a function from path ranks to bytes, `Absent` or `Blocked` (a directory or a symlink) |
| `mkdtemp`, `rmtree` of `.squad-export-txn-*` | `dirs`; its `backup/` subtree is `backup` |
| `PreparedExport`, `PreparedUninstall` | `preview`: the operations and the tree they were planned on |
| local lists `installed`, `backed_up` | sets of the same names: order is the sorted order, so a reversed list is a walk from the last path |
| position in `apply_export` / `_atomic_apply` | `pc`, and `todo` for the loop in progress |
| `os.replace`, then `append` | two actions (`BackupMove`, `BackupRecord`; `InstallMove`, `InstallRecord`) |
| an exception from a call or a fault hook | `Interrupt`, `MeetBlocked`; between the two actions `SplitRename` (only with `GapFaults`, which stands for exceptions between a call's effect and the next statement) |
| an exception inside `except BaseException` | `HandlerFails`: the directory stays |
| `rmtree(ignore_errors=True)` | `Clean`: removes the directory or any part of its backup |
| `rmtree` after the commit | `Purge` file by file, `PurgeDone`; `PurgeFails` before its end or, with `GapFaults`, behind it |
| SIGKILL, power loss | `Crash`: memory goes, disk stays (renames are taken to be durable in order) |
| "requires manual review" | `ManualReview` (external): puts the backups back if the transaction had not committed, else accepts the root, and removes the directory |

`landed`, `committed` and `slipped` are history: they say what a reviewer could see from
the directory or what the properties need, and no guard of the program reads them.
`preview` survives the end of a call because a caller may try the same prepared object
again. Mode bits, parent directories and the staged copies are left out: staging writes
only below the transaction directory.

`ExportLedger` abstracts an apply to one step. That is what the refinement of
`AtomicExport` justifies; a failed apply changes nothing there. Contents stand for
SHA-256 hashes, a snapshot for a manifest, roster and compiler output, and the receipt
for its path-to-hash table. The mode bit appears only as `drift`, the set of files
whose mode is not the one a snapshot gives them; the snapshots do not disagree about
modes. `ApplyPrepared` is the library call with the prepared object; `ApplyCli` is
`squad-export apply` (or `uninstall` with a plan ID), which plans again and compares.

### From the package to `SquadExport`

A draft is a manifest and a roster document as an author may write them. An optional key
holds `{}` or `{value}`, since an absent key and `null` load alike; texts are classes:
`Blank` for what `.strip()` empties, `Unsafe` for what `_relative_path` refuses. A path is a
sequence of names and a name a sequence of tokens, so that `a` with role `role-x` and
`a-role` with role `x` can meet in one identifier, as they could in the code.

| Code | Model |
| --- | --- |
| `SquadManifest`, `Roster`, `Role`, ... `.from_dict` and `__post_init__` | `ManifestLoads`, `RosterLoads`, `RoleLoads`, ...: which documents are accepted; `RosterLoaded`: what they become |
| `migrate_legacy_roster`, `load_roster` | `Migrates`, `Migrated`, `Loads`, `Loaded` |
| `_bounded_identifier`, `provider_namespace`, `provider_role_id`, ... | `Bounded`, `ProviderNamespace`, `ProviderRoleId`, ...; the digest is the constant `Digest`, under the assumption of section 4 |
| `compile_claude_agents`, `compile_claude_plugin`, `compile_codex_agents`, ... | `ClaudeAgents`, `ClaudePlugin`, `CodexAgents`, ...: sets of a path and a content; `...Compiles`: what the adapter refuses |
| `_portable_roster_dict`, `_context_snapshot`, `_render_desired_files` | `PortableRoster`, `ContextIndex`, `ContextBodies`, `Desired` |
| `_validate_artifacts` and its helpers | `ArtifactsValid` |
| `_source_hash`, the receipt's table | the hashed value itself |
| `plan_export` + `apply_export`, on one root | `Export`: target check, collisions, obsolete files, writes, receipt |
| `plan_uninstall_export` + `apply_uninstall_export` | `Uninstall` |
| `validate_installed_export` | `Validates` |
| a session export | `Prompts`: nothing on disk |

A content is a record of what the artifact tells its reader: an agent its identifier,
tools, sandbox and instructions; an index its entries; a copied script its source path.
A source tree whose license is not the exporter's
(`LicenseAgrees`) refuses every plugin; the run has the repository's, which is. Wording and
layout are left out. So is the scan of the rendered text for placeholders
and private absolute paths, which works on characters. `truth` is history: the goals at
an installed export's last planning, against which the index is judged.

### From the hook and the scripts to `Engagement`

The state is the files: `files[place][path]`, where a place is the project root or the
worktree of a role. A file is who wrote it, its modification time, the squads whose
beliefs it holds, and which of them are marked superseded. `checkout` is the roster a
worktree stands on, `head` the roster and the ledgers of the last commit. `rulings` and
`brought` are history: the rulings that nothing has undone yet, and whether the last
collect can be held to what it promises.

| Code | Model |
| --- | --- |
| `consider_role_map`, the role lookup (`permission-request.sh:218-296`) | `Visible`, `Answers`, `Sound`, `Bound` |
| `has_engagement_record`, `squad_grant` | `HasRecord`, `OwnGrant`, `Reserved`, `SquadGrant` |
| the Edit/Write branch, the Bash branch | `WriteApproved`, `ScaffoldApproved` |
| an approved call, carried out | `RoleWrites`, `RoleScaffolds` |
| `spawn.sh`, the clearing that precedes it (`squad-spawn`) | `Dispatch`: `git worktree add -B` checks out `head`, with the time of the checkout |
| `spawn.sh collect` | `StartCollect`, then per artifact `CopyArtifact`, `SkipArtifact` or `CopyFails`; `CollectDies` |
| adjudication, `git commit`, parking, onboarding and switching, snapshots (skills, the human) | `Rules`, `Commit`, `Park`, `TakeUp`, `Install` (external) |

What is simplified:

* A role's scope is the set of targets its globs match. `..`, symlinks and paths outside
  the place are `Unprovable`: the hook defers them after its own checks.
* `touch` stands for the four verbs of the Bash branch; with one or two operands.
* A `.squad/manifest.json` at the root and a plugin's own roster as last fallback are left
  out, and so are project snapshots that are committed and therefore visible in a
  worktree.
* Times matter for records and ledgers only, the two artifacts that are collected; other
  files keep the time 0. A copy carries its time (`cp -p`).
* Collect takes its artifacts in the roster's order; the model leaves the order open,
  since no artifact's outcome depends on another's.
* The hook approves a write by its path: a role may write anything into its own ledger,
  and `Written` allows that, beliefs and marks dropped included. `Undone` takes from
  `rulings` what such a write can undo.
* A commit takes the roster and any of the ledgers. Other committed files (records,
  outboxes, deliverables) would be checked out too and are left out, and so are merges of a
  worktree's branch. A repository without a commit of `.squad/` is one in which `Commit`
  does not happen.
* Requests of roles come while a squad is active. That no collect runs while a squad is
  parked or dispatched is the skill's sequence; that the collect's source may be written
  meanwhile is not excluded.

### From the scripts to `WorldLedger`

The state is the claims files, each a sequence of lines (a field and its trimmed
value); the scripts keep none and are operators on it. `Starts`, `LinesOf` and `FieldOf`
say declaratively what the two `awk` parsers do line by line: a block runs from its
heading to the next heading of any level, and a later line of a field replaces an
earlier one. `WorldStatus` and `VerifyStatus` are the two readings of the status field,
`Reasons` is pass 1 of `world.sh`, `Duplicated` pass 2, `WorldLive` its projection,
`Index` what `--index` prints; `VerifyValid`, `VerifyLiveKeys` and `VerifyConflicts` are
`parse_claims_file`, `claims_live_keys` and the count of `verify.sh`. The actions are
other people's: an owner adds a chunk (`AppendChunk`), the human edits a status line
(`SetStatus`), `squad-goal` parks the ledger (`Park`). `Word` gives the part of a key
before its first blank, which is all that `awk '{print $2}'` keeps of it. The 80-byte
cut of an index line, keys that begin with a dash and a file named `claims-.md` are left
out (`world.sh` skips such a file, `verify.sh` counts it as an owner without a name).

### From the scripts to `Escalation`

The state is the files again: a role's record is the status lines of its frontmatter,
`verification.md` those lines of its frontmatter that can bear on
`resolved_escalations`. A line keeps its kind, the roles it brings and its form: indented
(`plain`) or at column 0 (`flush`), quoted, with a comment, without a blank after the dash
(`tight`), an empty item (`blank`), a bracket that is not closed (`open`).

| Code | Model |
| --- | --- |
| `frontmatter_field`, `resolved_escalation_roles`, the set difference (`verify.sh:264`, `423`, `577`) | `Escalated`, `Resolved`, `Open` |
| `frontmatter_of` and the `grep` after it, `role_resolved`, `open_escalation_count` (`session-start.sh:135-210`) | `EscalatedAtStart`, `ResolvedAtStart`, `Noticed` |
| a role's record, written or collected; its clearing before a dispatch | `Publish`, `Dispatch` |
| `squad-verify`, steps 2.5 to 6: prior list carried over, rulings added | `ToRule`, `Verify` (external) |
| a list edited by hand or cut short | `Lose` (external) |
| deactivation, parking, switching | `Toggle`, `Park`, `TakeUp` (external) |

Neither script keeps a state, so neither is an action: both are read in every state. `ruled`
is history, a squad and a role whose present escalation was ruled on while the ruling is
still on file. A follow-on dispatch clears nothing and is a stuttering step. Left out: a
file whose frontmatter is never closed (both scripts then read its body too), and the
gate before the notice, which in a project with another runtime's export manifest makes
the hook silent altogether.

## 3. Runs

| Run | Question | Bounds |
| --- | --- | --- |
| `ExportTxn_clean` | Do recoverability, truthful outcomes and the refinement hold when exceptions strike between recorded operations, rollbacks fail, processes are killed, calls are retried? | 2 paths, 2 contents |
| `ExportTxn_gap` | What is left of that when an exception may also split a rename from its record? Is `TxnInv` an invariant? Does every call end? | same, `GapFaults`, `FairSpec` |
| `ExportRace` | What survives when a second exporter and the owner move between any two calls? | 1 path, 2 contents, each exporter applies once |
| `ExportLedger` | Do ownership and settlement hold over every sequence of calls and edits? | 3 paths (1 is the manifest), 3 snapshots, 3 contents, one of them never the exporter's |
| `WorldLedger` | Do the two scripts agree, and does nothing malformed hide what is well formed? | 2 owners, one of them `research`, 2 keys, 12 lines a file, 6 chunks (complete, without status, mistyped status, cut, stray field under a heading), both caps 1 |
| `SquadExport` | Is what is installed valid, reproducible, owned once, in nobody's way and free of live values, over every sequence of exports and uninstalls? | 32 drafts, 15 of them refused; 3 states of the goal files; a home directory and a repository; 2 receipts at a time; namespaces of 5 and identifiers of 14 tokens |
| `Engagement` | Do records, ledgers, rulings and scopes stay whose they are? | one squad: `x` in a worktree with a sandbox, `y` at the root with `.squad/world` as its workspace; 2 snapshots that name the same agent; 7 targets; 2 clock values; commits of the roster with any of the two ledgers |
| `Escalation` | Do the two scripts agree on what is open, and is an escalation closed by rulings only? | 2 squads that share a role name, 2 roles; 6 records, 12 verification files, one for each spelling that a script treats apart |
| `ExportTxn_lost`, `WorldLedger_blank_key`, `Engagement_ledgers`, `Escalation_stale` | the documented statements of section 5 | as above; `Engagement_ledgers` with two squads, `Escalation_stale` with plain spellings only |

Why the bounds are enough: the loops of the transaction treat paths one after the other
and never compare two of them, so two paths give every case of "one done, one in
progress, one to come" but the last; write, delete and kept paths occur in every
combination over the previews. Two contents tell "the original", "the new" and "a
foreign" file apart at a path whose original is absent or one of the two. In the ledger
three paths separate the manifest, a file in every snapshot and a file in some. Twelve
lines hold two complete blocks, or a complete, a cut and a stray one; a
self-contradiction and a dispute need two blocks, and one more file than two changes
nothing in a count that asks for "at least two". The drafts of `SquadExport` are chosen
by rule: for each rule of the contracts, the adapters and the exporter one draft that
breaks it, and accepted ones for each destination, provider, runtime owner, legacy form
and override; pairs of squads are built so that their identifiers would coincide without
escaping or without the digest. Two installed exports show every interference, since
each property relates at most two. In `Engagement` a time is newer, equal or older, for
which two values suffice; one role that is collected and one that is not give all
placements. In `Escalation` a list is about one role at a time, and two roles give every
named-and-not-named pair; a second squad with one of the names gives every confusion of
two squads. The theorems of section 4 hold without any of these bounds; what rests on them
alone is named at that section's end.

Fairness: `FairSpec` asks that a process whose next step is enabled is scheduled (weak
fairness of forward and handler steps together). Callers, faults, kills and people owe
nothing. The loops run over finite sets, so this suffices for `ApplyReturns`.

Every specification lets each of its states be left (a preview may be made, a file
edited, the ledger parked again, a snapshot installed or removed), so deadlock checking
stays on.

What the properties say, and why they are worth a run:

* `Recoverable`: until the commit the previewed tree can be rebuilt from root and
  directory, at every instant. It takes the order back up, record, install, unlink,
  restore, remove to be right in each of its steps.
* `OutcomeTruthful`: a normal return means the plan is on disk; an exception means that
  the files are as previewed, or that the directory is there to stop the next call, or, if
  it struck behind the commit, that the plan is on disk.
* `ImplementsAtomicExport`: with `tree <- Recovered` and `open <- Undecided` the
  transaction is one `Begin` on the previewed tree and one `Commit` or `Undo`. After a
  kill or a failed rollback the abstract transaction stays open until the review.
* `CheckedEditsSurvive`: the recheck without a lock protects what was changed before its
  path was read, and nothing more; the window is the subject of a finding.
* `NothingLeftInRemovedBackup`: a failed call that takes its directory away has put
  back everything it moved, the others' late files included.
* `LedgerListsOnlyOwnBytes`, `OnlyMatchingOwnedTaken`: a receipt lists hashes of bytes
  the exporter wrote at that path, and nothing else is ever overwritten or deleted.
* `ExportSettles`: a finished export validates and planning it again does nothing, but
  for files whose mode was changed: a re-export compares contents only.
* `UninstallReleases`: a partial uninstall leaves the modified files and a receipt for
  exactly those.
* `InstalledValidates`: what was written is what `validate_installed_export` recomputes
  from the installed files alone; the hash over the portable roster must be the one over
  the live roster.
* `ReproducesItself`: the installed manifest and roster, exported again with the same
  goals, give the same files: nothing but the goals is lost on the way.
* `OneOwnerEach`, `Unhindered`: re-exports leave no orphan, no file has two owners, and
  no squad is refused because of what another one installed.
* `AgentsResolve`: the installed Claude agents, the role map next to the manifest and the
  active roles of the roster say the same; the permission hook binds by them.
* `NothingLive`: values of variables, context sources and install commands reach no file
  and no prompt, whichever of the five renderers writes the role.
* `RegisteredHooksRunnable`: hooks are vendored, registered and made executable in three
  places; a plugin registers exactly those it ships, and they can run.
* `ContextTruthful`: the index calls a goal included exactly if the installed body is the
  goal as it was at the last export.
* `AdaptersAgree`: a role writes for one provider exactly if it does for the other, unless
  an override or a tool without a portable capability says otherwise.
* `AuthorsAreOwners`: whatever workspaces and scopes a roster declares, and through
  collects, parking and switching back, a record, outbox or ledger is by the role it is
  named after, and no role wrote the goal, the roster or the human's ledger.
* `DecisionsWithinMandate`: two snapshots that claim one agent, appearing and vanishing
  while roles work, never widen what is approved.
* `OnlySandboxUnrecorded`: before its record a role leaves nothing in its worktree
  outside `.squad`, and there nothing but files of a workspace of its own. A workspace
  outside `.squad` waits for the record, on both surfaces; one under `.squad` does not,
  against the hook's header (section 5).
* `CollectBrings`: a collect that reported no error has left no newer artifact behind,
  unless a role wrote since it began.
* `RulingsStand`: the human's ruling stays in the ledger of its squad, at the root or
  parked, through dispatches, collects that fail or die, copies in old worktrees, parking
  and switching. Two things can undo it, and the property names them: the role writing
  that ledger (`Undone`), and a worktree made from a commit that has the ledger without
  the mark, whose files are as new as the checkout (`Missing`; section 5).
* `ScriptsAgree`: the disputes `verify.sh` counts are those `world.sh` shows (with status
  lines that have a value, see section 5).
* `OnlyContradictionsRefused`: an owner's two live beliefs under one key are both left
  out, and no other well-formed belief is.
* `MalformedHidesNothing`: appending blocks that fail the field checks changes nothing
  that is projected: it neither hides a neighbour nor completes one.
* `ProjectionComplete`: every live belief is an index line, counted by a tail, or part
  of a dispute that is shown or counted.
* `NoticeMatchesCount`: of files spelt as the templates have it, an escalation that blocks
  the verdict is never passed over at the session's start; and what is told beyond the
  count has one of four reasons.
* `RulingsCount`: a ruling on file is subtracted, however often the list is copied, in any
  of its accepted spellings, parked and taken up. Its mutant is a bug this code once had
  (`CHANGELOG.md:250`).
* `OnlyRulingsClose`: within a squad nothing but the role's own record, its dispatch or
  deactivation, or the human's ruling closes an escalation. One exception is in the
  property: an old line that could not be read until the list was rewritten.

## 4. Proofs

`ExportTxn_proofs` proves, for every set of natural-number paths and every set of
contents (assumptions `PathsAssumption`, `MarksAssumption`, `GapFaultsAssumption`,
`NoPreviewAssumption`: the marks are distinct and are not contents or previews):

| Theorem | Says |
| --- | --- |
| `Invariance` | `Spec => []TxnInv` |
| `TypeCorrectness` | `Spec => []TypeOK` |
| `OriginalsRecoverable` | `Spec => []Recoverable` |
| `OutcomesAreTruthful` | `Spec => OutcomeTruthful` |
| `Refinement` | `~GapFaults` implies `Spec => ImplementsAtomicExport` |

`Recoverable` alone is not inductive: that the rollback restores everything depends on
the lists agreeing with what has been moved (`RecordsInv`), on the backup holding the
previewed node of each moved path (`OriginalsInv`), on what each loop has already done
(`BackupInv`, `InstallInv`, `UndoInv`) and on the root being the previewed one when the
transaction starts (`CheckInv`). `TxnInv` is their conjunction. The steps that carry
the argument, the commit, one unlink and the removal of the directory, are lemmas of
their own; `NextKeepsInv` has one step per group of actions. The refinement maps the
three abstract-visible steps (`OpeningIsBegin`, `CommitIsCommit`, `CleaningIsUndo`) and
shows that all others stutter.

`ExportLedger_proofs`, for every set of paths, contents and snapshots
(`PathsAssumption`, `MarksAssumption`, `SnapshotsAssumption`: each snapshot has the
manifest; `NoneAssumption`: the marks for "no receipt" and "no plan" are neither):

| Theorem | Says |
| --- | --- |
| `LedgerInvariance` | `Spec => []LedgerInv` |
| `LedgerTypes` | `Spec => []TypeOK` |
| `ReceiptsListOwnBytes` | `Spec => []LedgerListsOnlyOwnBytes` |
| `OnlyOwnBytesTaken` | `Spec => OnlyMatchingOwnedTaken` |
| `ExportsSettle` | `Spec => ExportSettles` |
| `UninstallsRelease` | `Spec => UninstallReleases` |

What needs strengthening is the saved preview: it may be old when it is applied.
`PreviewPlanned` says that it is what planning gave on the tree and receipt it remembers.
The lemma `AppliesFresh` then shows that an apply, of the prepared object after its
recheck or through the CLI's replanning, acts as if it had been planned on what it meets;
`ExportEffect` and `UninstallEffect` say what that does, and the three action properties
follow.

`Engagement_proofs`, for any rosters, snapshots, agents and targets
(`EngagementAssumption`: the mark for "no squad" is none, no role is called `root` in a
worktree, the clock has a value):

| Theorem | Says |
| --- | --- |
| `EngagementInvariance` | `Spec => []EngagementInv` |
| `EngagementTypes` | `Spec => []TypeOK` |
| `OwnersAreAuthors` | `Spec => []AuthorsAreOwners` |
| `SandboxBeforeRecord` | `Spec => []OnlySandboxUnrecorded` |
| `CollectsBring` | `Spec => []CollectBrings` |
| `MandatesAgree` | `Spec => []DecisionsWithinMandate` |
| `RulingsOutlive` | `Spec => []RulingsStand` |

`EngagementInv` adds to the properties that without a squad the root has no ledger and no
collect runs (`Unattended`: otherwise taking up a squad could restore over a ledger), that
during a collect each artifact has been brought or is still to be looked at (`Bringing`),
and that the committed ledgers are by their roles (`Committed`: a worktree made from the
commit has them). `RulingsStand` alone is not inductive, for the next collect may copy:
`RulingInv` says of each ruling that it stands and that a worktree's copy of that ledger
has the mark too or is not newer. `OthersKeepRulings` holds for actions that touch no
ledger, and each of the others has a lemma (`...KeepsRulings`). The lemmas `KindsOfPaths`, `OneAccountable` and `NamedAreReserved` carry
ownership: a path names one role, and no workspace reaches a path that names one;
`GrantsOwn` concludes that a grant under `.squad` is for a path of the asking role or of
nobody. Each action then has a lemma of its own.

`Escalation_proofs`, for any squads, records and verification files
(`EscalationAssumption`: the mark for "no squad" is none, records and files are sequences
of lines):

| Theorem | Says |
| --- | --- |
| `EscalationInvariance` | `Spec => []EscalationInv` |
| `EscalationTypes` | `Spec => []TypeOK` |
| `NoticesMatch` | `Spec => []NoticeMatchesCount` |
| `RulingsAreCounted` | `Spec => []RulingsCount` |
| `OnlyRulings` | `Spec => OnlyRulingsClose` |

`RulingsCount` is not inductive, since a file that is not in form promises nothing about the
next one. `RulingsNamed` says instead that the list names the role, as a human reads it;
four lemmas relate that reading to those of the scripts (`ReadIsNamed`, `NamedIsRead`,
`StartReadsNamed`, `ReadAtStart`), for lists of any length.

`WorldLedger_proofs`, for any finite sets of owners and keys, any chunks, rulings, caps
and file lengths:

| Theorem | Says |
| --- | --- |
| `TypeCorrectness` | `Spec => []TypeOK` |
| `NoBeliefIsLost` | `Spec => []ProjectionComplete` |
| `MalformedBlocksAreInert` | `Spec => MalformedHidesNothing` |
| `ContradictionsRefused` | `OneWordKeys` implies `Spec => []OnlyContradictionsRefused` |
| `ReadersAgree` | `OneWordKeys` and `StatusesFilled` imply `Spec => []ScriptsAgree` |

The state is text and almost everything is about reading it, so the invariants are small
(`FilesOK`: files are sequences of lines; `StatusInv`: no status line is empty) and the
lemmas are about the operators: where blocks start and end, which line of a field is the
last, what appending a chunk or editing one status line changes. `OneWordKeys` and
`StatusesFilled` are what `templates/world-claims.md` shows. They hold of the constants of
the passing run; without the first, the run `WorldLedger_blank_key` violates the property,
without the second the two scripts part as section 5 says.

`ExportRace_proofs`, for any paths and contents, with or without a rival:

| Theorem | Says |
| --- | --- |
| `RaceInvariance` | `Spec => []RaceInv` |
| `CheckedEditsAreKept` | `Spec => CheckedEditsSurvive` |
| `NothingIsDiscarded` | `Spec => NothingLeftInRemovedBackup` |

`RaceInv` is `TxnInv` without the parts an interfering process can break. It speaks of A
and of the paths nobody changed after A's check (`late` is the rest): what the check has
passed is as previewed (`SeenInv`), the root and the backup hold what A put there
(`OwnInv`), and, for all paths, landed files and moved originals are in A's lists or next in
its walk (`LandedInv`, `MovedInv`). The second exporter and the owner are one case: they
change nothing of A and add to `late` what they touch (`OthersAreLate`).

`Namespaces_proofs`, for ids of any length:

| Theorem | Says |
| --- | --- |
| `IdentifiersWithinLimits` | the identifiers are nonempty sequences of tokens within the providers' limits |
| `IdentifiersDiffer` | equal namespaces have equal squads, equal role or skill identifiers equal squads and roles; no role's skill is named like a dispatch skill |

The second is what `namespace.py:26` calls collision-resistant, and it assumes of the ids at
hand what that word does: equal digests come from equal texts, and no id contains another's
digest (`Separate`). Escaping is injective because every hyphen is followed by the letter
that says what it stands for (`EscapedInjective`); a cut text ends in its digest, which no
uncut text does (`BoundedInjective`); and no namespace has a hyphen followed by one of the
marks that follow a namespace, so an identifier is taken apart in one way
(`SameNamespace`). `FlattenSeq` is a recursive function in the community modules; induction
over it is done in set form: `NumberInduction` says that a set of numbers with 0 and with
successors is `Nat`, which follows from the library's `WFMin`, a theorem without an
operator parameter.

`SquadExport_proofs`, for any drafts, goals, source tree and roots:

| Theorem | Says |
| --- | --- |
| `ExportInvariance` | `Spec => []ExportInv` |
| `FilesWellFormed` | `Spec => []TypeOK` |
| `FilesHaveOneOwner` | `Spec => []OneOwnerEach` |
| `InstalledExportsValidate` | `Spec => []InstalledValidates` |
| `ExportsReproduceThemselves` | `Spec => []ReproducesItself` |
| `LiveValuesStayBehind` | `Spec => []NothingLive` |
| `AdaptersWarnAlike` | `Spec => []AdaptersAgree` |
| `HooksRun` | `Spec => []RegisteredHooksRunnable` |
| `ContextIsTruthful` | `Spec => []ContextTruthful` |
| `NeverHindered` | `Spec => []Unhindered` |
| `AgentsAreResolved` | `Spec => []AgentsResolve` |

`OneOwnerEach` is not inductive: that a removal leaves no orphan needs that every file
outside the receipts is listed by one (`AccountedInv`), that a receipt's files are there as
it says and in no other receipt (`OwnedInv`), and for that, that a receipt is one the exporter
computes from a snapshot it accepted and lies at the path of its squad (`ReceiptsInv`).
`ExportInv` is their conjunction. With it a statement about installed files becomes one
about a rendered snapshot (`InstalledExport`), and most theorems are then about functions:

* what loads is canonical, and making it portable twice is making it portable once
  (`CanonicalRole`, `RenderedAgain`): from this follow `InstalledValidates` and
  `ReproducesItself`;
* no renderer reads a live value (`PortableIsNotLive`, `RoleContentIsNotLive`);
* where each file lies: `Placed` says for every head of a path which artifact is there, and
  `DesiredPaths` that every rendered file is placed. `HooksRun` and `ContextIsTruthful`
  need it, since a hook or a body of another squad at the same path would break them;
* whose each path is: `Claimed` gives every squad and destination its part of a root,
  `InstalledClaims` and `SnapshotClaims` say that exports keep to it, and `ClaimsDiffer`,
  which rests on `IdentifiersDiffer`, that the parts of two squads are disjoint. A file in
  the way of an export is then its own earlier one, unmodified (`NeverHindered`);
* what lies where Claude looks for agents is the agent of an active role and the other way
  round (`DesiredAgents`, `RoleAgents`), and the file in the place of the role map is the
  map of the roster on disk (`DesiredRoleMap`): `AgentsAreResolved`.

The assumptions on the constants: a draft has the keys its loader reads and ids that are
sequences of strings, as JSON text is (`DraftsAssumption`); digests tell these ids apart
(`DigestsAssumption`); goals have a root flag and a text (`GoalFilesAssumption`); the source tree has a
`LICENSE`, its paths are nonempty sequences of nonempty names, and its files and the
exporter's own license are plain text (`SourceTreeAssumption`); the limits leave room for a marker and
a digest, as the code's 31 and 64 do (`LimitsAssumption`). TLC evaluates each on the run. The
prover does not know that a literal such as `"-"` is a string, so lemmas about names speak of
`Words` and `Tokens`, which are strings and the literals the model uses.

Only model-checked: `ApplyReturns`, which is liveness and out of reach of the prover.

## 5. Where code and documents disagree

With a run:

* `RestoresOnFailure` (run `ExportTxn_lost`). `docs/compatibility-security.md` promises
  that originals are restored on interruption or failure. A `KeyboardInterrupt` between
  `os.replace(target, saved)` and `backed_up.append(path)` leaves the path in no list;
  the handler skips it and removes the directory that holds it.
* `OnlyContradictionsRefused` (run `WorldLedger_blank_key`). The list of duplicated keys
  goes through `awk '{print $2}'`, which cuts a key at its first blank: two live blocks
  "api limits" of one owner are both projected, and a block "api" is refused instead.
* `LedgersStayApart` (run `Engagement_ledgers`). `squad-goal/SKILL.md:117` says that
  nothing merges two squads' ledgers. A worktree outlives its squad, and `spawn.sh:103`
  copies its ledger when the root has none, which is what parking leaves: the next squad
  with a role of that name gets it, also after an orderly last collect.
* `EachEscalationRuled` (run `Escalation_stale`). `CHANGELOG.md:190` says that only the
  human's recorded ruling closes an escalation. The list holds names for good
  (`verify.sh:577-588`, `squad-verify/SKILL.md:168`), so a role that was ruled on once is
  never open again, whatever it escalates in a later dispatch.

Seen while modelling, without a run of their own:

* `docs/portability.md:200` says that a modified owned file stops the plan. It does so
  only if the new snapshot still contains it; otherwise it silently leaves the ledger,
  stays on disk and collides later (`exporter.py:1065`).
* The header of `permission-request.sh` (lines 48-56) says that both surfaces are
  "conditioned on the role having published its engagement record" and "Everything else
  waits on it". Edit and Write under `.squad` are decided by `squad_grant`, whose workspace
  grant (line 542) does not look for the record, so a role writes its `.squad` workspace
  before it has one; the same path through `mkdir` or `touch` is deferred.
  `OnlySandboxUnrecorded` says where this ends.
* `status: "escalated"` in quotes, or `status :` with a blank, counts for `verify.sh` and
  not for `session-start.sh`: the verdict is blocked and nothing is said. A dash without a
  blank, an item after an empty one or an unclosed bracket is read by `session-start.sh`
  and not by `verify.sh`, with the same effect. A comment after a name makes the session's
  start speak of an escalation that is ruled on; one after the key hides the whole list
  from both.
* Records stay at the root when a squad is parked: its escalations are told under the next
  squad, and counted there for a role of the same name.
* `docs/portability.md:198` says a file is replaced only while its current hash matches;
  the recheck (`exporter.py:1232`) precedes staging and backup, and an edit in between is
  destroyed (`CheckedEditsSurvive` says what is protected).
* `docs/portability.md:226` lets any change invalidate a preview; `cli.py:150` plans again
  and checks the fresh plan's preconditions, so a change that leads to the same operations
  passes.
* A second, empty status line makes a retired block live for `world.sh:314` and changes
  nothing for `verify.sh:677`, which calls any such drift a defect. The chunks of the
  passing run have no empty status line.
* A Codex plugin that does not own the runtime still carries `runtime/hooks`
  (`codex.py:155-163`), against `docs/compatibility-security.md:66-67`.
* The session prompt includes the context of inactive roles (`exporter.py:438-456`,
  against `docs/portability.md:129`).
* A legacy role with a duplicated tool migrates, and is refused on export when its
  portable form is loaded again (`exporter.py:886`).
* A squad called `squad` cannot be packaged, squads called `world`, `env` or `secrets`
  cannot be installed for a user, and a goal of a role `claims-...` or `role-plan-...` cannot
  be snapshotted: `_private_path` refuses the derived names.
* A Codex sandbox override that contradicts the capabilities is refused only where agents
  are rendered (`_agent_toml`), not for a plugin. A Claude tool override, or the legacy tool
  NotebookEdit, can make a role write for one provider only; `AdaptersAgree` excludes it.
* Role ids with a double hyphen make the names of outboxes ambiguous
  (`role-comm-<from>--<to>.md`); names are structured in the model.
* Records survive parking at the root, so a role of the next squad with the same name
  starts with an open gate until the dispatch clears it; a reused worktree is not cleared.
* `examples/weekly-competitive-intel.md:584` has a fact "contested once, adjudicated once,
  and inherited forever after". `RulingsStand` states the two ways in which it is not. A
  ruling is a line in the losing role's own ledger, and the hook lets that role write its
  ledger as it likes (`permission-request.sh:520-525`). And `spawn.sh:247` makes a worktree
  from the last commit: after a ruling that was not committed, the older block lies there
  with a newer time, and the next collect, "always safe to run" (`squad-spawn/SKILL.md:337`),
  copies it over the ruling although nobody wrote anything.
* By being newer than the worktree's copy, a ruling hides what the worktree wrote before
  it and had not been collected.
* The comment at `spawn.sh:229` says that worktrees branch from `origin/HEAD`; the command
  at line 247 names no starting point, so they branch from `HEAD`.

## 6. Not modelled

* `verify.sh`'s signals, owned files and other fields of a role's line, what
  `session-start.sh` injects besides its notice, and `user-prompt-submit.sh`: they print
  what they read.
* `provision.sh` and the dispatch workflow: a loop that creates links and directories, and a
  fan-out of calls to a language model with one result each.
* The scan of rendered text for placeholders and absolute paths, JSON syntax, patterns of
  single characters (identifiers, versions), argument parsing and output of the CLI.
* The hook's path normalisation and shell tokenizing: their outcome, contained or not
  provable, is an input of the model.
* Skills, templates and examples: prose and data.

## 7. Plan

1. `Provision`: repeated provisioning of one workspace, with failures in between.
2. `Dispatch`: concurrent agents, failures and the barrier.
