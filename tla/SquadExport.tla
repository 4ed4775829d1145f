---------------------------- MODULE SquadExport -----------------------------
(***************************************************************************)
(* What the exporter renders and installs: plan_export from the loaded     *)
(* contracts to the planned snapshot, its checks, the installation, the    *)
(* validation of what is installed and its removal, for several squads and *)
(* destinations over the same roots.                                       *)
(*                                                                         *)
(* Planning and applying are one step: ExportLedger has the previews, the  *)
(* owner's edits and the modes, ExportTxn the file system calls.  Contents *)
(* stand for their hashes.                                                 *)
(***************************************************************************)
EXTENDS SquadCompilers, Functions

CONSTANTS
  Drafts,        \* what authors may export: a manifest and a roster document
  GoalFiles,     \* states of the source root: does it exist, and goal -> text
  SourceTree,    \* the squad source tree plugins vendor: path -> content
  ExportLicense, \* the license the exporter carries itself
  Roots, Home,   \* target directories, the home directory among them
  GitRoots,      \* the roots of Git repositories
  MaxReceipts    \* bound: installed exports at any time

\* A document has every key its loader reads (see SquadContracts), ids are words.
RoleKeys ==
  {"id", "purpose", "file_ownership", "capabilities", "profile", "effort", "active",
   "goal_ref", "environment", "provider_overrides", "onboarded_skills"}

\* What the identifiers of a draft are derived from.
Ids(d) ==
  {d.manifest.squad}
  \cup {IF d.roster.schema_version = {} THEN r.name ELSE r.id : r \in ToSet(d.roster.roles)}

ASSUME DraftsAssumption ==
  \A d \in Drafts :
    /\ DOMAIN d.manifest = {"schema_version", "squad", "destination", "execution_mode",
                            "providers", "runtime_owner", "export_version"}
    /\ Ids(d) \subseteq Seq(STRING)
    /\ \A r \in ToSet(d.roster.roles) : \A e \in r.environment : \A t \in ToSet(e.tools) :
         DOMAIN t = {"name", "kind", "verify", "install"}
    /\ d.roster.schema_version # {} =>
         /\ DOMAIN d.roster = {"schema_version", "squad_goal_ref", "execution_mode", "roles"}
         /\ \A r \in ToSet(d.roster.roles) :
              /\ DOMAIN r = RoleKeys
              /\ \A e \in r.environment :
                   DOMAIN e = {"workspace", "directories", "variables", "context", "tools"}
              /\ \A s \in ToSet(r.onboarded_skills) :
                   DOMAIN s = {"name", "local_path", "purpose", "approval_mode", "kind"}

ASSUME DigestsAssumption ==
  LET ids == UNION {Ids(d) : d \in Drafts}
  IN  Separate(ids \cup {Escaped(id) : id \in ids})

ASSUME GoalFilesAssumption ==
  \A g \in GoalFiles : DOMAIN g = {"root", "text"} /\ g.root \in BOOLEAN

\* Paths have names; collect_runtime_files refuses a source tree without its LICENSE.
ASSUME SourceTreeAssumption ==
  /\ License \in DOMAIN SourceTree
  /\ \A p \in DOMAIN SourceTree :
       /\ p \in Seq(Seq(STRING)) /\ p # <<>> /\ \A i \in DOMAIN p : p[i] # <<>>
       /\ SourceTree[p].kind = "static"
  /\ ExportLicense.kind = "static"

VARIABLES
  tree,   \* root -> path -> content and execute bit
  truth   \* history: <<root, receipt path>> -> the goals at its last export

vars == <<tree, truth>>

-----------------------------------------------------------------------------
(* Rendering. *)

PortableTool(t) == [t EXCEPT !.verify = {}, !.install = {}]

\* Mutant of PortableEnvironment: leaves the context sources in.
PortableEnvironmentWithContext(e) ==
  [e EXCEPT !.variables = [v \in DOMAIN @ |-> ""],
            !.tools = [i \in DOMAIN @ |-> PortableTool(@[i])]]

PortableEnvironment(e) ==
  [e EXCEPT !.variables = [v \in DOMAIN @ |-> ""], !.context = <<>>,
            !.tools = [i \in DOMAIN @ |-> PortableTool(@[i])]]

\* _portable_roster_dict
PortableRole(r) == [r EXCEPT !.environment = {PortableEnvironment(e) : e \in @}]

PortableRoster(roster) == [roster EXCEPT !.roles = [i \in DOMAIN @ |-> PortableRole(@[i])]]

PrivateComponents ==
  {Name(c) : c \in {".git", "credentials", "engagement-records", "engagements", "env",
                    "environments", "private-state", "secret", "secrets", "workspaces",
                    "worktrees", "world"}}

PrivatePrefixes == {<<"role", "-", "plan", "-">>, <<"role", "-", "comm", "-">>, <<"claims", "-">>}

PrivatePath(path) ==
  \/ \E i \in DOMAIN path : path[i] \in PrivateComponents
  \/ \E prefix \in PrivatePrefixes : IsPrefix(prefix, Last(path))

\* _validate_path_set
PathSetValid(paths) ==
  LET parents == UNION {{SubSeq(p, 1, i) : i \in 1..(Len(p) - 1)} : p \in paths}
  IN  {p \in paths : PrivatePath(p)} \cup (paths \cap parents) = {}

\* _context_source_path: the one file a goal may come from.
GoalRef(id) == <<"role-goal", id>>
SquadGoalRef == <<"goal">>

SourcesCanonical(roster) ==
  /\ roster.squad_goal_ref = SquadGoalRef
  /\ \A r \in ToSet(roster.roles) : r.goal_ref \subseteq {GoalRef(r.id)}

\* _context_snapshot: one entry per role, and a body for each goal found.
Entry(source, goals, snapshot) ==
  LET status == IF source = {} THEN "not-declared"
                ELSE IF ~goals.root THEN "source-unavailable"
                ELSE IF \A s \in source : goals.text[s] = {} THEN "missing" ELSE "included"
  IN  [source |-> source, status |-> status,
       snapshot |-> IF status = "included" THEN snapshot ELSE <<>>]

RoleBody(id) == <<Name("context"), Name("roles"), Append(id, ".md")>>
SquadBody == <<Name("context"), Name("squad-goal.md")>>

\* The text found for a goal reference, if any.
Found(source, goals) == IF goals.root THEN UNION {goals.text[s] : s \in source} ELSE {}

RoleEntries(roster, goals) ==
  {<<r.id, Entry(r.goal_ref, goals, RoleBody(r.id))>> : r \in ToSet(roster.roles)}

ContextIndex(roster, goals) ==
  [kind |-> "index", roles |-> RoleEntries(roster, goals),
   squad |-> Entry({SquadGoalRef}, goals, SquadBody)]

ContextBodies(roster, goals) ==
  {<<SquadBody, [kind |-> "goal", text |-> t]>> : t \in Found({SquadGoalRef}, goals)}
  \cup {<<RoleBody(x[1]), [kind |-> "goal", text |-> x[2]]>> :
        x \in UNION {{r.id} \X Found(r.goal_ref, goals) : r \in ToSet(roster.roles)}}

Mounted(provider, artifacts) ==
  {<<IF provider = "claude" THEN In(".claude", a[1])
     ELSE IF a[1][1] = Name("agents") THEN In(".codex", a[1]) ELSE In(".agents", a[1]), a[2]>> :
   a \in artifacts}

ProviderArtifacts(m, roster) ==
  LET runtime == CollectRuntime(SourceTree)
      selected == ToSet(m.providers)
  IN  IF m.destination = "plugin"
        THEN (IF "claude" \in selected THEN ClaudePlugin(m, roster, runtime) ELSE {})
             \cup (IF "codex" \in selected THEN CodexPlugin(m, roster, runtime) ELSE {})
        ELSE (IF "claude" \in selected THEN Mounted("claude", ClaudeAgents(m, roster)) ELSE {})
             \cup (IF "codex" \in selected
                     THEN Mounted("codex", CodexAgents(m, roster) \cup CodexSkills(m, roster))
                     ELSE {})

ProvidersCompile(m, roster) ==
  /\ "claude" \in ToSet(m.providers) =>
       IF m.destination = "plugin"
         THEN ClaudePluginCompiles(m, roster, CollectRuntime(SourceTree))
         ELSE ClaudeCompiles(m, roster)
  /\ "codex" \in ToSet(m.providers) =>
       /\ CodexCompiles(m, roster)
       /\ m.destination # "plugin" => \A r \in ActiveRoles(roster) : SandboxAllowed(r)

Prefix(m) == SnapshotPrefix(m.destination, ProviderNamespace(m.squad))

ManifestPath(m) == Append(Prefix(m), Name("manifest.json"))
RosterPath(m) == Append(Prefix(m), Name("roster.json"))

ReceiptPath(m) ==
  IF m.destination = "user"
    THEN <<Name(".squad"), Name("receipts"), Append(ProviderNamespace(m.squad), ".json")>>
    ELSE Append(Prefix(m), Name("export-receipt.json"))

ManifestContent(m) == [kind |-> "manifest", document |-> ManifestDict(m)]
RosterContent(roster) == [kind |-> "roster", document |-> PortableRoster(roster)]

PluginExtras(m, roster) ==
  LET runtime == CollectRuntime(SourceTree)
  IN  {<<<<Name("ACTIVATION.md")>>, [kind |-> "activation", squad |-> m.squad]>>,
       <<License, ExportLicense>>,
       <<In("shared", <<Name("manifest.json")>>), ManifestContent(m)>>,
       <<In("shared", <<Name("roster.json")>>), RosterContent(roster)>>}
      \cup {<<In("shared", In("runtime", p)), runtime[p]>> : p \in DOMAIN runtime}

EngineArtifacts(m, roster, goals) ==
  {<<ManifestPath(m), ManifestContent(m)>>, <<RosterPath(m), RosterContent(roster)>>,
   <<Prefix(m) \o <<Name("context"), Name("index.json")>>, ContextIndex(roster, goals)>>}
  \cup {<<Prefix(m) \o b[1], b[2]>> : b \in ContextBodies(roster, goals)}
  \cup (IF m.destination = "plugin"
          THEN PluginExtras(m, roster)
          ELSE {<<Append(Prefix(m), Name("provider-role-map.json")), ProviderRoleMap(m, roster)>>})

\* Mutant of Desired: the adapters see the roster before it is made portable.
DesiredFromLive(m, roster, goals) ==
  ProviderArtifacts(m, roster) \cup EngineArtifacts(m, roster, goals)

\* _render_desired_files; _merge_outputs and _add_engine_output let two
\* artifacts share a path if they are the same bytes.
Desired(m, roster, goals) ==
  ProviderArtifacts(m, RosterLoaded(PortableRoster(roster))) \cup EngineArtifacts(m, roster, goals)

Functional(artifacts) == \A a, b \in artifacts : a[1] = b[1] => a[2] = b[2]

Files(artifacts) ==
  [p \in {a[1] : a \in artifacts} |-> (CHOOSE a \in artifacts : a[1] = p)[2]]

-----------------------------------------------------------------------------
(* What is checked of a rendered or an installed snapshot. *)

\* _validate_user_namespaces
Namespaced(namespace, path) ==
  \/ IsPrefix(<<Name(".squad"), Name("squads"), namespace>>, path)
  \/ path = <<Name(".squad"), Name("receipts"), Append(namespace, ".json")>>
  \/ /\ Len(path) > 2
     /\ \/ /\ <<path[1], path[2]>> \in {<<Name(c), Name("agents")>> : c \in {".claude", ".codex"}}
           /\ IsPrefix(namespace \o <<"-", "-">>, path[3])
        \/ /\ <<path[1], path[2]>> = <<Name(".agents"), Name("skills")>>
           /\ IsPrefix(Append(namespace, "-"), path[3])

\* _validate_context_index
IndexValid(m, roster, files) ==
  LET path == Prefix(m) \o <<Name("context"), Name("index.json")>>
      records == {files[path].squad} \cup {x[2] : x \in files[path].roles}
  IN  /\ path \in DOMAIN files
      /\ files[path].squad.source = {roster.squad_goal_ref}
      /\ {x[1] : x \in files[path].roles} = {r.id : r \in ToSet(roster.roles)}
      /\ \A e \in records : IF e.status = "included"
                              THEN Prefix(m) \o e.snapshot \in DOMAIN files
                              ELSE e.snapshot = <<>>

AgentPaths(files, directory, suffix) ==
  {p \in DOMAIN files : IsPrefix(directory, p) /\ Last(Last(p)) = suffix}

\* _validate_claude_agent, _validate_codex_agent
AgentsValid(m, files, directory, suffix) ==
  \A p \in AgentPaths(files, directory, suffix) :
    /\ Last(p) = Append(files[p].name, suffix)
    /\ IsPrefix(ProviderNamespace(m.squad) \o <<"-", "-">>, files[p].name)

PluginManifestValid(m, files, path) ==
  /\ path \in DOMAIN files
  /\ files[path].name = ProviderNamespace(m.squad) /\ files[path].version = m.export_version

ClaudeValid(m, files) ==
  IF m.destination = "plugin"
    THEN /\ PluginManifestValid(m, files, In(".claude-plugin", <<Name("plugin.json")>>))
         /\ AgentsValid(m, files, <<Name("agents")>>, ".md")
    ELSE /\ AgentPaths(files, <<Name(".claude"), Name("agents")>>, ".md") # {}
         /\ AgentsValid(m, files, <<Name(".claude"), Name("agents")>>, ".md")

CodexValid(m, files) ==
  LET plugin == In(".codex-plugin", <<Name("plugin.json")>>)
      nested == <<Name("plugins"), ProviderNamespace(m.squad)>>
      market == <<Name(".agents"), Name("plugins"), Name("marketplace.json")>>
  IN  IF m.destination = "plugin"
        THEN /\ PluginManifestValid(m, files, plugin) /\ PluginManifestValid(m, files, nested \o plugin)
             /\ market \in DOMAIN files
             /\ files[market].name = ProviderNamespace(m.squad) /\ files[market].source = nested
        ELSE /\ AgentPaths(files, <<Name(".codex"), Name("agents")>>, ".toml") # {}
             /\ AgentsValid(m, files, <<Name(".codex"), Name("agents")>>, ".toml")

\* _validate_provider_role_map
RoleMapValid(m, roster, files) ==
  LET path == Append(Prefix(m), Name("provider-role-map.json"))
  IN  path \in DOMAIN files /\ files[path] = ProviderRoleMap(m, roster)

\* _validate_artifacts
ArtifactsValid(m, roster, files) ==
  /\ PathSetValid(DOMAIN files)
  /\ m.destination = "user" => \A p \in DOMAIN files : Namespaced(ProviderNamespace(m.squad), p)
  /\ IndexValid(m, roster, files)
  /\ "claude" \in ToSet(m.providers) => ClaudeValid(m, files)
  /\ "codex" \in ToSet(m.providers) => CodexValid(m, files)
  /\ IF m.destination = "plugin"
       THEN {ManifestPath(m), RosterPath(m), License, <<Name("ACTIVATION.md")>>,
             In("shared", <<Name("manifest.json")>>), In("shared", <<Name("roster.json")>>)}
            \subseteq DOMAIN files
       ELSE RoleMapValid(m, roster, files)

\* What plan_export refuses whatever is on disk.  The context is collected
\* for a session too, its snapshot is never rendered.
Contracts(d) ==
  /\ ManifestLoads(d.manifest) /\ Loads(d.roster)
  /\ d.manifest.execution_mode = Loaded(d.roster).execution_mode
  /\ SourcesCanonical(Loaded(d.roster))

\* The license in the source tree and the exporter's own are the same file.
LicenseAgrees(m) ==
  m.destination = "plugin" => CollectRuntime(SourceTree)[License] = ExportLicense

Renders(m, roster, goals) ==
  /\ RosterLoads(PortableRoster(roster))
  /\ LicenseAgrees(m)
  /\ ProvidersCompile(m, RosterLoaded(PortableRoster(roster)))
  /\ Functional(Desired(m, roster, goals))
  /\ ReceiptPath(m) \notin DOMAIN Files(Desired(m, roster, goals))
  /\ ArtifactsValid(m, roster, Files(Desired(m, roster, goals)))

Session(d) == d.manifest.destination = "session"

\* The goals that a roster declares.
Declared(roster, goals) ==
  [goals EXCEPT !.text =
     Restrict(@, {SquadGoalRef} \cup UNION {r.goal_ref : r \in ToSet(roster.roles)})]

Snapshot(m, roster, goals) ==
  [manifest |-> m, roster |-> roster, goals |-> Declared(roster, goals),
   files |-> Files(Desired(m, roster, goals))]

\* The snapshot of every accepted draft.
Rendered ==
  {Snapshot(ManifestDict(x[1].manifest), Loaded(x[1].roster), x[2]) :
     x \in {x \in {d \in Drafts : Contracts(d) /\ ~Session(d)} \X GoalFiles :
              Renders(ManifestDict(x[1].manifest), Loaded(x[1].roster), x[2])}}

\* _session_prompt: all that a session export makes; it writes nothing.
SessionPrompt(d, goals) ==
  LET roster == Loaded(d.roster)
  IN  [kind |-> "prompt", manifest |-> ManifestDict(d.manifest),
       roles |-> {r \in ToSet(PortableRoster(roster).roles) : Active(r)},
       index |-> ContextIndex(roster, goals), bodies |-> ContextBodies(roster, goals)]

Prompts ==
  {SessionPrompt(x[1], x[2]) : x \in {d \in Drafts : Contracts(d) /\ Session(d)} \X GoalFiles}

-----------------------------------------------------------------------------
(* Receipts. *)

Nothing == [p \in {} |-> {}]

Installed(root) == {p \in DOMAIN tree[root] : tree[root][p].content.kind = "receipt"}
Receipts == UNION {{root} \X Installed(root) : root \in Roots}

Owned(root, receipt) == tree[root][receipt].content.files

Scripts == {q \in DOMAIN CollectRuntime(SourceTree) : Last(Last(q)) = ".sh"}

\* Mutant of Executables: only where the source tree has the script.
ExecutablesInPlace(m, files) == {p \in DOMAIN files : m.destination = "plugin" /\ p \in Scripts}

\* _runtime_bundle names the scripts, plan_export every copy of them.
Executables(m, files) ==
  {p \in DOMAIN files : m.destination = "plugin" /\ \E q \in Scripts : IsSuffix(q, p)}

\* Mutant of SourceHash: of the roster as authored.
SourceHashOfLive(m, roster) == [manifest |-> ManifestDict(m), roster |-> roster]

\* _source_hash, without the hashes of the files: the receipt has the same.
SourceHash(m, roster) == [manifest |-> ManifestDict(m), roster |-> PortableRoster(roster)]

Receipt(m, roster, files) ==
  [kind |-> "receipt", squad |-> m.squad, destination |-> m.destination,
   source |-> SourceHash(m, roster),
   files |-> [p \in DOMAIN files |-> [content |-> files[p],
                                      executable |-> p \in Executables(m, files)]]]

-----------------------------------------------------------------------------
(* Operations. *)

Init ==
  /\ tree = [r \in Roots |-> Nothing]
  /\ truth = Nothing

\* _target_path
TargetAllowed(destination, root) ==
  CASE destination = "user" -> root = Home
    [] destination = "project" -> root # Home /\ root \in GitRoots
    [] destination = "plugin" -> root # Home
    [] OTHER -> FALSE

Present(root, path) == path \in DOMAIN tree[root]
Unchanged(root, path, receipt) == tree[root][path].content = Owned(root, receipt)[path].content

\* Files in the way: not owned by this export's receipt, or modified.
Collisions(s, root) ==
  LET receipt == ReceiptPath(s.manifest)
  IN  {p \in DOMAIN s.files \cap DOMAIN tree[root] :
         ~(/\ Present(root, receipt) /\ p \in DOMAIN Owned(root, receipt)
           /\ Unchanged(root, p, receipt))}

\* plan_export against what is on disk; a receipt is this squad's own.
Installable(s, root) ==
  LET m == s.manifest
      found == {tree[root][p].content : p \in {ReceiptPath(m)} \cap DOMAIN tree[root]}
  IN  /\ TargetAllowed(m.destination, root)
      /\ \A c \in found :
           c.kind = "receipt" /\ c.squad = m.squad /\ c.destination = m.destination
      /\ {c \in found : ~PathSetValid(DOMAIN c.files)} = {}
      /\ Collisions(s, root) = {}

\* Mutant of Obsolete: what an export no longer renders stays.
ObsoleteNever(s, root) == {}

Obsolete(s, root) ==
  LET receipt == ReceiptPath(s.manifest)
  IN  IF ~Present(root, receipt) THEN {}
      ELSE {p \in DOMAIN Owned(root, receipt) \ DOMAIN s.files :
              Present(root, p) /\ Unchanged(root, p, receipt)}

\* Mutant of Written: a file that is there is taken to be up to date.
WrittenIfMissing(s, root) == {p \in DOMAIN s.files : ~Present(root, p)}

Written(s, root) ==
  {p \in DOMAIN s.files : Present(root, p) => tree[root][p].content # s.files[p]}

\* plan_export and apply_export
Export(s, root) ==
  LET m == s.manifest
      receipt == ReceiptPath(m)
  IN  /\ Installable(s, root)
      /\ PathSetValid(Written(s, root) \cup Obsolete(s, root) \cup {receipt})
      /\ tree' = [tree EXCEPT ![root] =
           [p \in (DOMAIN @ \ Obsolete(s, root)) \cup DOMAIN s.files \cup {receipt} |->
              IF p = receipt
                THEN [content |-> Receipt(m, s.roster, s.files), executable |-> FALSE]
              ELSE IF p \in Written(s, root)
                THEN [content |-> s.files[p], executable |-> p \in Executables(m, s.files)]
              ELSE @[p]]]
      /\ truth' = [x \in DOMAIN truth \cup {<<root, receipt>>} |->
                    IF x = <<root, receipt>> THEN s.goals ELSE truth[x]]
      /\ Cardinality(Receipts') <= MaxReceipts

OwnedUnchanged(root, receipt) ==
  {p \in DOMAIN Owned(root, receipt) : Present(root, p) /\ Unchanged(root, p, receipt)}

\* Mutant of Removed: the receipt of nothing stays.
RemovedButReceipt(root, receipt) == OwnedUnchanged(root, receipt)

Removed(root, receipt) == OwnedUnchanged(root, receipt) \cup {receipt}

\* plan_uninstall_export and apply_uninstall_export.  The owner's edits and
\* the reduced receipts they leave are in ExportLedger; here every owned
\* file is as exported.
Uninstall(root, receipt) ==
  LET m == tree[root][receipt].content
  IN  /\ receipt = ReceiptPath(m) /\ ManifestPath(m) \in OwnedUnchanged(root, receipt)
      /\ LET installed == tree[root][ManifestPath(m)].content.document
         IN  /\ ManifestLoads(installed)
             /\ installed.squad = m.squad /\ installed.destination = m.destination
      /\ tree' = [tree EXCEPT ![root] = Restrict(@, DOMAIN @ \ Removed(root, receipt))]
      /\ truth' = Restrict(truth, DOMAIN truth \ {<<root, receipt>>})

Next ==
  \/ \E s \in Rendered, root \in Roots : Export(s, root)
  \/ \E x \in Receipts : Uninstall(x[1], x[2])

Spec == Init /\ [][Next]_vars

-----------------------------------------------------------------------------
(* validate_installed_export *)

Validates(root, receipt) ==
  LET content == tree[root][receipt].content
      owned == content.files
      files == [p \in DOMAIN owned |-> tree[root][p].content]
      m == files[ManifestPath(content)].document
      document == files[RosterPath(content)].document
  IN  /\ TargetAllowed(content.destination, root) /\ receipt = ReceiptPath(content)
      /\ PathSetValid(DOMAIN owned)
      /\ \A p \in DOMAIN owned : Present(root, p) /\ tree[root][p] = owned[p]
      /\ {ManifestPath(content), RosterPath(content)} \subseteq DOMAIN owned
      /\ ManifestLoads(m) /\ Loads(document)
      /\ m.squad = content.squad /\ m.destination = content.destination
      /\ m.execution_mode = Loaded(document).execution_mode
      /\ content.source = SourceHash(m, Loaded(document))
      /\ ArtifactsValid(m, Loaded(document), files)

-----------------------------------------------------------------------------
(* The inductive invariant, about the receipts and the files they answer for. *)

\* Every receipt is the one of an accepted snapshot, and lies where it belongs.
ReceiptsInv ==
  /\ tree = [root \in Roots |-> tree[root]]
  /\ DOMAIN truth = Receipts
  /\ \A root \in Roots : \A q \in Installed(root) : \E s \in Rendered :
       /\ q = ReceiptPath(s.manifest) /\ TargetAllowed(s.manifest.destination, root)
       /\ tree[root][q] = [content |-> Receipt(s.manifest, s.roster, s.files),
                           executable |-> FALSE]
       /\ truth[<<root, q>>] = s.goals

\* What a receipt lists is there as it says, and in no other receipt.
OwnedInv ==
  \A root \in Roots : \A q \in Installed(root) :
    /\ \A p \in DOMAIN Owned(root, q) : Present(root, p) /\ tree[root][p] = Owned(root, q)[p]
    /\ \A r \in Installed(root) \ {q} : DOMAIN Owned(root, q) \cap DOMAIN Owned(root, r) = {}

AccountedInv ==
  \A root \in Roots : \A p \in DOMAIN tree[root] \ Installed(root) :
    \E q \in Installed(root) : p \in DOMAIN Owned(root, q)

ExportInv == ReceiptsInv /\ OwnedInv /\ AccountedInv

-----------------------------------------------------------------------------
(* Properties. *)

TypeOK ==
  /\ DOMAIN tree = Roots
  /\ \A r \in Roots, p \in UNION {DOMAIN tree[q] : q \in Roots} :
       Present(r, p) => /\ p # <<>> /\ \A i \in DOMAIN p : p[i] # <<>>
                        /\ tree[r][p].executable \in BOOLEAN
  /\ DOMAIN truth = Receipts /\ \A x \in Receipts : truth[x].root \in BOOLEAN

\* Whatever is exported, re-exported and uninstalled around it, an installed
\* export passes its own validation: what plan_export wrote is what
\* validate_installed_export recomputes from the loaded files alone.
InstalledValidates == \A x \in Receipts : Validates(x[1], x[2])

\* Every file is a receipt or belongs to exactly one: re-exports leave no
\* orphan and no two squads or destinations share a file.
OneOwnerEach ==
  \A root \in Roots : \A p \in DOMAIN tree[root] \ Installed(root) :
    Cardinality({q \in Installed(root) : p \in DOMAIN Owned(root, q)}) = 1

\* No squad is refused a project or user export because of what other squads
\* installed: the provider identifiers of different squads never coincide,
\* however their ids are built from each other's or cut to the limit.
Unhindered ==
  \A s \in Rendered, root \in Roots :
    s.manifest.destination # "plugin" /\ TargetAllowed(s.manifest.destination, root)
      => Installable(s, root)

ClaudeDirectory(destination) ==
  IF destination = "plugin" THEN <<Name("agents")>> ELSE <<Name(".claude"), Name("agents")>>

RoleMapPath(root, receipt) ==
  Append(SnapshotPrefix(tree[root][receipt].content.destination,
                        ProviderNamespace(tree[root][receipt].content.squad)),
         Name("provider-role-map.json"))

HasRoleMap(root, receipt) == RoleMapPath(root, receipt) \in DOMAIN Owned(root, receipt)

RoleMap(root, receipt) == Owned(root, receipt)[RoleMapPath(root, receipt)].content.roles

\* The permission hook finds an agent's role through the role map next to the
\* manifest: the installed Claude agents are the entries of that map, each of
\* one role that the roster next to it has as active, and the map of no other
\* squad names them.
AgentsResolve ==
  \A x \in Receipts :
    LET receipt == tree[x[1]][x[2]].content
        files == [p \in DOMAIN receipt.files |-> receipt.files[p].content]
        agents == {files[p].name : p \in AgentPaths(files, ClaudeDirectory(receipt.destination), ".md")}
        active == {r.id : r \in {r \in ToSet(files[RosterPath(receipt)].document.roles) : Active(r)}}
    IN  agents # {} =>
          /\ HasRoleMap(x[1], x[2])
          /\ Functional(RoleMap(x[1], x[2]))
          /\ {e[1] : e \in RoleMap(x[1], x[2])} = agents
          /\ {e[2] : e \in RoleMap(x[1], x[2])} = active
          /\ \A y \in Receipts :
               HasRoleMap(y[1], y[2]) /\ tree[y[1]][y[2]].content.squad # receipt.squad
                 => agents \cap {e[1] : e \in RoleMap(y[1], y[2])} = {}

LiveRole(r) ==
  \E e \in r.environment :
    \/ e.context # <<>>
    \/ \E v \in DOMAIN e.variables : e.variables[v] # ""
    \/ \E t \in ToSet(e.tools) : t.verify \cup t.install # {}

LiveInstructions(i) == \E e \in i.environment : e[2] # {}

Live(content) ==
  CASE content.kind = "roster" -> \E r \in ToSet(content.document.roles) : LiveRole(r)
    [] content.kind = "prompt" -> \E r \in content.roles : LiveRole(r)
    [] content.kind \in {"role", "skill", "codex-agent"} -> LiveInstructions(content.instructions)
    [] content.kind = "dispatch" -> \E x \in content.roles : LiveInstructions(x[2])
    [] OTHER -> FALSE

\* Environment values, context sources and install commands stay with the
\* live roster: no file and no prompt carries them, whichever adapter, copy
\* or destination renders the role.
NothingLive ==
  /\ \A root \in Roots : \A p \in DOMAIN tree[root] : ~Live(tree[root][p].content)
  /\ \A x \in Prompts : ~Live(x)

\* An installed snapshot stands for its source: its manifest and roster,
\* exported again with the same goals, give the same files.
ReproducesItself ==
  \A x \in Receipts :
    LET id == tree[x[1]][x[2]].content
        m == tree[x[1]][ManifestPath(id)].content.document
        roster == Loaded(tree[x[1]][RosterPath(id)].content.document)
    IN  Files(Desired(m, roster, truth[x]))
          = [p \in DOMAIN id.files |-> tree[x[1]][p].content]

\* A plugin that registers hooks has them where it says, every script of a
\* package is executable in every copy, and a plugin that leaves the runtime
\* to Codex has no hooks where Claude looks for them.
RegisteredHooksRunnable ==
  \A root \in Roots :
    LET files == tree[root]
        plugin == In(".claude-plugin", <<Name("plugin.json")>>)
    IN  /\ \A p \in DOMAIN files :
             Last(Last(p)) = ".sh" => files[p].executable
        /\ plugin \in DOMAIN files =>
             /\ files[plugin].content.hooks \subseteq DOMAIN files
             /\ files[plugin].content.hooks = {p \in HookScripts : p \in DOMAIN files}

\* The context index tells the reader what the snapshot has: "included" for
\* the goals that existed at the last export, each with that text, and there
\* is no other body, stale or of a role that left.
ContextTruthful ==
  \A x \in Receipts :
    LET id == tree[x[1]][x[2]].content
        context == Append(SnapshotPrefix(id.destination, ProviderNamespace(id.squad)), Name("context"))
        index == tree[x[1]][Append(context, Name("index.json"))].content
        at(snapshot) == Front(context) \o snapshot
        entries == {index.squad} \cup {e[2] : e \in index.roles}
        included == {e \in entries : e.status = "included"}
    IN  /\ \A e \in entries : e \in included <=> Found(e.source, truth[x]) # {}
        /\ \A e \in included : \A t \in Found(e.source, truth[x]) :
             tree[x[1]][at(e.snapshot)].content.text = t
        /\ {p \in DOMAIN tree[x[1]] : IsStrictPrefix(context, p)}
             = {at(e.snapshot) : e \in included} \cup {Append(context, Name("index.json"))}

\* The adapters keep separate tables of what mutates, Claude's of tools and
\* Codex's of capabilities: unless an override names the Claude tools, an agent
\* warned as mutating for one provider has a writable sandbox, and is dispatched
\* alone, under the other.
AdaptersAgree ==
  \A x \in Receipts :
    LET id == tree[x[1]][x[2]].content
        contents == {id.files[p].content : p \in DOMAIN id.files}
        claude == {c \in contents : c.kind = "claude-agent"}
        codex == {c \in contents : c.kind = "codex-agent"}
    IN  \A r \in ToSet(id.files[RosterPath(id)].content.document.roles) :
          OverrideTools(r) = {} =>
            \A a \in claude, b \in codex :
              a.role = r.id /\ b.instructions.role = r.id =>
                /\ a.mutating <=> b.sandbox = "workspace-write"
                /\ a.mutating <=> b.instructions.sequential
=============================================================================
