--------------------------- MODULE SquadCompilers ---------------------------
(***************************************************************************)
(* The two provider adapters: from a manifest and a loaded roster to       *)
(* artifacts, pairs of a path and a content.  A path is a sequence of      *)
(* names, a name a sequence of tokens (see Namespaces).  A content is a    *)
(* record of what the artifact tells its reader; wording and layout are    *)
(* left out.                                                               *)
(***************************************************************************)
EXTENDS SquadContracts, Namespaces

Name(token) == <<token>>
In(directory, path) == <<Name(directory)>> \o path
File(identifier, suffix) == <<Append(identifier, suffix)>>

HookScripts ==
  {In("hooks", File(<<h>>, ".sh")) : h \in {"permission-request", "session-start",
                                           "user-prompt-submit"}}

RuntimeDirectories == {"commands", "hooks", "skills", "templates"}

License == <<Name("LICENSE")>>

\* Names that start with .env and compiled Python count as ".env".
PrivateRuntime(path) ==
  \E i \in DOMAIN path :
    path[i] \in {Name(n) : n \in {"__pycache__", ".git", ".squad", "credentials",
      "engagement-records", "engagements", "private-state", "secret", "secrets",
      "worktrees", "workspaces", ".env"}}

\* collect_runtime_files: the static part of a source tree.
CollectRuntime(sourceTree) ==
  [p \in {q \in DOMAIN sourceTree : /\ q = License \/ q[1][1] \in RuntimeDirectories
                              /\ ~PrivateRuntime(q)} |-> sourceTree[p]]

ActiveRoles(roster) == {r \in ToSet(roster.roles) : Active(r)}

RoleId(m, r) == ProviderRoleId(m.squad, r.id)

\* Mutant of ProviderRoleMap: inactive roles too.
ProviderRoleMapOfAll(m, roster) ==
  [kind |-> "role-map", roles |-> {<<RoleId(m, r), r.id>> : r \in ToSet(roster.roles)}]

ProviderRoleMap(m, roster) ==
  [kind |-> "role-map", roles |-> {<<RoleId(m, r), r.id>> : r \in ActiveRoles(roster)}]

SnapshotPrefix(destination, namespace) ==
  CASE destination = "project" -> <<Name(".squad"), Name("exports"), namespace>>
    [] destination = "user" -> <<Name(".squad"), Name("squads"), namespace>>
    [] OTHER -> <<Name(".squad")>>

\* What either adapter says of the working directory: names, never values.
EnvironmentNames(e) ==
  [workspace |-> e.workspace, directories |-> ToSet(e.directories),
   variables |-> DOMAIN e.variables, tools |-> {<<t.name, t.kind>> : t \in ToSet(e.tools)}]

-----------------------------------------------------------------------------
(* Claude. *)

ToolOf(capability) ==
  CASE capability = "filesystem.edit" -> {"Edit"}
    [] capability = "filesystem.glob" -> {"Glob"}
    [] capability = "filesystem.read" -> {"Read"}
    [] capability = "filesystem.search" -> {"Grep"}
    [] capability = "filesystem.write" -> {"Write"}
    [] capability = "network.fetch" -> {"WebFetch"}
    [] capability = "network.search" -> {"WebSearch"}
    [] capability = "notebook.edit" -> {"NotebookEdit"}
    [] capability = "shell.execute" -> {"Bash"}
    [] OTHER -> {}

OverrideTools(r) == UNION {ToSet(o.tools) : o \in ClaudePart(r)}

Tools(r) ==
  IF OverrideTools(r) # {} THEN OverrideTools(r)
                           ELSE UNION {ToolOf(c) : c \in ToSet(r.capabilities)}

\* external.mcp, provider.claude.tool and unknown capabilities need an override.
ToolsMapped(r) == OverrideTools(r) # {} \/ \A c \in ToSet(r.capabilities) : ToolOf(c) # {}

Model(r) ==
  LET overrides == UNION {o.model : o \in ClaudePart(r)}
  IN  IF overrides # {} THEN overrides
      ELSE CASE r.profile = "fast" -> {"haiku"}
             [] r.profile = "balanced" -> {"sonnet"}
             [] r.profile = "deep" -> {"opus"}
             [] OTHER -> {"inherit"}

MutatingTools == {"Bash", "Edit", "NotebookEdit", "Write"}

RenderAgent(m, r) ==
  [kind |-> "claude-agent", name |-> RoleId(m, r), tools |-> Tools(r), model |-> Model(r),
   effort |-> r.effort \ {"inherit"}, isolation |-> UNION {o.isolation : o \in ClaudePart(r)},
   role |-> r.id, index |-> SnapshotPrefix(m.destination, ProviderNamespace(m.squad)),
   ownership |-> r.file_ownership, cadence |-> m.execution_mode,
   mutating |-> Tools(r) \cap MutatingTools # {},
   environment |-> {EnvironmentNames(e) : e \in r.environment},
   skills |-> r.onboarded_skills]

ClaudeCompiles(m, roster) ==
  /\ "claude" \in ToSet(m.providers) /\ m.destination # "session"
  /\ m.execution_mode = roster.execution_mode
  /\ \A r \in ActiveRoles(roster) : ToolsMapped(r)

ClaudeAgents(m, roster) ==
  {<<In("agents", File(RoleId(m, r), ".md")), RenderAgent(m, r)>> : r \in ActiveRoles(roster)}

\* Hooks are registered for the runtime owner only.
ClaudePluginManifest(m) ==
  [kind |-> "plugin", name |-> ProviderNamespace(m.squad), version |-> m.export_version,
   hooks |-> IF m.runtime_owner = "claude" THEN HookScripts ELSE {}]

VendoredPaths(m, runtime) ==
  {p \in DOMAIN runtime :
     \/ p = License
     \/ /\ p[1][1] \in RuntimeDirectories
        /\ p[1] = Name("hooks") => m.runtime_owner = "claude"}

VendoredRuntime(m, runtime) == {<<p, runtime[p]>> : p \in VendoredPaths(m, runtime)}

ClaudeGenerated(m, roster) ==
  ClaudeAgents(m, roster) \cup
  {<<In(".claude-plugin", <<Name("plugin.json")>>), ClaudePluginManifest(m)>>,
   <<In(".squad", <<Name("provider-role-map.json")>>), ProviderRoleMap(m, roster)>>,
   <<<<Name("README.md")>>, [kind |-> "readme", squad |-> m.squad, owner |-> m.runtime_owner,
                             roles |-> {RoleId(m, r) : r \in ActiveRoles(roster)}]>>}

ClaudePluginCompiles(m, roster, runtime) ==
  /\ ClaudeCompiles(m, roster)
  /\ License \in DOMAIN runtime
  /\ m.runtime_owner = "claude" => HookScripts \subseteq DOMAIN runtime
  /\ {a[1] : a \in ClaudeGenerated(m, roster)} \cap VendoredPaths(m, runtime) = {}

ClaudePlugin(m, roster, runtime) == VendoredRuntime(m, runtime) \cup ClaudeGenerated(m, roster)

-----------------------------------------------------------------------------
(* Codex. *)

\* Mutant of MutatingCapabilities: forgets notebooks.
MutatingWithoutNotebooks == {"filesystem.edit", "filesystem.write", "shell.execute"}

MutatingCapabilities == {"filesystem.edit", "filesystem.write", "notebook.edit", "shell.execute"}

IsMutating(r) == ToSet(r.capabilities) \cap MutatingCapabilities # {}

Sandbox(r) == IF IsMutating(r) THEN "workspace-write" ELSE "read-only"

SandboxAllowed(r) == \A o \in CodexPart(r) : o.sandbox_mode \subseteq {Sandbox(r)}

ReasoningEffort(r) ==
  LET overrides == UNION {o.reasoning_effort : o \in CodexPart(r)}
  IN  IF overrides # {} THEN overrides
      ELSE IF r.effort # {"inherit"} THEN r.effort
      ELSE CASE r.profile = "fast" -> {"low"}
             [] r.profile = "balanced" -> {"medium"}
             [] r.profile = "deep" -> {"high"}
             [] OTHER -> {"inherit"}

\* Unlike Claude's, the Codex instructions also name the context sources.
Instructions(m, r) ==
  [role |-> r.id, purpose |-> r.purpose, cadence |-> m.execution_mode,
   index |-> SnapshotPrefix(m.destination, ProviderNamespace(m.squad)),
   capabilities |-> ToSet(r.capabilities), ownership |-> r.file_ownership,
   environment |-> {<<EnvironmentNames(e), ToSet(e.context)>> : e \in r.environment},
   skills |-> r.onboarded_skills, sequential |-> IsMutating(r)]

CodexCompiles(m, roster) ==
  /\ "codex" \in ToSet(m.providers) /\ m.execution_mode = roster.execution_mode

AgentToml(m, r) ==
  [kind |-> "codex-agent", name |-> RoleId(m, r), sandbox |-> Sandbox(r),
   model |-> UNION {o.model : o \in CodexPart(r)}, effort |-> ReasoningEffort(r) \ {"inherit"},
   instructions |-> Instructions(m, r)]

RolePrompt(m, r) == [kind |-> "role", instructions |-> Instructions(m, r)]

RoleSkill(m, r) ==
  [kind |-> "skill", name |-> ProviderRoleSkillId(m.squad, r.id),
   instructions |-> Instructions(m, r)]

CodexAgents(m, roster) ==
  {<<In("agents", File(RoleId(m, r), ".toml")), AgentToml(m, r)>> : r \in ActiveRoles(roster)}

SkillFile(identifier) == <<Name("skills"), identifier, Name("SKILL.md")>>

CodexSkills(m, roster) ==
  {<<SkillFile(ProviderRoleSkillId(m.squad, r.id)), RoleSkill(m, r)>> : r \in ActiveRoles(roster)}

DispatchSkill(m, roster) ==
  <<SkillFile(ProviderDispatchSkillId(m.squad)),
    [kind |-> "dispatch", name |-> ProviderDispatchSkillId(m.squad),
     index |-> SnapshotPrefix(m.destination, ProviderNamespace(m.squad)),
     roles |-> {<<RoleId(m, r), Instructions(m, r)>> : r \in ActiveRoles(roster)}]>>

CodexPackage(m, roster, runtime) ==
  CodexSkills(m, roster)
  \cup {<<In("roles", File(RoleId(m, r), ".md")), RolePrompt(m, r)>> : r \in ActiveRoles(roster)}
  \cup {<<IF p = License THEN p ELSE In("runtime", p), runtime[p]>> : p \in DOMAIN runtime}
  \cup {DispatchSkill(m, roster),
        <<In(".codex-plugin", <<Name("plugin.json")>>),
          [kind |-> "plugin", name |-> ProviderNamespace(m.squad), version |-> m.export_version,
           writes |-> \E r \in ActiveRoles(roster) : IsMutating(r)]>>}

\* The package at the root and again under the path the marketplace names.
CodexPlugin(m, roster, runtime) ==
  LET nested == <<Name("plugins"), ProviderNamespace(m.squad)>>
  IN  CodexPackage(m, roster, runtime)
      \cup {<<nested \o a[1], a[2]>> : a \in CodexPackage(m, roster, runtime)}
      \cup {<<<<Name(".agents"), Name("plugins"), Name("marketplace.json")>>,
              [kind |-> "marketplace", name |-> ProviderNamespace(m.squad), source |-> nested]>>}
=============================================================================
