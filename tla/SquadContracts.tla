--------------------------- MODULE SquadContracts ---------------------------
(***************************************************************************)
(* The provider-neutral contracts: which documents the loaders accept and  *)
(* what they make of them, the legacy roster migration included.           *)
(*                                                                         *)
(* A document is a record with every key the loader reads; an optional key *)
(* holds {} or {value}, because an absent key and null load alike.  A      *)
(* loaded object and what to_dict writes for it have the same shape: the   *)
(* dictionary omits exactly the keys that are {} and the defaults.  Texts  *)
(* stand for classes of texts: Blank for all that .strip() empties, Unsafe *)
(* for all that _relative_path refuses.  Keys nobody knows and values of   *)
(* the wrong JSON type are refused like Blank.                             *)
(***************************************************************************)
EXTENDS Naturals, Sequences, SequencesExt, FiniteSets

CONSTANTS Blank, Unsafe

Destinations == {"session", "project", "user", "plugin"}
Providers == {"claude", "codex"}
Modes == {"one-time", "multi-use", "evergreen"}
Profiles == {"fast", "balanced", "deep", "inherit"}
Efforts == {"inherit", "low", "medium", "high", "xhigh", "max"}

Texts(values) == \A t \in values : t # Blank

\* _string_tuple
Strings(list) == IsInjective(list) /\ Texts(ToSet(list))

RelativePath(t) == t \notin {Blank, Unsafe}

-----------------------------------------------------------------------------
(* The manifest. *)

ManifestLoads(m) ==
  /\ m.schema_version = {2}
  /\ m.destination \in Destinations /\ m.execution_mode \in Modes
  /\ m.providers # <<>> /\ IsInjective(m.providers)
  /\ ToSet(m.providers) \subseteq Providers
  /\ m.runtime_owner \in ToSet(m.providers)
  /\ Len(m.squad) > 0 /\ m.export_version # Blank

\* to_dict sorts the providers.
ManifestDict(m) ==
  [m EXCEPT !.providers = IF ToSet(@) = Providers THEN <<"claude", "codex">> ELSE @]

-----------------------------------------------------------------------------
(* Roles. *)

FileOwnershipLoads(f) ==
  /\ f.include # <<>>
  /\ \A paths \in {f.include, f.exclude} :
       Strings(paths) /\ \A p \in ToSet(paths) : RelativePath(p)

ContextValid(c) ==
  /\ c.kind \in {"copy", "link", "fetch"} /\ RelativePath(c.target)
  /\ IF c.kind = "fetch" THEN c.source # Blank ELSE RelativePath(c.source)

ToolValid(t) ==
  t.kind \in {"local", "system", "mcp"} /\ Texts({t.name} \cup t.verify \cup t.install)

\* Environment.__post_init__: what any Environment satisfies, migrated or loaded.
EnvironmentValid(e) ==
  /\ RelativePath(e.workspace)
  /\ IsInjective(e.directories) /\ \A d \in ToSet(e.directories) : RelativePath(d)
  /\ \A c \in ToSet(e.context) : ContextValid(c)
  /\ \A t \in ToSet(e.tools) : ToolValid(t)
  /\ Blank \notin DOMAIN e.variables

\* ClaudeOverride.__post_init__ asks less of the tools than from_dict does.
ClaudeOverrideValid(o) ==
  /\ Texts(o.model \cup ToSet(o.tools)) /\ o.isolation \subseteq {"worktree"}
  /\ \A f \in o.agent_file : RelativePath(f)

ClaudeOverrideLoads(o) ==
  /\ ClaudeOverrideValid(o) /\ Strings(o.tools)
  /\ o.model # {} \/ o.tools # <<>> \/ o.agent_file # {} \/ o.isolation # {}

CodexOverrideLoads(o) ==
  /\ Texts(o.model)
  /\ o.reasoning_effort \subseteq Efforts
  /\ o.sandbox_mode \subseteq {"read-only", "workspace-write"}
  /\ o.model # {} \/ o.reasoning_effort # {} \/ o.sandbox_mode # {}

OverridesLoad(r) ==
  \A o \in r.provider_overrides :
    /\ o.claude # {} \/ o.codex # {}
    /\ \A c \in o.claude : ClaudeOverrideLoads(c)
    /\ \A c \in o.codex : CodexOverrideLoads(c)

\* _claude_override and _codex_override of the adapters: {} or {the part}.
ClaudePart(r) == UNION {o.claude : o \in r.provider_overrides}
CodexPart(r) == UNION {o.codex : o \in r.provider_overrides}

SkillLoads(s) ==
  /\ Texts({s.name, s.purpose}) /\ RelativePath(s.local_path)
  /\ s.approval_mode \in {"user", "auto"}
  /\ s.kind \subseteq {"knowledge", "execution"}

\* Role.__post_init__
RoleValid(r) ==
  /\ Len(r.id) > 0 /\ r.purpose # Blank
  /\ r.capabilities # <<>> /\ Strings(r.capabilities)
  /\ \A g \in r.goal_ref : RelativePath(g)
  /\ \A i, j \in DOMAIN r.onboarded_skills :
       r.onboarded_skills[i].name = r.onboarded_skills[j].name => i = j

RoleLoads(r) ==
  /\ RoleValid(r) /\ OverridesLoad(r)
  /\ FileOwnershipLoads(r.file_ownership)
  /\ r.profile \in Profiles /\ r.effort \subseteq Efforts
  /\ r.active \subseteq BOOLEAN
  /\ \A e \in r.environment : EnvironmentValid(e)
  /\ \A s \in ToSet(r.onboarded_skills) : SkillLoads(s)

Default(option, value) == IF option = {} THEN {value} ELSE option

SkillLoaded(s) == [s EXCEPT !.kind = Default(@, "knowledge")]

RoleLoaded(r) ==
  [r EXCEPT !.active = Default(@, TRUE), !.effort = Default(@, "inherit"),
            !.onboarded_skills = [i \in DOMAIN @ |-> SkillLoaded(@[i])]]

Active(role) == role.active = {TRUE}

-----------------------------------------------------------------------------
(* Rosters of schema version 2. *)

RosterValid(d) ==
  /\ RelativePath(d.squad_goal_ref) /\ d.execution_mode \in Modes
  /\ \A i, j \in DOMAIN d.roles : d.roles[i].id = d.roles[j].id => i = j

RosterLoads(d) == RosterValid(d) /\ \A r \in ToSet(d.roles) : RoleLoads(r)

RosterLoaded(d) == [d EXCEPT !.roles = [i \in DOMAIN @ |-> RoleLoaded(@[i])]]

-----------------------------------------------------------------------------
(* Legacy rosters: no schema_version, Claude's tools and models. *)

LegacyCapability(tool) ==
  CASE tool = "Bash" -> "shell.execute"
    [] tool = "Edit" -> "filesystem.edit"
    [] tool = "Glob" -> "filesystem.glob"
    [] tool = "Grep" -> "filesystem.search"
    [] tool = "Read" -> "filesystem.read"
    [] tool = "Write" -> "filesystem.write"
    [] tool = "mcp__tool" -> "external.mcp"
    [] OTHER -> "provider.claude.tool"

LegacyProfile(model) ==
  CASE model = "inherit" -> "inherit"
    [] model = "haiku" -> "fast"
    [] model = "sonnet" -> "balanced"
    [] OTHER -> "deep"

LegacyEnvironment(e) ==
  [workspace |-> e.workspace, directories |-> e.dirs, variables |-> e.env,
   context |-> e.context, tools |-> e.tools]

\* _legacy_role builds a ClaudeOverride and a Role: only __post_init__ checks.
LegacyRole(r) ==
  [id |-> r.name, purpose |-> r.purpose,
   file_ownership |-> [include |-> r.file_scope, exclude |-> <<>>],
   capabilities |-> SetToSeq({LegacyCapability(t) : t \in ToSet(r.tools)}),
   profile |-> LegacyProfile(r.model), effort |-> Default(r.effort, "inherit"),
   active |-> Default(r.active, TRUE), goal_ref |-> r.role_goal,
   environment |-> {LegacyEnvironment(e) : e \in r.environment},
   provider_overrides |-> {[claude |-> {[model |-> {r.model}, tools |-> r.tools,
                                         agent_file |-> r.agent_file, isolation |-> r.isolation]},
                            codex |-> {}]},
   onboarded_skills |-> <<>>]

Migrated(d) ==
  [schema_version |-> {2}, squad_goal_ref |-> d.squad_goal_ref,
   execution_mode |-> d.mode, roles |-> [i \in DOMAIN d.roles |-> LegacyRole(d.roles[i])]]

Migrates(d) ==
  /\ RosterValid(Migrated(d))
  /\ \A r \in ToSet(Migrated(d).roles) :
       /\ RoleValid(r) /\ FileOwnershipLoads(r.file_ownership)
       /\ r.effort \subseteq Efforts /\ r.active \subseteq BOOLEAN
       /\ \A o \in ClaudePart(r) : ClaudeOverrideValid(o)
       /\ \A e \in r.environment : EnvironmentValid(e)

\* load_roster
Loads(d) == IF d.schema_version = {} THEN Migrates(d)
                                     ELSE d.schema_version = {2} /\ RosterLoads(d)

Loaded(d) == IF d.schema_version = {} THEN Migrated(d) ELSE RosterLoaded(d)
=============================================================================
