------------------------- MODULE SquadExport_proofs -------------------------
(***************************************************************************)
(* Proofs about SquadExport, for any drafts, goals, source tree and roots: *)
(* every receipt is that of a snapshot the exporter accepted, and what     *)
(* holds of those holds of the installed files.                            *)
(***************************************************************************)
EXTENDS SquadExport, Namespaces_proofs, FiniteSetTheorems, TLAPS

-----------------------------------------------------------------------------
(* Loaded rosters, and what making them portable leaves alone. *)

EnvironmentKeys == {"workspace", "directories", "variables", "context", "tools"}

\* A loaded role: every key is there, and no default is left to fill in.
CanonicalRole(r) ==
  /\ r = [k \in RoleKeys |-> r[k]]
  /\ r.active # {} /\ r.effort # {}
  /\ r.onboarded_skills = [i \in DOMAIN r.onboarded_skills |-> r.onboarded_skills[i]]
  /\ \A i \in DOMAIN r.onboarded_skills :
       LET s == r.onboarded_skills[i]
       IN  s = [k \in DOMAIN s |-> s[k]] /\ s.kind # {}
  /\ \A e \in r.environment :
       /\ DOMAIN e = EnvironmentKeys
       /\ \A i \in DOMAIN e.tools : DOMAIN e.tools[i] = {"name", "kind", "verify", "install"}

CanonicalRoster(roster) ==
  /\ DOMAIN roster = {"schema_version", "squad_goal_ref", "execution_mode", "roles"}
  /\ roster = [k \in DOMAIN roster |-> roster[k]]
  /\ roster.schema_version = {2}
  /\ roster.roles = [i \in DOMAIN roster.roles |-> roster.roles[i]]
  /\ \A i \in DOMAIN roster.roles : CanonicalRole(roster.roles[i])

\* RoleLoaded fills in the defaults of a role that has all keys.
LEMMA RoleLoadedIsCanonical ==
  ASSUME NEW r, DOMAIN r = RoleKeys,
         \A s \in ToSet(r.onboarded_skills) :
           DOMAIN s = {"name", "local_path", "purpose", "approval_mode", "kind"},
         \A e \in r.environment :
           /\ DOMAIN e = EnvironmentKeys
           /\ \A t \in ToSet(e.tools) : DOMAIN t = {"name", "kind", "verify", "install"}
  PROVE  CanonicalRole(RoleLoaded(r))
<1> DEFINE l == RoleLoaded(r)
<1>1. DOMAIN l = RoleKeys /\ l = [k \in RoleKeys |-> l[k]]
  BY DEF RoleLoaded
<1>2. l.active = Default(r.active, TRUE) /\ l.effort = Default(r.effort, "inherit")
  BY DEF RoleLoaded, RoleKeys
<1>3. l.onboarded_skills = [i \in DOMAIN r.onboarded_skills |-> SkillLoaded(r.onboarded_skills[i])]
  BY DEF RoleLoaded, RoleKeys
<1>4. l.environment = r.environment
  BY DEF RoleLoaded, RoleKeys
<1> HIDE DEF l
<1>5. l.active # {} /\ l.effort # {}
  BY <1>2 DEF Default
<1>6. ASSUME NEW i \in DOMAIN l.onboarded_skills
      PROVE  LET s == l.onboarded_skills[i]
             IN  s = [k \in DOMAIN s |-> s[k]] /\ s.kind # {}
  <2> DEFINE s == r.onboarded_skills[i]
  <2>1. i \in DOMAIN r.onboarded_skills /\ l.onboarded_skills[i] = SkillLoaded(s)
    BY <1>3
  <2>2. "kind" \in DOMAIN s
    BY <2>1 DEF ToSet
  <2> HIDE DEF s
  <2>3. SkillLoaded(s) = [k \in DOMAIN SkillLoaded(s) |-> SkillLoaded(s)[k]]
    BY DEF SkillLoaded
  <2>4. SkillLoaded(s).kind # {}
    BY <2>2 DEF SkillLoaded, Default
  <2> QED
    BY <2>1, <2>3, <2>4
<1>7. l.onboarded_skills = [i \in DOMAIN l.onboarded_skills |-> l.onboarded_skills[i]]
  BY <1>3
<1>8. CanonicalRole(l)
  BY <1>1, <1>4, <1>5, <1>6, <1>7 DEF CanonicalRole, ToSet
<1> QED
  BY <1>8 DEF l

\* A migrated role is one, too.
LEMMA LegacyRoleIsCanonical ==
  ASSUME NEW r,
         \A e \in r.environment : \A t \in ToSet(e.tools) :
           DOMAIN t = {"name", "kind", "verify", "install"}
  PROVE  CanonicalRole(LegacyRole(r))
<1> DEFINE l == LegacyRole(r)
<1>1. DOMAIN l = RoleKeys /\ l = [k \in RoleKeys |-> l[k]]
  BY DEF LegacyRole, RoleKeys
<1>2. l.active # {} /\ l.effort # {} /\ l.onboarded_skills = <<>>
  BY DEF LegacyRole, Default
<1>3. l.environment = {LegacyEnvironment(e) : e \in r.environment}
  BY DEF LegacyRole
<1>4. ASSUME NEW e \in l.environment
      PROVE  /\ DOMAIN e = EnvironmentKeys
             /\ \A i \in DOMAIN e.tools : DOMAIN e.tools[i] = {"name", "kind", "verify", "install"}
  BY <1>3 DEF LegacyEnvironment, EnvironmentKeys, ToSet
<1> HIDE DEF l
<1>5. /\ DOMAIN l.onboarded_skills = {}
      /\ l.onboarded_skills = [i \in DOMAIN l.onboarded_skills |-> l.onboarded_skills[i]]
  BY <1>2
<1>6. CanonicalRole(l)
  BY <1>1, <1>2, <1>4, <1>5 DEF CanonicalRole
<1> QED
  BY <1>6 DEF l

\* What load_roster returns for an accepted draft.
LEMMA LoadedIsCanonical ==
  ASSUME NEW d \in Drafts, Loads(d.roster)
  PROVE  CanonicalRoster(Loaded(d.roster))
<1>1. CASE d.roster.schema_version = {}
  <2> DEFINE R == Migrated(d.roster)
  <2>1. /\ R.schema_version = {2}
        /\ DOMAIN R = {"schema_version", "squad_goal_ref", "execution_mode", "roles"}
        /\ R = [k \in DOMAIN R |-> R[k]]
        /\ R.roles = [i \in DOMAIN d.roster.roles |-> LegacyRole(d.roster.roles[i])]
    BY DEF Migrated
  <2>2. ASSUME NEW i \in DOMAIN d.roster.roles
        PROVE  CanonicalRole(LegacyRole(d.roster.roles[i]))
    BY DraftsAssumption, LegacyRoleIsCanonical DEF ToSet
  <2> HIDE DEF R
  <2>3. CanonicalRoster(R)
    BY <2>1, <2>2 DEF CanonicalRoster
  <2> QED
    BY <1>1, <2>3 DEF Loaded, R
<1>2. CASE d.roster.schema_version # {}
  <2> DEFINE R == RosterLoaded(d.roster)
  <2>1. d.roster.schema_version = {2}
    BY <1>2 DEF Loads
  <2>2. /\ DOMAIN R = {"schema_version", "squad_goal_ref", "execution_mode", "roles"}
        /\ R = [k \in DOMAIN R |-> R[k]]
        /\ R.schema_version = {2}
        /\ R.roles = [i \in DOMAIN d.roster.roles |-> RoleLoaded(d.roster.roles[i])]
    BY <1>2, <2>1, DraftsAssumption DEF RosterLoaded
  <2>3. ASSUME NEW i \in DOMAIN d.roster.roles
        PROVE  CanonicalRole(RoleLoaded(d.roster.roles[i]))
    <3>1. d.roster.roles[i] \in ToSet(d.roster.roles)
      BY DEF ToSet
    <3> QED
      BY <1>2, <3>1, DraftsAssumption, RoleLoadedIsCanonical DEF EnvironmentKeys
  <2> HIDE DEF R
  <2>4. CanonicalRoster(R)
    BY <2>2, <2>3 DEF CanonicalRoster
  <2> QED
    BY <1>2, <2>4 DEF Loaded, R
<1> QED
  BY <1>1, <1>2

\* Stripping an environment of its live values.
LEMMA EnvironmentIsPortable ==
  ASSUME NEW e, DOMAIN e = EnvironmentKeys,
         \A i \in DOMAIN e.tools : DOMAIN e.tools[i] = {"name", "kind", "verify", "install"}
  PROVE  LET p == PortableEnvironment(e)
         IN  /\ PortableEnvironment(p) = p
             /\ DOMAIN p = EnvironmentKeys
             /\ p.context = <<>>
             /\ \A v \in DOMAIN p.variables : p.variables[v] = ""
             /\ \A i \in DOMAIN p.tools : /\ DOMAIN p.tools[i] = DOMAIN e.tools[i]
                                          /\ p.tools[i].verify = {} /\ p.tools[i].install = {}
BY DEF PortableEnvironment, PortableTool, EnvironmentKeys

PortableOnly(r) ==
  \A e \in r.environment :
    /\ PortableEnvironment(e) = e
    /\ e.context = <<>>
    /\ \A v \in DOMAIN e.variables : e.variables[v] = ""
    /\ \A i \in DOMAIN e.tools : e.tools[i].verify = {} /\ e.tools[i].install = {}

\* Stripping a loaded role leaves a loaded role; there is nothing to add to it
\* and nothing more to take away.
LEMMA RoleIsPortable ==
  ASSUME NEW r, CanonicalRole(r)
  PROVE  LET p == PortableRole(r)
         IN  /\ CanonicalRole(p)
             /\ PortableOnly(p)
             /\ \A k \in RoleKeys \ {"environment"} : p[k] = r[k]
             /\ RoleLoaded(p) = p
             /\ PortableRole(p) = p
<1> DEFINE p == PortableRole(r)
<1>1. /\ p = [k \in RoleKeys |-> p[k]]
      /\ \A k \in RoleKeys \ {"environment"} : p[k] = r[k]
      /\ p.environment = {PortableEnvironment(e) : e \in r.environment}
  BY DEF PortableRole, CanonicalRole, RoleKeys
<1> HIDE DEF p
<1>2. PortableOnly(p)
  <2>1. ASSUME NEW e \in p.environment
        PROVE  /\ PortableEnvironment(e) = e
               /\ e.context = <<>>
               /\ \A v \in DOMAIN e.variables : e.variables[v] = ""
               /\ \A i \in DOMAIN e.tools : e.tools[i].verify = {} /\ e.tools[i].install = {}
    <3>1. PICK old \in r.environment : e = PortableEnvironment(old)
      BY <1>1
    <3>2. /\ DOMAIN old = EnvironmentKeys
          /\ \A i \in DOMAIN old.tools : DOMAIN old.tools[i] = {"name", "kind", "verify", "install"}
      BY DEF CanonicalRole
    <3>3. PortableEnvironment(PortableEnvironment(old)) = PortableEnvironment(old)
      BY <3>2, EnvironmentIsPortable
    <3>4. LET q == PortableEnvironment(old)
          IN  /\ q.context = <<>>
              /\ \A v \in DOMAIN q.variables : q.variables[v] = ""
              /\ \A i \in DOMAIN q.tools : q.tools[i].verify = {} /\ q.tools[i].install = {}
      BY <3>2, EnvironmentIsPortable
    <3> QED
      BY <3>1, <3>3, <3>4
  <2> QED
    BY <2>1 DEF PortableOnly
<1>3. CanonicalRole(p)
  <2>1. /\ p.active = r.active /\ p.effort = r.effort
        /\ p.onboarded_skills = r.onboarded_skills
    BY <1>1 DEF RoleKeys
  <2>2. ASSUME NEW e \in p.environment
        PROVE  /\ DOMAIN e = EnvironmentKeys
               /\ \A i \in DOMAIN e.tools : DOMAIN e.tools[i] = {"name", "kind", "verify", "install"}
    <3>1. PICK old \in r.environment : e = PortableEnvironment(old)
      BY <1>1
    <3>2. DOMAIN e = EnvironmentKeys
      BY <3>1, EnvironmentIsPortable DEF CanonicalRole
    <3>3. e.tools = [i \in DOMAIN old.tools |-> PortableTool(old.tools[i])]
      BY <3>1 DEF PortableEnvironment, CanonicalRole, EnvironmentKeys
    <3>4. \A t : DOMAIN PortableTool(t) = DOMAIN t
      BY DEF PortableTool
    <3>5. \A i \in DOMAIN old.tools : DOMAIN old.tools[i] = {"name", "kind", "verify", "install"}
      BY DEF CanonicalRole
    <3> QED
      BY <3>2, <3>3, <3>4, <3>5
  <2> QED
    BY <1>1, <2>1, <2>2 DEF CanonicalRole
<1>4. RoleLoaded(p) = p
  <2>1. Default(p.active, TRUE) = p.active /\ Default(p.effort, "inherit") = p.effort
    BY <1>3 DEF CanonicalRole, Default
  <2>2. ASSUME NEW i \in DOMAIN p.onboarded_skills
        PROVE  SkillLoaded(p.onboarded_skills[i]) = p.onboarded_skills[i]
    BY <1>3 DEF CanonicalRole, SkillLoaded, Default
  <2>3. [i \in DOMAIN p.onboarded_skills |-> SkillLoaded(p.onboarded_skills[i])]
          = p.onboarded_skills
    BY <1>3, <2>2 DEF CanonicalRole
  <2>4. RoleLoaded(p) =
          [p EXCEPT !.active = Default(p.active, TRUE), !.effort = Default(p.effort, "inherit"),
                    !.onboarded_skills = [i \in DOMAIN p.onboarded_skills |->
                                            SkillLoaded(p.onboarded_skills[i])]]
    BY <1>1 DEF RoleLoaded, RoleKeys
  <2>5. RoleLoaded(p) = [p EXCEPT !.active = p.active, !.effort = p.effort,
                                  !.onboarded_skills = p.onboarded_skills]
    BY <2>1, <2>3, <2>4
  <2> QED
    BY <1>1, <2>5 DEF RoleKeys
<1>5. PortableRole(p) = p
  <2>1. {PortableEnvironment(e) : e \in p.environment} = p.environment
    <3>1. \A e \in p.environment : PortableEnvironment(e) = e
      BY <1>2 DEF PortableOnly
    <3> QED
      BY <3>1
  <2> QED
    BY <1>1, <2>1 DEF PortableRole, RoleKeys
<1> QED
  BY <1>1, <1>2, <1>3, <1>4, <1>5 DEF p

\* The same of a roster.
LEMMA RosterIsPortable ==
  ASSUME NEW roster, CanonicalRoster(roster)
  PROVE  LET p == PortableRoster(roster)
         IN  /\ CanonicalRoster(p)
             /\ RosterLoaded(p) = p
             /\ PortableRoster(p) = p
             /\ p.squad_goal_ref = roster.squad_goal_ref
             /\ p.execution_mode = roster.execution_mode
             /\ p.roles = [i \in DOMAIN roster.roles |-> PortableRole(roster.roles[i])]
             /\ \A i \in DOMAIN p.roles : /\ PortableOnly(p.roles[i])
                                          /\ \A k \in RoleKeys \ {"environment"} :
                                               p.roles[i][k] = roster.roles[i][k]
<1> DEFINE p == PortableRoster(roster)
<1>1. /\ DOMAIN p = {"schema_version", "squad_goal_ref", "execution_mode", "roles"}
      /\ p = [k \in DOMAIN p |-> p[k]]
      /\ p.schema_version = {2}
      /\ p.squad_goal_ref = roster.squad_goal_ref
      /\ p.execution_mode = roster.execution_mode
      /\ p.roles = [i \in DOMAIN roster.roles |-> PortableRole(roster.roles[i])]
  BY DEF PortableRoster, CanonicalRoster
<1> HIDE DEF p
<1>2. ASSUME NEW i \in DOMAIN roster.roles
      PROVE  /\ CanonicalRole(p.roles[i])
             /\ PortableOnly(p.roles[i])
             /\ \A k \in RoleKeys \ {"environment"} : p.roles[i][k] = roster.roles[i][k]
             /\ RoleLoaded(p.roles[i]) = p.roles[i]
             /\ PortableRole(p.roles[i]) = p.roles[i]
  <2>1. p.roles[i] = PortableRole(roster.roles[i]) /\ CanonicalRole(roster.roles[i])
    BY <1>1 DEF CanonicalRoster
  <2> QED
    BY <2>1, RoleIsPortable
<1>3. DOMAIN p.roles = DOMAIN roster.roles /\ p.roles = [i \in DOMAIN p.roles |-> p.roles[i]]
  BY <1>1
<1>4. CanonicalRoster(p)
  BY <1>1, <1>2, <1>3 DEF CanonicalRoster
<1>5. RosterLoaded(p) = p
  <2>1. [i \in DOMAIN p.roles |-> RoleLoaded(p.roles[i])] = p.roles
    BY <1>2, <1>3
  <2> QED
    BY <1>1, <2>1 DEF RosterLoaded
<1>6. PortableRoster(p) = p
  <2>1. [i \in DOMAIN p.roles |-> PortableRole(p.roles[i])] = p.roles
    BY <1>2, <1>3
  <2> QED
    BY <1>1, <2>1 DEF PortableRoster
<1> QED
  BY <1>1, <1>2, <1>3, <1>4, <1>5, <1>6 DEF p

\* What an export renders is already loaded and portable.
LEMMA RenderedRoster ==
  ASSUME NEW d \in Drafts, Loads(d.roster)
  PROVE  LET roster == Loaded(d.roster)
             p == PortableRoster(roster)
         IN  CanonicalRoster(roster) /\ RosterLoaded(p) = p /\ Loaded(p) = p
<1>1. CanonicalRoster(Loaded(d.roster))
  BY LoadedIsCanonical
<1>2. PortableRoster(Loaded(d.roster)).schema_version # {}
  BY <1>1, RosterIsPortable DEF CanonicalRoster
<1> QED
  BY <1>1, <1>2, RosterIsPortable DEF Loaded

-----------------------------------------------------------------------------
(* What is rendered. *)

\* Every file is one of the artifacts.
LEMMA FileIsArtifact ==
  ASSUME NEW artifacts, NEW p \in DOMAIN Files(artifacts)
  PROVE  \E a \in artifacts : a[1] = p /\ Files(artifacts)[p] = a[2]
<1>1. p \in {a[1] : a \in artifacts}
  BY DEF Files
<1>2. \E a \in artifacts : a[1] = p
  BY <1>1
<1>3. (CHOOSE a \in artifacts : a[1] = p) \in artifacts /\ (CHOOSE a \in artifacts : a[1] = p)[1] = p
  BY <1>2
<1>4. Files(artifacts)[p] = (CHOOSE a \in artifacts : a[1] = p)[2]
  BY <1>1 DEF Files
<1> QED
  BY <1>3, <1>4

\* Artifacts that agree on their paths are all there.
LEMMA ArtifactIsFile ==
  ASSUME NEW artifacts, Functional(artifacts), NEW a \in artifacts
  PROVE  a[1] \in DOMAIN Files(artifacts) /\ Files(artifacts)[a[1]] = a[2]
<1>1. a[1] \in DOMAIN Files(artifacts)
  BY DEF Files
<1>2. PICK b \in artifacts : b[1] = a[1] /\ Files(artifacts)[a[1]] = b[2]
  BY <1>1, FileIsArtifact
<1> QED
  BY <1>1, <1>2 DEF Functional

InertKinds ==
  {"static", "index", "goal", "activation", "role-map", "plugin", "readme", "marketplace"}

\* The contents an adapter or the engine makes of a role, or of the active ones.
RoleContent(m, roster, c) ==
  \/ \E r \in ActiveRoles(roster) : c = RenderAgent(m, r)
  \/ \E r \in ActiveRoles(roster) : c = AgentToml(m, r)
  \/ \E r \in ActiveRoles(roster) : c = RoleSkill(m, r)
  \/ \E r \in ActiveRoles(roster) : c = RolePrompt(m, r)
  \/ c = DispatchSkill(m, roster)[2]

\* Each has its kind.
LEMMA RoleContentKinds ==
  ASSUME NEW m, NEW roster, NEW c, RoleContent(m, roster, c)
  PROVE  c.kind \in {"claude-agent", "codex-agent", "skill", "role", "dispatch"}
<1>1. ASSUME NEW r
      PROVE  /\ RenderAgent(m, r).kind = "claude-agent"
             /\ AgentToml(m, r).kind = "codex-agent"
             /\ RoleSkill(m, r).kind = "skill"
             /\ RolePrompt(m, r).kind = "role"
  BY DEF RenderAgent, AgentToml, RoleSkill, RolePrompt
<1>2. DispatchSkill(m, roster)[2].kind = "dispatch"
  BY DEF DispatchSkill
<1> QED
  BY <1>1, <1>2 DEF RoleContent

\* The vendored runtime is static.
LEMMA RuntimeIsStatic ==
  ASSUME NEW p \in DOMAIN CollectRuntime(SourceTree)
  PROVE  CollectRuntime(SourceTree)[p].kind = "static"
BY SourceTreeAssumption DEF CollectRuntime

\* The Claude adapter.
LEMMA ClaudeContents ==
  ASSUME NEW m, NEW roster,
         NEW a, a \in ClaudePlugin(m, roster, CollectRuntime(SourceTree))
                   \/ a \in ClaudeAgents(m, roster)
  PROVE  a[2].kind \in InertKinds \/ RoleContent(m, roster, a[2])
<1>1. CASE a \in ClaudeAgents(m, roster)
  BY <1>1 DEF ClaudeAgents, RoleContent
<1>2. CASE a \in VendoredRuntime(m, CollectRuntime(SourceTree))
  BY <1>2, RuntimeIsStatic DEF VendoredRuntime, VendoredPaths, InertKinds
<1>3. CASE a \in ClaudeGenerated(m, roster) \ ClaudeAgents(m, roster)
  BY <1>3 DEF ClaudeGenerated, ClaudePluginManifest, ProviderRoleMap, InertKinds
<1> QED
  BY <1>1, <1>2, <1>3 DEF ClaudePlugin

\* The Codex adapter.
LEMMA CodexContents ==
  ASSUME NEW m, NEW roster,
         NEW a, \/ a \in CodexPlugin(m, roster, CollectRuntime(SourceTree))
                \/ a \in CodexAgents(m, roster) \/ a \in CodexSkills(m, roster)
  PROVE  a[2].kind \in InertKinds \/ RoleContent(m, roster, a[2])
<1>1. CASE a \in CodexAgents(m, roster) \/ a \in CodexSkills(m, roster)
  BY <1>1 DEF CodexAgents, CodexSkills, RoleContent
<1>2. ASSUME NEW b \in CodexPackage(m, roster, CollectRuntime(SourceTree))
      PROVE  b[2].kind \in InertKinds \/ RoleContent(m, roster, b[2])
  <2>1. CASE b \in CodexSkills(m, roster)
    BY <2>1 DEF CodexSkills, RoleContent
  <2>2. CASE \E r \in ActiveRoles(roster) : b[2] = RolePrompt(m, r)
    BY <2>2 DEF RoleContent
  <2>3. CASE \E p \in DOMAIN CollectRuntime(SourceTree) : b[2] = CollectRuntime(SourceTree)[p]
    BY <2>3, RuntimeIsStatic DEF InertKinds
  <2>4. CASE b = DispatchSkill(m, roster)
    BY <2>4 DEF RoleContent
  <2>5. CASE b[2].kind = "plugin"
    BY <2>5 DEF InertKinds
  <2> QED
    BY <1>2, <2>1, <2>2, <2>3, <2>4, <2>5 DEF CodexPackage
<1>3. ASSUME a \in CodexPlugin(m, roster, CollectRuntime(SourceTree))
      PROVE  \/ \E b \in CodexPackage(m, roster, CollectRuntime(SourceTree)) : a[2] = b[2]
             \/ a[2].kind = "marketplace"
  BY <1>3 DEF CodexPlugin
<1> QED
  BY <1>1, <1>2, <1>3 DEF InertKinds

\* Whatever an export writes: nobody's text, the two documents, or a role's.
LEMMA DesiredContents ==
  ASSUME NEW m, NEW roster, NEW goals, NEW a \in Desired(m, roster, goals)
  PROVE  \/ a[2].kind \in InertKinds
         \/ a[2] = ManifestContent(m)
         \/ a[2] = RosterContent(roster)
         \/ RoleContent(m, RosterLoaded(PortableRoster(roster)), a[2])
<1> DEFINE q == RosterLoaded(PortableRoster(roster))
<1>1. CASE a \in ProviderArtifacts(m, q)
  <2> HIDE DEF q
  <2>1. ASSUME NEW provider, NEW artifacts, a \in Mounted(provider, artifacts)
        PROVE  \E b \in artifacts : a[2] = b[2]
    BY <2>1 DEF Mounted
  <2>2. \E b : /\ a[2] = b[2]
               /\ \/ b \in ClaudePlugin(m, q, CollectRuntime(SourceTree))
                  \/ b \in ClaudeAgents(m, q)
                  \/ b \in CodexPlugin(m, q, CollectRuntime(SourceTree))
                  \/ b \in CodexAgents(m, q) \/ b \in CodexSkills(m, q)
    BY <1>1, <2>1 DEF ProviderArtifacts
  <2>3. a[2].kind \in InertKinds \/ RoleContent(m, q, a[2])
    BY <2>2, ClaudeContents, CodexContents
  <2> QED
    BY <2>3 DEF q
<1>2. CASE a \in EngineArtifacts(m, roster, goals)
  <2>1. CASE a \in PluginExtras(m, roster)
    BY <2>1, RuntimeIsStatic, SourceTreeAssumption DEF PluginExtras, InertKinds
  <2>2. CASE a \in {<<Prefix(m) \o b[1], b[2]>> : b \in ContextBodies(roster, goals)}
    BY <2>2 DEF ContextBodies, InertKinds
  <2> QED
    BY <1>2, <2>1, <2>2 DEF EngineArtifacts, ContextIndex, ProviderRoleMap, InertKinds
<1> QED
  BY <1>1, <1>2 DEF Desired

-----------------------------------------------------------------------------
(* Accepted snapshots. *)

\* Where a snapshot comes from.
LEMMA RenderedComesFrom ==
  ASSUME NEW s \in Rendered
  PROVE  \E d \in Drafts, goals \in GoalFiles :
           LET m == ManifestDict(d.manifest)
               roster == Loaded(d.roster)
           IN  /\ Contracts(d)
               /\ CanonicalRoster(roster)
               /\ Renders(m, roster, goals)
               /\ s.manifest = m /\ s.roster = roster /\ s.goals = Declared(roster, goals)
               /\ s.files = Files(Desired(m, roster, goals))
<1>1. PICK x \in {x \in {d \in Drafts : Contracts(d) /\ ~Session(d)} \X GoalFiles :
                    Renders(ManifestDict(x[1].manifest), Loaded(x[1].roster), x[2])} :
        s = Snapshot(ManifestDict(x[1].manifest), Loaded(x[1].roster), x[2])
  BY DEF Rendered
<1>2. /\ x[1] \in Drafts /\ x[2] \in GoalFiles
      /\ Contracts(x[1])
      /\ Renders(ManifestDict(x[1].manifest), Loaded(x[1].roster), x[2])
  OBVIOUS
<1>3. CanonicalRoster(Loaded(x[1].roster))
  BY <1>2, LoadedIsCanonical DEF Contracts
<1> QED
  BY <1>1, <1>2, <1>3 DEF Snapshot

\* No rendered file is a receipt or in a receipt's place.
LEMMA NoReceiptIsRendered ==
  ASSUME NEW s \in Rendered
  PROVE  /\ ReceiptPath(s.manifest) \notin DOMAIN s.files
         /\ \A p \in DOMAIN s.files : s.files[p].kind # "receipt"
<1>1. PICK d \in Drafts, goals \in GoalFiles :
        LET m == ManifestDict(d.manifest)
            roster == Loaded(d.roster)
        IN  /\ Renders(m, roster, goals)
            /\ s.manifest = m
            /\ s.files = Files(Desired(m, roster, goals))
  BY RenderedComesFrom
<1> DEFINE m == ManifestDict(d.manifest)
           roster == Loaded(d.roster)
<1> HIDE DEF m, roster
<1>2. Renders(m, roster, goals) /\ s.manifest = m /\ s.files = Files(Desired(m, roster, goals))
  BY <1>1 DEF m, roster
<1>3. ASSUME NEW p \in DOMAIN s.files
      PROVE  s.files[p].kind # "receipt"
  <2>1. PICK a \in Desired(m, roster, goals) : s.files[p] = a[2]
    <3> DEFINE artifacts == Desired(m, roster, goals)
    <3> HIDE DEF artifacts
    <3>1. s.files = Files(artifacts)
      BY <1>2 DEF artifacts
    <3>2. \E a \in artifacts : s.files[p] = a[2]
      BY <3>1, FileIsArtifact
    <3> QED
      BY <3>2 DEF artifacts
  <2>2. \/ a[2].kind \in InertKinds
        \/ a[2] = ManifestContent(m)
        \/ a[2] = RosterContent(roster)
        \/ RoleContent(m, RosterLoaded(PortableRoster(roster)), a[2])
    BY DesiredContents
  <2>3. RoleContent(m, RosterLoaded(PortableRoster(roster)), a[2]) => a[2].kind # "receipt"
    BY RoleContentKinds
  <2> QED
    BY <2>1, <2>2, <2>3 DEF InertKinds, ManifestContent, RosterContent
<1> QED
  BY <1>2, <1>3 DEF Renders

-----------------------------------------------------------------------------
(* ExportInv is inductive. *)

\* Nothing is installed at first.
LEMMA InitExportInv == Init => ExportInv
<1> SUFFICES ASSUME Init
             PROVE  ExportInv
  OBVIOUS
<1>1. tree = [root \in Roots |-> tree[root]]
  BY DEF Init
<1>2. \A root \in Roots : DOMAIN tree[root] = {} /\ Installed(root) = {}
  BY DEF Init, Nothing, Installed
<1>3. Receipts = {}
  BY <1>2 DEF Receipts
<1>4. DOMAIN truth = {}
  BY DEF Init, Nothing
<1> QED
  BY <1>1, <1>2, <1>3, <1>4 DEF ExportInv, ReceiptsInv, OwnedInv, AccountedInv

\* A root and a path are a receipt's, or they are not.
LEMMA ReceiptPairs ==
  ASSUME NEW root, NEW q
  PROVE  <<root, q>> \in Receipts <=> root \in Roots /\ q \in Installed(root)
BY DEF Receipts

\* What a receipt of an accepted snapshot says.
LEMMA ReceiptSays ==
  ASSUME NEW s
  PROVE  LET c == Receipt(s.manifest, s.roster, s.files)
         IN  /\ c.kind = "receipt"
             /\ c.squad = s.manifest.squad /\ c.destination = s.manifest.destination
             /\ c.source = SourceHash(s.manifest, s.roster)
             /\ DOMAIN c.files = DOMAIN s.files
             /\ \A p \in DOMAIN s.files :
                  c.files[p] = [content |-> s.files[p],
                                executable |-> p \in Executables(s.manifest, s.files)]
BY DEF Receipt

\* So no receipt lists another receipt, and the execute bits it lists are a
\* matter of the destination and the path.
LEMMA OwnedSays ==
  ASSUME ExportInv, NEW root \in Roots, NEW q \in Installed(root),
         NEW p \in DOMAIN Owned(root, q)
  PROVE  /\ Present(root, p) /\ tree[root][p] = Owned(root, q)[p]
         /\ p \notin Installed(root)
         /\ tree[root][p].executable =
              (tree[root][q].content.destination = "plugin" /\ \E x \in Scripts : IsSuffix(x, p))
<1>1. PICK s \in Rendered :
        tree[root][q] = [content |-> Receipt(s.manifest, s.roster, s.files), executable |-> FALSE]
  BY DEF ExportInv, ReceiptsInv
<1>2. /\ tree[root][q].content.destination = s.manifest.destination
      /\ p \in DOMAIN s.files
      /\ Owned(root, q)[p] = [content |-> s.files[p],
                              executable |-> p \in Executables(s.manifest, s.files)]
  <2> DEFINE c == Receipt(s.manifest, s.roster, s.files)
  <2>1. /\ c.destination = s.manifest.destination
        /\ DOMAIN c.files = DOMAIN s.files
        /\ \A x \in DOMAIN s.files :
             c.files[x] = [content |-> s.files[x],
                           executable |-> x \in Executables(s.manifest, s.files)]
    BY ReceiptSays
  <2>2. tree[root][q].content = c
    BY <1>1
  <2> HIDE DEF c
  <2> QED
    BY <2>1, <2>2 DEF Owned
<1>3. Present(root, p) /\ tree[root][p] = Owned(root, q)[p]
  BY DEF ExportInv, OwnedInv
<1>4. s.files[p].kind # "receipt"
  BY <1>2, NoReceiptIsRendered
<1> QED
  BY <1>2, <1>3, <1>4 DEF Installed, Executables

\* Exporting over nothing, or over the same squad's export: the files of the
\* snapshot are on disk as the new receipt says, its former ones are gone, and no
\* other export's file or receipt is touched.
LEMMA ExportStep ==
  ASSUME ExportInv, NEW s \in Rendered, NEW root \in Roots, Export(s, root)
  PROVE  LET q0 == ReceiptPath(s.manifest)
             new == tree'[root]
         IN  /\ tree' = [r \in Roots |-> IF r = root THEN new ELSE tree[r]]
             /\ new[q0] = [content |-> Receipt(s.manifest, s.roster, s.files), executable |-> FALSE]
             /\ \A p \in DOMAIN s.files :
                  /\ new[p] = [content |-> s.files[p],
                               executable |-> p \in Executables(s.manifest, s.files)]
                  /\ p \in DOMAIN tree[root] => q0 \in Installed(root) /\ p \in DOMAIN Owned(root, q0)
             /\ DOMAIN new = (DOMAIN tree[root] \ Obsolete(s, root)) \cup DOMAIN s.files \cup {q0}
             /\ \A p \in DOMAIN new \ (DOMAIN s.files \cup {q0}) : new[p] = tree[root][p]
             /\ q0 \in DOMAIN tree[root] => q0 \in Installed(root)
             /\ q0 \notin DOMAIN s.files
<1> DEFINE q0 == ReceiptPath(s.manifest)
           new == tree'[root]
           receipt == [content |-> Receipt(s.manifest, s.roster, s.files), executable |-> FALSE]
           fresh(p) == [content |-> s.files[p], executable |-> p \in Executables(s.manifest, s.files)]
<1>1. DOMAIN tree = Roots /\ tree = [r \in Roots |-> tree[r]]
  BY DEF ExportInv, ReceiptsInv
<1>2. tree' = [tree EXCEPT ![root] =
         [p \in (DOMAIN @ \ Obsolete(s, root)) \cup DOMAIN s.files \cup {q0} |->
            IF p = q0 THEN receipt ELSE IF p \in Written(s, root) THEN fresh(p) ELSE @[p]]]
  BY DEF Export
<1>3. Installable(s, root)
  BY DEF Export
<1> HIDE DEF q0, receipt, fresh
<1>4. /\ tree' = [r \in Roots |-> IF r = root THEN new ELSE tree[r]]
      /\ new = [p \in (DOMAIN tree[root] \ Obsolete(s, root)) \cup DOMAIN s.files \cup {q0} |->
                  IF p = q0 THEN receipt ELSE IF p \in Written(s, root) THEN fresh(p)
                  ELSE tree[root][p]]
  BY <1>1, <1>2
<1>5. q0 \in DOMAIN tree[root] =>
        q0 \in Installed(root) /\ tree[root][q0].content.destination = s.manifest.destination
  BY <1>3 DEF Installable, Installed, q0
<1>6. q0 \notin DOMAIN s.files
  BY NoReceiptIsRendered DEF q0
<1>7. ASSUME NEW p \in DOMAIN s.files, p \in DOMAIN tree[root]
      PROVE  q0 \in Installed(root) /\ p \in DOMAIN Owned(root, q0)
  BY <1>3, <1>5, <1>7 DEF Installable, Collisions, Present, q0
<1>8. ASSUME NEW p \in DOMAIN s.files
      PROVE  new[p] = fresh(p)
  <2>1. CASE p \in Written(s, root)
    BY <1>4, <1>6, <2>1
  <2>2. CASE p \notin Written(s, root)
    <3>1. p \in DOMAIN tree[root] /\ tree[root][p].content = s.files[p]
      BY <2>2 DEF Written, Present
    <3>2. q0 \in Installed(root) /\ p \in DOMAIN Owned(root, q0)
      BY <1>7, <3>1
    <3>3. tree[root][q0].content.destination = s.manifest.destination
      BY <1>5, <3>2 DEF Installed
    <3>4. PICK o \in Rendered :
            tree[root][q0] = [content |-> Receipt(o.manifest, o.roster, o.files), executable |-> FALSE]
      BY <3>2 DEF ExportInv, ReceiptsInv
    <3>5. /\ p \in DOMAIN o.files /\ o.manifest.destination = s.manifest.destination
          /\ Owned(root, q0)[p] =
               [content |-> o.files[p], executable |-> p \in Executables(o.manifest, o.files)]
      <4> DEFINE c == Receipt(o.manifest, o.roster, o.files)
      <4>1. /\ c.destination = o.manifest.destination
            /\ DOMAIN c.files = DOMAIN o.files
            /\ \A x \in DOMAIN o.files :
                 c.files[x] = [content |-> o.files[x],
                               executable |-> x \in Executables(o.manifest, o.files)]
        BY ReceiptSays
      <4>2. tree[root][q0].content = c
        BY <3>4
      <4> HIDE DEF c
      <4> QED
        BY <3>2, <3>3, <4>1, <4>2 DEF Owned
    <3>6. tree[root][p] = Owned(root, q0)[p]
      BY <3>2, OwnedSays
    <3>7. (p \in Executables(o.manifest, o.files)) = (p \in Executables(s.manifest, s.files))
      BY <3>5 DEF Executables
    <3>8. tree[root][p] = fresh(p)
      BY <3>1, <3>5, <3>6, <3>7 DEF fresh
    <3> QED
      BY <1>4, <1>6, <2>2, <3>8
  <2> QED
    BY <2>1, <2>2
<1>9. \A p \in DOMAIN new \ (DOMAIN s.files \cup {q0}) : new[p] = tree[root][p]
  BY <1>4 DEF Written
<1>10. DOMAIN new = (DOMAIN tree[root] \ Obsolete(s, root)) \cup DOMAIN s.files \cup {q0}
  BY <1>4
<1>11. new[q0] = receipt
  BY <1>4
<1> HIDE DEF new
<1>12. /\ tree' = [r \in Roots |-> IF r = root THEN new ELSE tree[r]]
       /\ new[q0] = receipt
       /\ \A p \in DOMAIN s.files :
            /\ new[p] = fresh(p)
            /\ p \in DOMAIN tree[root] => q0 \in Installed(root) /\ p \in DOMAIN Owned(root, q0)
       /\ DOMAIN new = (DOMAIN tree[root] \ Obsolete(s, root)) \cup DOMAIN s.files \cup {q0}
       /\ \A p \in DOMAIN new \ (DOMAIN s.files \cup {q0}) : new[p] = tree[root][p]
       /\ q0 \in DOMAIN tree[root] => q0 \in Installed(root)
       /\ q0 \notin DOMAIN s.files
  <2>1. tree' = [r \in Roots |-> IF r = root THEN new ELSE tree[r]]
    BY <1>4
  <2> QED
    BY <2>1, <1>5, <1>6, <1>7, <1>8, <1>9, <1>10, <1>11
<1> QED
  BY <1>12 DEF new, q0, receipt, fresh

\* The receipts after an export: the former ones and the snapshot's.
LEMMA ReceiptsAfterExport ==
  ASSUME ExportInv, NEW s \in Rendered, NEW root \in Roots, Export(s, root)
  PROVE  LET q0 == ReceiptPath(s.manifest)
         IN  /\ Installed(root)' = Installed(root) \cup {q0}
             /\ \A q \in Installed(root) \ {q0} : tree'[root][q] = tree[root][q]
             /\ \A r \in Roots \ {root} : tree'[r] = tree[r] /\ Installed(r)' = Installed(r)
             /\ Receipts' = Receipts \cup {<<root, q0>>}
<1> DEFINE q0 == ReceiptPath(s.manifest)
           new == tree'[root]
<1>1. /\ tree' = [r \in Roots |-> IF r = root THEN new ELSE tree[r]]
      /\ new[q0].content.kind = "receipt"
      /\ \A p \in DOMAIN s.files :
           /\ new[p].content = s.files[p]
           /\ p \in DOMAIN tree[root] => q0 \in Installed(root) /\ p \in DOMAIN Owned(root, q0)
      /\ DOMAIN new = (DOMAIN tree[root] \ Obsolete(s, root)) \cup DOMAIN s.files \cup {q0}
      /\ \A p \in DOMAIN new \ (DOMAIN s.files \cup {q0}) : new[p] = tree[root][p]
      /\ q0 \in DOMAIN tree[root] => q0 \in Installed(root)
  <2> DEFINE receipt == Receipt(s.manifest, s.roster, s.files)
             fresh(p) == [content |-> s.files[p],
                          executable |-> p \in Executables(s.manifest, s.files)]
  <2>1. receipt.kind = "receipt" /\ \A p : fresh(p).content = s.files[p]
    BY ReceiptSays
  <2> HIDE DEF receipt, fresh
  <2>2. /\ tree' = [r \in Roots |-> IF r = root THEN new ELSE tree[r]]
        /\ new[q0] = [content |-> receipt, executable |-> FALSE]
        /\ \A p \in DOMAIN s.files :
             /\ new[p] = fresh(p)
             /\ p \in DOMAIN tree[root] => q0 \in Installed(root) /\ p \in DOMAIN Owned(root, q0)
        /\ DOMAIN new = (DOMAIN tree[root] \ Obsolete(s, root)) \cup DOMAIN s.files \cup {q0}
        /\ \A p \in DOMAIN new \ (DOMAIN s.files \cup {q0}) : new[p] = tree[root][p]
        /\ q0 \in DOMAIN tree[root] => q0 \in Installed(root)
    BY ExportStep DEF receipt, fresh
  <2> HIDE DEF q0, new
  <2>3. new[q0].content.kind = "receipt"
    BY <2>1, <2>2
  <2>4. \A p \in DOMAIN s.files : new[p].content = s.files[p]
    BY <2>1, <2>2
  <2>5. tree' = [r \in Roots |-> IF r = root THEN new ELSE tree[r]]
    BY <2>2
  <2> QED
    BY <2>2, <2>3, <2>4, <2>5
<1>2. \A p \in Obsolete(s, root) : q0 \in Installed(root) /\ p \in DOMAIN Owned(root, q0)
  BY <1>1 DEF Obsolete, Present
<1> HIDE DEF q0, new
<1>3. \A p \in Installed(root) : p \notin DOMAIN s.files /\ p \notin Obsolete(s, root)
  BY <1>1, <1>2, OwnedSays DEF Installed
<1>4. \A p \in DOMAIN s.files : new[p].content.kind # "receipt"
  BY <1>1, NoReceiptIsRendered
<1>5. Installed(root)' = {p \in DOMAIN new : new[p].content.kind = "receipt"}
  BY DEF Installed, new
<1>6. \A q \in Installed(root) \ {q0} : q \in DOMAIN new /\ new[q] = tree[root][q]
  BY <1>1, <1>3 DEF Installed
<1>7. Installed(root)' = Installed(root) \cup {q0}
  <2>1. \A p \in Installed(root) \ {q0} : p \in DOMAIN new /\ new[p].content.kind = "receipt"
    BY <1>6 DEF Installed
  <2>2. q0 \in DOMAIN new /\ new[q0].content.kind = "receipt"
    BY <1>1
  <2>3. \A p \in DOMAIN new \ {q0} : new[p].content.kind = "receipt" => p \in Installed(root)
    BY <1>1, <1>4 DEF Installed
  <2> QED
    BY <1>5, <2>1, <2>2, <2>3
<1>8. \A r \in Roots \ {root} : tree'[r] = tree[r]
  BY <1>1
<1>9. \A r \in Roots \ {root} : Installed(r)' = Installed(r)
  BY <1>8 DEF Installed
<1>10. Receipts' = Receipts \cup {<<root, q0>>}
  <2>1. Receipts' = UNION {{r} \X Installed(r)' : r \in Roots}
    BY DEF Receipts
  <2>2. \A x : x \in Receipts' <=> \E r \in Roots : \E q \in Installed(r)' : x = <<r, q>>
    BY <2>1
  <2>3. \A x : x \in Receipts <=> \E r \in Roots : \E q \in Installed(r) : x = <<r, q>>
    BY DEF Receipts
  <2> QED
    BY <2>2, <2>3, <1>7, <1>9
<1> QED
  BY <1>6, <1>7, <1>8, <1>9, <1>10 DEF q0, new

\* An export keeps the invariant.
LEMMA ExportKeepsInv ==
  ASSUME ExportInv, NEW s \in Rendered, NEW root \in Roots, Export(s, root)
  PROVE  ExportInv'
<1> DEFINE q0 == ReceiptPath(s.manifest)
           new == tree'[root]
           receipt == [content |-> Receipt(s.manifest, s.roster, s.files), executable |-> FALSE]
           fresh(p) == [content |-> s.files[p], executable |-> p \in Executables(s.manifest, s.files)]
<1>1. /\ tree' = [r \in Roots |-> IF r = root THEN new ELSE tree[r]]
      /\ new[q0] = receipt
      /\ \A p \in DOMAIN s.files :
           /\ new[p] = fresh(p)
           /\ p \in DOMAIN tree[root] => q0 \in Installed(root) /\ p \in DOMAIN Owned(root, q0)
      /\ DOMAIN new = (DOMAIN tree[root] \ Obsolete(s, root)) \cup DOMAIN s.files \cup {q0}
      /\ \A p \in DOMAIN new \ (DOMAIN s.files \cup {q0}) : new[p] = tree[root][p]
      /\ q0 \in DOMAIN tree[root] => q0 \in Installed(root)
      /\ q0 \notin DOMAIN s.files
  BY ExportStep
<1>2. /\ Installed(root)' = Installed(root) \cup {q0}
      /\ \A q \in Installed(root) \ {q0} : tree'[root][q] = tree[root][q]
      /\ \A r \in Roots \ {root} : tree'[r] = tree[r] /\ Installed(r)' = Installed(r)
      /\ Receipts' = Receipts \cup {<<root, q0>>}
  BY ReceiptsAfterExport
<1>3. /\ \A q \in Installed(root) \ {q0} : Owned(root, q)' = Owned(root, q)
      /\ \A r \in Roots \ {root} : \A q : Owned(r, q)' = Owned(r, q)
  BY <1>2 DEF Owned
<1>4. /\ DOMAIN Owned(root, q0)' = DOMAIN s.files
      /\ \A p \in DOMAIN s.files : Owned(root, q0)'[p] = fresh(p)
  <2> DEFINE c == Receipt(s.manifest, s.roster, s.files)
  <2>1. /\ DOMAIN c.files = DOMAIN s.files
        /\ \A p \in DOMAIN s.files : c.files[p] = fresh(p)
    BY ReceiptSays
  <2>2. new[q0].content = c
    BY <1>1
  <2> HIDE DEF c, fresh
  <2> QED
    BY <2>1, <2>2 DEF Owned
<1>5. /\ \A p \in Obsolete(s, root) : q0 \in Installed(root) /\ p \in DOMAIN Owned(root, q0)
      /\ q0 \in Installed(root) =>
           \A p \in DOMAIN Owned(root, q0) \ DOMAIN s.files : p \in Obsolete(s, root)
  <2>1. ASSUME q0 \in Installed(root)
        PROVE  /\ Present(root, q0)
               /\ \A p \in DOMAIN Owned(root, q0) : Present(root, p) /\ Unchanged(root, p, q0)
    BY <2>1, OwnedSays DEF Unchanged, Installed, Present
  <2> QED
    BY <1>1, <2>1 DEF Obsolete, Present
<1>6. ASSUME NEW q \in Installed(root)
      PROVE  /\ q \in DOMAIN tree[root]
             /\ \A p \in DOMAIN Owned(root, q) :
                  /\ p \in DOMAIN tree[root] /\ tree[root][p] = Owned(root, q)[p]
                  /\ p \notin Installed(root)
             /\ \A r \in Installed(root) \ {q} : DOMAIN Owned(root, q) \cap DOMAIN Owned(root, r) = {}
  BY OwnedSays DEF Installed, Present, ExportInv, OwnedInv
<1> HIDE DEF q0, new, receipt, fresh
<1>7. ReceiptsInv'
  <2>1. tree' = [r \in Roots |-> tree'[r]]
    BY <1>1
  <2>2. /\ truth' = [x \in DOMAIN truth \cup {<<root, q0>>} |->
                       IF x = <<root, q0>> THEN s.goals ELSE truth[x]]
        /\ TargetAllowed(s.manifest.destination, root)
    BY DEF Export, Installable, q0
  <2>3. DOMAIN truth' = Receipts'
    BY <1>2, <2>2 DEF ExportInv, ReceiptsInv
  <2>4. ASSUME NEW r \in Roots, NEW q \in Installed(r)', <<r, q>> # <<root, q0>>
        PROVE  q \in Installed(r) /\ tree'[r][q] = tree[r][q] /\ truth'[<<r, q>>] = truth[<<r, q>>]
    <3>1. q \in Installed(r) /\ tree'[r][q] = tree[r][q]
      BY <1>2, <2>4
    <3>2. <<r, q>> \in DOMAIN truth
      BY <3>1, ReceiptPairs DEF ExportInv, ReceiptsInv
    <3> QED
      BY <2>2, <2>4, <3>1, <3>2
  <2>5. ASSUME NEW r \in Roots, NEW q \in Installed(r)'
        PROVE  \E o \in Rendered :
                 /\ q = ReceiptPath(o.manifest) /\ TargetAllowed(o.manifest.destination, r)
                 /\ tree'[r][q] = [content |-> Receipt(o.manifest, o.roster, o.files),
                                   executable |-> FALSE]
                 /\ truth'[<<r, q>>] = o.goals
    <3>1. CASE <<r, q>> = <<root, q0>>
      BY <1>1, <2>2, <3>1 DEF receipt, q0, new
    <3>2. CASE <<r, q>> # <<root, q0>>
      <4>1. q \in Installed(r) /\ tree'[r][q] = tree[r][q] /\ truth'[<<r, q>>] = truth[<<r, q>>]
        BY <2>4, <3>2
      <4>2. PICK o \in Rendered :
              /\ q = ReceiptPath(o.manifest) /\ TargetAllowed(o.manifest.destination, r)
              /\ tree[r][q] = [content |-> Receipt(o.manifest, o.roster, o.files),
                              executable |-> FALSE]
              /\ truth[<<r, q>>] = o.goals
        BY <4>1 DEF ExportInv, ReceiptsInv
      <4> QED
        BY <4>1, <4>2
    <3> QED
      BY <3>1, <3>2
  <2> QED
    BY <2>1, <2>3, <2>5 DEF ReceiptsInv
<1>8. OwnedInv'
  <2>1. ASSUME NEW q \in Installed(root)', NEW p \in DOMAIN Owned(root, q)'
        PROVE  p \in DOMAIN new /\ new[p] = Owned(root, q)'[p]
    BY <1>1, <1>2, <1>3, <1>4, <1>5, <1>6, <2>1
  <2>2. ASSUME NEW q \in Installed(root)', NEW r \in Installed(root)' \ {q}
        PROVE  DOMAIN Owned(root, q)' \cap DOMAIN Owned(root, r)' = {}
    BY <1>1, <1>2, <1>3, <1>4, <1>6, <2>2
  <2>3. ASSUME NEW other \in Roots \ {root}, NEW q \in Installed(other)'
        PROVE  /\ \A p \in DOMAIN Owned(other, q)' :
                    p \in DOMAIN tree'[other] /\ tree'[other][p] = Owned(other, q)'[p]
               /\ \A r \in Installed(other)' \ {q} :
                    DOMAIN Owned(other, q)' \cap DOMAIN Owned(other, r)' = {}
    BY <1>2, <1>3, <2>3 DEF ExportInv, OwnedInv, Present
  <2> QED
    BY <2>1, <2>2, <2>3 DEF OwnedInv, Present, new
<1>9. AccountedInv'
  <2>1. ASSUME NEW p \in DOMAIN new \ Installed(root)'
        PROVE  \E q \in Installed(root)' : p \in DOMAIN Owned(root, q)'
    <3>1. CASE p \in DOMAIN s.files
      BY <1>2, <1>4, <3>1
    <3>2. CASE p \notin DOMAIN s.files
      <4>1. p \in DOMAIN tree[root] \ Installed(root) /\ p \notin Obsolete(s, root)
        BY <1>1, <1>2, <3>2
      <4>2. PICK q \in Installed(root) : p \in DOMAIN Owned(root, q)
        BY <4>1 DEF ExportInv, AccountedInv
      <4> QED
        BY <1>2, <1>3, <1>5, <3>2, <4>1, <4>2
    <3> QED
      BY <3>1, <3>2
  <2>2. ASSUME NEW other \in Roots \ {root}, NEW p \in DOMAIN tree'[other] \ Installed(other)'
        PROVE  \E q \in Installed(other)' : p \in DOMAIN Owned(other, q)'
    BY <1>2, <1>3, <2>2 DEF ExportInv, AccountedInv
  <2> QED
    BY <2>1, <2>2 DEF AccountedInv, new
<1> QED
  BY <1>7, <1>8, <1>9 DEF ExportInv

\* An uninstallation takes one export's files and receipt, all of them.
LEMMA UninstallKeepsInv ==
  ASSUME ExportInv, NEW root \in Roots, NEW q0 \in Installed(root), Uninstall(root, q0)
  PROVE  ExportInv'
<1> DEFINE new == tree'[root]
<1>1. /\ q0 \in DOMAIN tree[root]
      /\ \A q \in Installed(root) : \A p \in DOMAIN Owned(root, q) :
           /\ p \in DOMAIN tree[root] /\ tree[root][p] = Owned(root, q)[p]
           /\ p \notin Installed(root)
      /\ \A q \in Installed(root) : \A r \in Installed(root) \ {q} :
           DOMAIN Owned(root, q) \cap DOMAIN Owned(root, r) = {}
  BY OwnedSays DEF Installed, Present, ExportInv, OwnedInv
<1>2. Removed(root, q0) = DOMAIN Owned(root, q0) \cup {q0}
  BY <1>1 DEF Removed, OwnedUnchanged, Unchanged, Present
<1>3. tree' = [tree EXCEPT ![root] = Restrict(@, DOMAIN @ \ Removed(root, q0))]
  BY DEF Uninstall
<1>4. /\ tree' = [r \in Roots |-> IF r = root THEN new ELSE tree[r]]
      /\ DOMAIN new = DOMAIN tree[root] \ (DOMAIN Owned(root, q0) \cup {q0})
      /\ \A p \in DOMAIN new : new[p] = tree[root][p]
  BY <1>2, <1>3 DEF ExportInv, ReceiptsInv, Restrict
<1>5. Installed(root)' = {p \in DOMAIN new : new[p].content.kind = "receipt"}
  BY DEF Installed
<1> HIDE DEF new
<1>6. Installed(root)' = Installed(root) \ {q0}
  BY <1>1, <1>4, <1>5 DEF Installed
<1>7. \A r \in Roots \ {root} : tree'[r] = tree[r]
  BY <1>4
<1>8. /\ \A r \in Roots \ {root} : Installed(r)' = Installed(r)
      /\ \A r \in Roots \ {root} : \A q : Owned(r, q)' = Owned(r, q)
  BY <1>7 DEF Installed, Owned
<1>9. \A q \in Installed(root)' : tree'[root][q] = tree[root][q]
  BY <1>4, <1>5 DEF new
<1>10. \A q \in Installed(root)' : Owned(root, q)' = Owned(root, q)
  BY <1>9 DEF Owned
<1>11. ReceiptsInv'
  <2>1. tree' = [r \in Roots |-> tree'[r]]
    BY <1>4
  <2>2. Receipts' = Receipts \ {<<root, q0>>}
    <3>1. \A x : x \in Receipts' <=> \E r \in Roots : \E q \in Installed(r)' : x = <<r, q>>
      BY DEF Receipts
    <3>2. \A x : x \in Receipts <=> \E r \in Roots : \E q \in Installed(r) : x = <<r, q>>
      BY DEF Receipts
    <3> QED
      BY <3>1, <3>2, <1>6, <1>8
  <2>3. /\ DOMAIN truth' = Receipts'
        /\ \A x \in Receipts' : truth'[x] = truth[x]
    BY <2>2 DEF Uninstall, Restrict, ExportInv, ReceiptsInv
  <2>4. ASSUME NEW r \in Roots, NEW q \in Installed(r)'
        PROVE  \E o \in Rendered :
                 /\ q = ReceiptPath(o.manifest) /\ TargetAllowed(o.manifest.destination, r)
                 /\ tree'[r][q] = [content |-> Receipt(o.manifest, o.roster, o.files),
                                   executable |-> FALSE]
                 /\ truth'[<<r, q>>] = o.goals
    <3>1. q \in Installed(r) /\ tree'[r][q] = tree[r][q]
      BY <1>6, <1>7, <1>8, <1>9
    <3>2. <<r, q>> \in Receipts'
      BY DEF Receipts
    <3>3. truth'[<<r, q>>] = truth[<<r, q>>]
      BY <2>3, <3>2
    <3>4. PICK o \in Rendered :
            /\ q = ReceiptPath(o.manifest) /\ TargetAllowed(o.manifest.destination, r)
            /\ tree[r][q] = [content |-> Receipt(o.manifest, o.roster, o.files),
                            executable |-> FALSE]
            /\ truth[<<r, q>>] = o.goals
      BY <3>1 DEF ExportInv, ReceiptsInv
    <3> QED
      BY <3>1, <3>3, <3>4
  <2> QED
    BY <2>1, <2>3, <2>4 DEF ReceiptsInv
<1>12. OwnedInv'
  <2>1. ASSUME NEW q \in Installed(root)', NEW p \in DOMAIN Owned(root, q)'
        PROVE  p \in DOMAIN new /\ new[p] = Owned(root, q)'[p]
    BY <1>1, <1>4, <1>6, <1>10, <2>1
  <2>2. ASSUME NEW q \in Installed(root)', NEW r \in Installed(root)' \ {q}
        PROVE  DOMAIN Owned(root, q)' \cap DOMAIN Owned(root, r)' = {}
    BY <1>1, <1>6, <1>10, <2>2
  <2>3. ASSUME NEW other \in Roots \ {root}, NEW q \in Installed(other)'
        PROVE  /\ \A p \in DOMAIN Owned(other, q)' :
                    p \in DOMAIN tree'[other] /\ tree'[other][p] = Owned(other, q)'[p]
               /\ \A r \in Installed(other)' \ {q} :
                    DOMAIN Owned(other, q)' \cap DOMAIN Owned(other, r)' = {}
    BY <1>7, <1>8, <2>3 DEF ExportInv, OwnedInv, Present
  <2> QED
    BY <2>1, <2>2, <2>3 DEF OwnedInv, Present, new
<1>13. AccountedInv'
  <2>1. ASSUME NEW p \in DOMAIN new \ Installed(root)'
        PROVE  \E q \in Installed(root)' : p \in DOMAIN Owned(root, q)'
    <3>1. p \in DOMAIN tree[root] \ Installed(root) /\ p \notin DOMAIN Owned(root, q0)
      BY <1>4, <1>6, <2>1
    <3>2. PICK q \in Installed(root) : p \in DOMAIN Owned(root, q)
      BY <3>1 DEF ExportInv, AccountedInv
    <3> QED
      BY <1>6, <1>10, <3>1, <3>2
  <2>2. ASSUME NEW other \in Roots \ {root}, NEW p \in DOMAIN tree'[other] \ Installed(other)'
        PROVE  \E q \in Installed(other)' : p \in DOMAIN Owned(other, q)'
    BY <1>7, <1>8, <2>2 DEF ExportInv, AccountedInv
  <2> QED
    BY <2>1, <2>2 DEF AccountedInv, new
<1> QED
  BY <1>11, <1>12, <1>13 DEF ExportInv

\* Whatever is exported, exported again and uninstalled.
LEMMA NextKeepsInv == ExportInv /\ [Next]_vars => ExportInv'
<1> SUFFICES ASSUME ExportInv, [Next]_vars
             PROVE  ExportInv'
  OBVIOUS
<1>1. CASE \E s \in Rendered, root \in Roots : Export(s, root)
  BY <1>1, ExportKeepsInv
<1>2. CASE \E x \in Receipts : Uninstall(x[1], x[2])
  BY <1>2, UninstallKeepsInv DEF Receipts
<1>3. CASE UNCHANGED vars
  <2>1. UNCHANGED <<tree, truth>>
    BY <1>3 DEF vars
  <2>2. /\ \A root : Installed(root)' = Installed(root)
        /\ \A root, q : Owned(root, q)' = Owned(root, q)
    BY <2>1 DEF Installed, Owned
  <2>3. Receipts' = Receipts
    BY <2>2 DEF Receipts
  <2>4. ReceiptsInv' /\ OwnedInv' /\ AccountedInv'
    <3>1. ReceiptsInv'
      BY <2>1, <2>2, <2>3 DEF ExportInv, ReceiptsInv
    <3>2. OwnedInv'
      BY <2>1, <2>2 DEF ExportInv, OwnedInv, Present
    <3>3. AccountedInv'
      BY <2>1, <2>2 DEF ExportInv, AccountedInv
    <3> QED
      BY <3>1, <3>2, <3>3
  <2> QED
    BY <2>4 DEF ExportInv
<1> QED
  BY <1>1, <1>2, <1>3 DEF Next

\* ExportInv: every receipt is the one of an accepted snapshot, its files are on
\* disk as it says and in no other receipt, and no other file is there.
THEOREM ExportInvariance == Spec => []ExportInv
BY InitExportInv, NextKeepsInv, PTL DEF Spec

-----------------------------------------------------------------------------
(* What follows for what is installed. *)

\* An installed export is an accepted snapshot, file by file.
LEMMA InstalledSnapshot ==
  ASSUME ExportInv, NEW root \in Roots, NEW q \in Installed(root)
  PROVE  \E s \in Rendered :
           LET id == tree[root][q].content
           IN  /\ q = ReceiptPath(s.manifest) /\ TargetAllowed(s.manifest.destination, root)
               /\ id.squad = s.manifest.squad /\ id.destination = s.manifest.destination
               /\ id.source = SourceHash(s.manifest, s.roster)
               /\ truth[<<root, q>>] = s.goals
               /\ DOMAIN id.files = DOMAIN s.files
               /\ \A p \in DOMAIN s.files :
                    /\ p \in DOMAIN tree[root] /\ tree[root][p] = id.files[p]
                    /\ id.files[p].content = s.files[p]
                    /\ id.files[p].executable = (p \in Executables(s.manifest, s.files))
<1>1. PICK s \in Rendered :
        /\ q = ReceiptPath(s.manifest) /\ TargetAllowed(s.manifest.destination, root)
        /\ tree[root][q] = [content |-> Receipt(s.manifest, s.roster, s.files), executable |-> FALSE]
        /\ truth[<<root, q>>] = s.goals
  BY DEF ExportInv, ReceiptsInv
<1> DEFINE c == Receipt(s.manifest, s.roster, s.files)
           fresh(p) == [content |-> s.files[p], executable |-> p \in Executables(s.manifest, s.files)]
<1>2. /\ c.squad = s.manifest.squad /\ c.destination = s.manifest.destination
      /\ c.source = SourceHash(s.manifest, s.roster)
      /\ DOMAIN c.files = DOMAIN s.files
      /\ \A p \in DOMAIN s.files : c.files[p] = fresh(p)
  BY ReceiptSays
<1>3. tree[root][q].content = c
  BY <1>1
<1>4. \A p : fresh(p).content = s.files[p]
  OBVIOUS
<1>5. \A p : fresh(p).executable = (p \in Executables(s.manifest, s.files))
  OBVIOUS
<1> HIDE DEF c, fresh
<1>6. \A p \in DOMAIN s.files : p \in DOMAIN tree[root] /\ tree[root][p] = c.files[p]
  BY <1>2, <1>3, OwnedSays DEF Owned, Present
<1> QED
  BY <1>1, <1>2, <1>3, <1>4, <1>5, <1>6

\* Every other file is one of a snapshot.
LEMMA FileOfSnapshot ==
  ASSUME ExportInv, NEW root \in Roots, NEW p \in DOMAIN tree[root] \ Installed(root)
  PROVE  \E s \in Rendered : p \in DOMAIN s.files /\ tree[root][p].content = s.files[p]
<1>1. PICK q \in Installed(root) : p \in DOMAIN Owned(root, q)
  BY DEF ExportInv, AccountedInv
<1> DEFINE id == tree[root][q].content
<1>2. PICK s \in Rendered :
        /\ DOMAIN id.files = DOMAIN s.files
        /\ \A x \in DOMAIN s.files : /\ x \in DOMAIN tree[root] /\ tree[root][x] = id.files[x]
                                     /\ id.files[x].content = s.files[x]
                                     /\ id.files[x].executable
                                          = (x \in Executables(s.manifest, s.files))
  BY InstalledSnapshot
<1> QED
  BY <1>1, <1>2 DEF Owned

\* OneOwnerEach: every file is a receipt or belongs to exactly one.
THEOREM FilesHaveOneOwner == Spec => []OneOwnerEach
<1>1. ASSUME ExportInv
      PROVE  OneOwnerEach
  <2>1. SUFFICES ASSUME NEW root \in Roots, NEW p \in DOMAIN tree[root] \ Installed(root)
                 PROVE  Cardinality({q \in Installed(root) : p \in DOMAIN Owned(root, q)}) = 1
    BY DEF OneOwnerEach
  <2>2. PICK q \in Installed(root) : p \in DOMAIN Owned(root, q)
    BY <1>1 DEF ExportInv, AccountedInv
  <2>3. {r \in Installed(root) : p \in DOMAIN Owned(root, r)} = {q}
    BY <1>1, <2>2 DEF ExportInv, OwnedInv
  <2> QED
    BY <2>3, FS_Singleton
<1> QED
  BY <1>1, ExportInvariance, PTL

-----------------------------------------------------------------------------
(* Live values stay behind. *)

\* Nothing of a stripped role is live, nor of what is said about it.
LEMMA PortableIsNotLive ==
  ASSUME NEW r, PortableOnly(r)
  PROVE  /\ ~LiveRole(r)
         /\ \A m : ~LiveInstructions(Instructions(m, r))
<1>1. ~LiveRole(r)
  BY DEF LiveRole, PortableOnly, ToSet
<1>2. ASSUME NEW m
      PROVE  ~LiveInstructions(Instructions(m, r))
  <2>1. Instructions(m, r).environment
          = {<<EnvironmentNames(e), ToSet(e.context)>> : e \in r.environment}
    BY DEF Instructions
  <2>2. \A e \in r.environment : ToSet(e.context) = {}
    <3>1. ToSet(<<>>) = {}
      BY DEF ToSet
    <3> QED
      BY <3>1 DEF PortableOnly
  <2> QED
    BY <2>1, <2>2 DEF LiveInstructions
<1> QED
  BY <1>1, <1>2

\* A content that is not made of a role says nothing live.
LEMMA InertIsNotLive ==
  ASSUME NEW c,
         c.kind \notin {"roster", "prompt", "skill", "codex-agent", "role", "dispatch"}
  PROVE  ~Live(c)
BY DEF Live

\* What is made of stripped roles does not, either.
LEMMA RoleContentIsNotLive ==
  ASSUME NEW m, NEW roster, NEW c, RoleContent(m, roster, c),
         \A r \in ActiveRoles(roster) : PortableOnly(r)
  PROVE  ~Live(c)
<1>1. ASSUME NEW r \in ActiveRoles(roster)
      PROVE  /\ ~Live(RenderAgent(m, r))
             /\ ~Live(AgentToml(m, r)) /\ ~Live(RoleSkill(m, r)) /\ ~Live(RolePrompt(m, r))
  <2>1. ~LiveInstructions(Instructions(m, r))
    BY PortableIsNotLive
  <2>2. AgentToml(m, r).kind = "codex-agent" /\ AgentToml(m, r).instructions = Instructions(m, r)
    BY DEF AgentToml
  <2>3. RoleSkill(m, r).kind = "skill" /\ RoleSkill(m, r).instructions = Instructions(m, r)
    BY DEF RoleSkill
  <2>4. RolePrompt(m, r).kind = "role" /\ RolePrompt(m, r).instructions = Instructions(m, r)
    BY DEF RolePrompt
  <2>5. RenderAgent(m, r).kind = "claude-agent"
    BY DEF RenderAgent
  <2>6. \A x : x.kind \in {"role", "skill", "codex-agent"} /\ x.instructions = Instructions(m, r)
                 => ~Live(x)
    BY <2>1 DEF Live
  <2> QED
    BY <2>2, <2>3, <2>4, <2>5, <2>6, InertIsNotLive
<1>2. ~Live(DispatchSkill(m, roster)[2])
  <2> DEFINE c2 == DispatchSkill(m, roster)[2]
  <2>1. /\ c2.kind = "dispatch"
        /\ c2.roles = {<<RoleId(m, r), Instructions(m, r)>> : r \in ActiveRoles(roster)}
    BY DEF DispatchSkill
  <2> HIDE DEF c2
  <2>2. \A x \in c2.roles : ~LiveInstructions(x[2])
    BY <2>1, PortableIsNotLive
  <2>3. ~Live(c2)
    BY <2>1, <2>2 DEF Live
  <2> QED
    BY <2>3 DEF c2
<1> QED
  BY <1>1, <1>2 DEF RoleContent

\* The roles of a rendered roster are stripped.
LEMMA RolesOfPortable ==
  ASSUME NEW roster, CanonicalRoster(roster)
  PROVE  /\ \A r \in ToSet(PortableRoster(roster).roles) : PortableOnly(r)
         /\ \A r \in ActiveRoles(RosterLoaded(PortableRoster(roster))) : PortableOnly(r)
<1> DEFINE p == PortableRoster(roster)
<1>1. RosterLoaded(p) = p /\ \A i \in DOMAIN p.roles : PortableOnly(p.roles[i])
  BY RosterIsPortable
<1> HIDE DEF p
<1>2. \A r \in ToSet(p.roles) : PortableOnly(r)
  BY <1>1 DEF ToSet
<1>3. \A r \in ActiveRoles(p) : PortableOnly(r)
  BY <1>2 DEF ActiveRoles
<1> QED
  BY <1>1, <1>2, <1>3 DEF p

\* NothingLive: no environment value, context source or command of a live roster
\* is in any installed file or in a session's prompt.
THEOREM LiveValuesStayBehind == Spec => []NothingLive
<1>1. ASSUME NEW s \in Rendered, NEW p \in DOMAIN s.files
      PROVE  ~Live(s.files[p])
  <2>1. PICK d \in Drafts, goals \in GoalFiles :
          LET m == ManifestDict(d.manifest)
              roster == Loaded(d.roster)
          IN  CanonicalRoster(roster) /\ s.files = Files(Desired(m, roster, goals))
    BY RenderedComesFrom
  <2> DEFINE m == ManifestDict(d.manifest)
             roster == Loaded(d.roster)
             artifacts == Desired(m, roster, goals)
  <2>2. CanonicalRoster(roster) /\ s.files = Files(artifacts)
    BY <2>1
  <2> HIDE DEF artifacts, m, roster
  <2>3. PICK a \in artifacts : s.files[p] = a[2]
    BY <2>2, FileIsArtifact
  <2>4. \/ a[2].kind \in InertKinds
        \/ a[2] = ManifestContent(m)
        \/ a[2] = RosterContent(roster)
        \/ RoleContent(m, RosterLoaded(PortableRoster(roster)), a[2])
    BY DesiredContents DEF artifacts
  <2>5. CASE a[2].kind \in InertKinds
    BY <2>3, <2>5, InertIsNotLive DEF InertKinds
  <2>6. CASE a[2] = ManifestContent(m)
    BY <2>3, <2>6, InertIsNotLive DEF ManifestContent
  <2>7. CASE a[2] = RosterContent(roster)
    <3>1. a[2].kind = "roster" /\ a[2].document = PortableRoster(roster)
      BY <2>7 DEF RosterContent
    <3>2. \A r \in ToSet(a[2].document.roles) : ~LiveRole(r)
      BY <2>2, <3>1, RolesOfPortable, PortableIsNotLive
    <3> QED
      BY <2>3, <3>1, <3>2 DEF Live
  <2>8. CASE RoleContent(m, RosterLoaded(PortableRoster(roster)), a[2])
    BY <2>2, <2>3, <2>8, RolesOfPortable, RoleContentIsNotLive
  <2> QED
    BY <2>4, <2>5, <2>6, <2>7, <2>8
<1>2. ASSUME NEW x \in Prompts
      PROVE  ~Live(x)
  <2>1. PICK d \in Drafts, goals \in GoalFiles : Contracts(d) /\ x = SessionPrompt(d, goals)
    BY DEF Prompts
  <2>2. /\ x.kind = "prompt"
        /\ x.roles = {r \in ToSet(PortableRoster(Loaded(d.roster)).roles) : Active(r)}
    BY <2>1 DEF SessionPrompt
  <2>3. CanonicalRoster(Loaded(d.roster))
    BY <2>1, LoadedIsCanonical DEF Contracts
  <2>4. \A r \in x.roles : ~LiveRole(r)
    BY <2>2, <2>3, RolesOfPortable, PortableIsNotLive
  <2> QED
    BY <2>2, <2>4 DEF Live
<1>3. ASSUME ExportInv
      PROVE  NothingLive
  <2>1. ASSUME NEW root \in Roots, NEW p \in DOMAIN tree[root]
        PROVE  ~Live(tree[root][p].content)
    <3>1. CASE p \in Installed(root)
      BY <3>1, InertIsNotLive DEF Installed
    <3>2. CASE p \notin Installed(root)
      <4>1. PICK s \in Rendered : p \in DOMAIN s.files /\ tree[root][p].content = s.files[p]
        BY <1>3, <3>2, FileOfSnapshot
      <4> QED
        BY <1>1, <4>1
    <3> QED
      BY <3>1, <3>2
  <2> QED
    BY <1>2, <2>1 DEF NothingLive
<1> QED
  BY <1>3, ExportInvariance, PTL

-----------------------------------------------------------------------------
(* An installed export passes its validation and reproduces itself. *)

\* The manifest that is exported is one that loads, with its providers sorted.
LEMMA ManifestIsCanonical ==
  ASSUME NEW d \in Drafts, ManifestLoads(d.manifest)
  PROVE  LET m == ManifestDict(d.manifest)
         IN  /\ ManifestLoads(m) /\ ManifestDict(m) = m
             /\ m.execution_mode = d.manifest.execution_mode /\ m.squad = d.manifest.squad
<1> DEFINE m0 == d.manifest
           m == ManifestDict(m0)
           sorted == IF ToSet(m0.providers) = Providers THEN <<"claude", "codex">> ELSE m0.providers
<1>1. DOMAIN m0 = {"schema_version", "squad", "destination", "execution_mode",
                   "providers", "runtime_owner", "export_version"}
  BY DraftsAssumption
<1> HIDE DEF m0
<1>2. m = [m0 EXCEPT !.providers = sorted]
  BY DEF ManifestDict
<1>3. ToSet(<<"claude", "codex">>) = Providers /\ IsInjective(<<"claude", "codex">>)
  BY DEF ToSet, Providers, IsInjective
<1>4. sorted # <<>> /\ IsInjective(sorted) /\ ToSet(sorted) = ToSet(m0.providers)
  BY <1>3 DEF ManifestLoads, m0
<1> HIDE DEF sorted, m
<1>5. /\ m = [k \in DOMAIN m |-> m[k]]
      /\ m.providers = sorted
      /\ \A k \in DOMAIN m0 \ {"providers"} : m[k] = m0[k]
  BY <1>1, <1>2
<1>6. ManifestLoads(m)
  <2>1. /\ m.schema_version = m0.schema_version /\ m.destination = m0.destination
        /\ m.execution_mode = m0.execution_mode /\ m.runtime_owner = m0.runtime_owner
        /\ m.squad = m0.squad /\ m.export_version = m0.export_version
    BY <1>1, <1>5
  <2>2. ManifestLoads(m0)
    BY DEF m0
  <2> QED
    BY <1>4, <1>5, <2>1, <2>2 DEF ManifestLoads
<1>7. ManifestDict(m) = m
  <2>1. (IF ToSet(sorted) = Providers THEN <<"claude", "codex">> ELSE sorted) = sorted
    BY <1>4 DEF sorted
  <2>2. ManifestDict(m) = [m EXCEPT !.providers = sorted]
    BY <1>5, <2>1 DEF ManifestDict
  <2> QED
    BY <1>5, <2>2
<1> QED
  BY <1>1, <1>5, <1>6, <1>7 DEF m, m0

\* Role by role, the portable roster has the ids, goals and activity of the other.
LEMMA SameRoles ==
  ASSUME NEW roster, CanonicalRoster(roster)
  PROVE  LET p == PortableRoster(roster)
         IN  /\ \A r \in ToSet(roster.roles) : \E t \in ToSet(p.roles) :
                  t.id = r.id /\ t.goal_ref = r.goal_ref /\ (Active(t) <=> Active(r))
             /\ \A t \in ToSet(p.roles) : \E r \in ToSet(roster.roles) :
                  t.id = r.id /\ t.goal_ref = r.goal_ref /\ (Active(t) <=> Active(r))
<1> DEFINE p == PortableRoster(roster)
<1>1. /\ p.roles = [i \in DOMAIN roster.roles |-> PortableRole(roster.roles[i])]
      /\ \A i \in DOMAIN p.roles : \A k \in RoleKeys \ {"environment"} :
           p.roles[i][k] = roster.roles[i][k]
  BY RosterIsPortable
<1> HIDE DEF p
<1>2. DOMAIN p.roles = DOMAIN roster.roles
  BY <1>1
<1>3. \A i \in DOMAIN roster.roles :
        /\ p.roles[i].id = roster.roles[i].id
        /\ p.roles[i].goal_ref = roster.roles[i].goal_ref
        /\ Active(p.roles[i]) <=> Active(roster.roles[i])
  BY <1>1, <1>2 DEF RoleKeys, Active
<1> QED
  BY <1>2, <1>3 DEF ToSet, p

\* So what is made of ids, goals and activity alone is the same.
LEMMA SameEntries ==
  ASSUME NEW roster, CanonicalRoster(roster), NEW m, NEW goals
  PROVE  LET p == PortableRoster(roster)
         IN  /\ {r.id : r \in ToSet(p.roles)} = {r.id : r \in ToSet(roster.roles)}
             /\ ProviderRoleMap(m, p) = ProviderRoleMap(m, roster)
             /\ ContextIndex(p, goals) = ContextIndex(roster, goals)
             /\ ContextBodies(p, goals) = ContextBodies(roster, goals)
<1> DEFINE p == PortableRoster(roster)
<1>1. /\ \A r \in ToSet(roster.roles) : \E t \in ToSet(p.roles) :
           t.id = r.id /\ t.goal_ref = r.goal_ref /\ (Active(t) <=> Active(r))
      /\ \A t \in ToSet(p.roles) : \E r \in ToSet(roster.roles) :
           t.id = r.id /\ t.goal_ref = r.goal_ref /\ (Active(t) <=> Active(r))
  BY SameRoles
<1> HIDE DEF p
<1>2. {r.id : r \in ToSet(p.roles)} = {r.id : r \in ToSet(roster.roles)}
  BY <1>1
<1>3. {<<RoleId(m, r), r.id>> : r \in ActiveRoles(p)}
        = {<<RoleId(m, r), r.id>> : r \in ActiveRoles(roster)}
  <2>1. \A r, t : r.id = t.id => RoleId(m, r) = RoleId(m, t)
    BY DEF RoleId
  <2>2. /\ \A r \in ActiveRoles(roster) : \E t \in ActiveRoles(p) : t.id = r.id
        /\ \A t \in ActiveRoles(p) : \E r \in ActiveRoles(roster) : t.id = r.id
    BY <1>1 DEF ActiveRoles
  <2> QED
    BY <2>1, <2>2
<1>4. RoleEntries(p, goals) = RoleEntries(roster, goals)
  BY <1>1 DEF RoleEntries
<1>5. UNION {{r.id} \X Found(r.goal_ref, goals) : r \in ToSet(p.roles)}
        = UNION {{r.id} \X Found(r.goal_ref, goals) : r \in ToSet(roster.roles)}
  BY <1>1
<1> QED
  BY <1>2, <1>3, <1>4, <1>5 DEF p, ProviderRoleMap, ContextIndex, ContextBodies

\* The installed export of a receipt, with the draft and goals it was made from.
InstalledFrom(d, goals, root, q) ==
  LET id == tree[root][q].content
      m == ManifestDict(d.manifest)
      roster == Loaded(d.roster)
      files == Files(Desired(m, roster, goals))
  IN  /\ Contracts(d) /\ CanonicalRoster(roster) /\ Renders(m, roster, goals)
      /\ q = ReceiptPath(m) /\ TargetAllowed(m.destination, root)
      /\ id.squad = m.squad /\ id.destination = m.destination
      /\ id.source = SourceHash(m, roster)
      /\ truth[<<root, q>>] = Declared(roster, goals)
      /\ DOMAIN id.files = DOMAIN files
      /\ \A p \in DOMAIN files :
           /\ p \in DOMAIN tree[root] /\ tree[root][p] = id.files[p]
           /\ id.files[p].content = files[p]
           /\ id.files[p].executable = (p \in Executables(m, files))
      /\ [p \in DOMAIN id.files |-> tree[root][p].content] = files
      /\ ManifestPath(id) = ManifestPath(m) /\ RosterPath(id) = RosterPath(m)
      /\ {ManifestPath(m), RosterPath(m)} \subseteq DOMAIN files
      /\ files[ManifestPath(m)] = ManifestContent(m)
      /\ files[RosterPath(m)] = RosterContent(roster)

LEMMA InstalledExport ==
  ASSUME ExportInv, NEW root \in Roots, NEW q \in Installed(root)
  PROVE  \E d \in Drafts, goals \in GoalFiles : InstalledFrom(d, goals, root, q)
<1> DEFINE id == tree[root][q].content
<1>1. PICK s \in Rendered :
        /\ q = ReceiptPath(s.manifest) /\ TargetAllowed(s.manifest.destination, root)
        /\ id.squad = s.manifest.squad /\ id.destination = s.manifest.destination
        /\ id.source = SourceHash(s.manifest, s.roster)
        /\ truth[<<root, q>>] = s.goals
        /\ DOMAIN id.files = DOMAIN s.files
        /\ \A p \in DOMAIN s.files :
             /\ p \in DOMAIN tree[root] /\ tree[root][p] = id.files[p]
             /\ id.files[p].content = s.files[p]
             /\ id.files[p].executable = (p \in Executables(s.manifest, s.files))
  BY InstalledSnapshot
<1>2. PICK d \in Drafts, goals \in GoalFiles :
        LET m == ManifestDict(d.manifest)
            roster == Loaded(d.roster)
        IN  /\ Contracts(d) /\ CanonicalRoster(roster) /\ Renders(m, roster, goals)
            /\ s.manifest = m /\ s.roster = roster /\ s.goals = Declared(roster, goals)
            /\ s.files = Files(Desired(m, roster, goals))
  BY RenderedComesFrom
<1> DEFINE m == ManifestDict(d.manifest)
           roster == Loaded(d.roster)
           artifacts == Desired(m, roster, goals)
           files == Files(artifacts)
<1>3. /\ Contracts(d) /\ CanonicalRoster(roster) /\ Renders(m, roster, goals)
      /\ s.manifest = m /\ s.roster = roster /\ s.goals = Declared(roster, goals)
      /\ s.files = files
  BY <1>2
<1> HIDE DEF id, m, roster, artifacts, files
<1>4. [p \in DOMAIN id.files |-> tree[root][p].content] = files
  <2>1. files = [p \in DOMAIN files |-> files[p]]
    BY DEF files, Files
  <2>2. \A p \in DOMAIN files : tree[root][p].content = files[p]
    BY <1>1, <1>3
  <2> QED
    BY <1>1, <1>3, <2>1, <2>2
<1>5. ManifestPath(id) = ManifestPath(m) /\ RosterPath(id) = RosterPath(m)
  BY <1>1, <1>3 DEF ManifestPath, RosterPath, Prefix
<1>6. Functional(artifacts)
  BY <1>3 DEF Renders, artifacts
<1>7. /\ <<ManifestPath(m), ManifestContent(m)>> \in artifacts
      /\ <<RosterPath(m), RosterContent(roster)>> \in artifacts
  BY DEF artifacts, Desired, EngineArtifacts
<1>8. /\ ManifestPath(m) \in DOMAIN files /\ files[ManifestPath(m)] = ManifestContent(m)
      /\ RosterPath(m) \in DOMAIN files /\ files[RosterPath(m)] = RosterContent(roster)
  BY <1>6, <1>7, ArtifactIsFile DEF files
<1>9. /\ Contracts(d) /\ CanonicalRoster(roster) /\ Renders(m, roster, goals)
      /\ q = ReceiptPath(m) /\ TargetAllowed(m.destination, root)
      /\ id.squad = m.squad /\ id.destination = m.destination
      /\ id.source = SourceHash(m, roster)
      /\ truth[<<root, q>>] = Declared(roster, goals)
      /\ DOMAIN id.files = DOMAIN files
      /\ \A p \in DOMAIN files :
           /\ p \in DOMAIN tree[root] /\ tree[root][p] = id.files[p]
           /\ id.files[p].content = files[p]
           /\ id.files[p].executable = (p \in Executables(m, files))
  BY <1>1, <1>3
<1> QED
  BY <1>4, <1>5, <1>8, <1>9 DEF InstalledFrom, id, m, roster, artifacts, files

\* The manifest and the roster on disk are those of the export, stripped.
LEMMA DocumentsOnDisk ==
  ASSUME NEW d \in Drafts, Contracts(d)
  PROVE  LET m == ManifestDict(d.manifest)
             roster == Loaded(d.roster)
             p == PortableRoster(roster)
         IN  /\ ManifestContent(m).document = m /\ ManifestLoads(m)
             /\ RosterContent(roster).document = p /\ Loaded(p) = p
             /\ p.schema_version = {2}
             /\ m.execution_mode = p.execution_mode
             /\ SourceHash(m, p) = SourceHash(m, roster)
<1> DEFINE m == ManifestDict(d.manifest)
           roster == Loaded(d.roster)
           p == PortableRoster(roster)
<1>1. ManifestLoads(m) /\ ManifestDict(m) = m /\ m.execution_mode = d.manifest.execution_mode
  BY ManifestIsCanonical DEF Contracts
<1>2. CanonicalRoster(roster) /\ Loaded(p) = p /\ d.manifest.execution_mode = roster.execution_mode
  BY RenderedRoster DEF Contracts
<1> HIDE DEF m, roster
<1>3. CanonicalRoster(p) /\ PortableRoster(p) = p /\ p.execution_mode = roster.execution_mode
  BY <1>2, RosterIsPortable
<1>4. ManifestContent(m).document = m /\ RosterContent(roster).document = p
  BY <1>1 DEF ManifestContent, RosterContent
<1> HIDE DEF p
<1>5. p.schema_version = {2}
  BY <1>3 DEF CanonicalRoster
<1>6. SourceHash(m, p) = SourceHash(m, roster)
  BY <1>3 DEF SourceHash, p
<1> QED
  BY <1>1, <1>2, <1>3, <1>4, <1>5, <1>6 DEF m, roster, p

\* What is valid for the roster of the export is valid for the one on disk.
LEMMA ValidForPortable ==
  ASSUME NEW m, NEW roster, CanonicalRoster(roster), NEW files, ArtifactsValid(m, roster, files)
  PROVE  ArtifactsValid(m, PortableRoster(roster), files)
<1> DEFINE p == PortableRoster(roster)
<1>1. /\ {r.id : r \in ToSet(p.roles)} = {r.id : r \in ToSet(roster.roles)}
      /\ ProviderRoleMap(m, p) = ProviderRoleMap(m, roster)
  BY SameEntries
<1>2. p.squad_goal_ref = roster.squad_goal_ref
  BY RosterIsPortable
<1> HIDE DEF p
<1>3. IndexValid(m, p, files)
  BY <1>1, <1>2 DEF ArtifactsValid, IndexValid
<1>4. RoleMapValid(m, roster, files) => RoleMapValid(m, p, files)
  BY <1>1 DEF RoleMapValid
<1>5. ArtifactsValid(m, p, files)
  BY <1>3, <1>4 DEF ArtifactsValid
<1> QED
  BY <1>5 DEF p

\* InstalledValidates: validate_installed_export accepts every installed export,
\* from the files on disk alone.
THEOREM InstalledExportsValidate == Spec => []InstalledValidates
<1>1. ASSUME ExportInv, NEW root \in Roots, NEW q \in Installed(root)
      PROVE  Validates(root, q)
  <2> DEFINE id == tree[root][q].content
  <2>1. PICK d \in Drafts, goals \in GoalFiles : InstalledFrom(d, goals, root, q)
    BY <1>1, InstalledExport
  <2> DEFINE m == ManifestDict(d.manifest)
             roster == Loaded(d.roster)
             files == Files(Desired(m, roster, goals))
             p == PortableRoster(roster)
  <2>2. /\ ManifestContent(m).document = m /\ ManifestLoads(m)
        /\ RosterContent(roster).document = p /\ Loaded(p) = p
        /\ p.schema_version = {2}
        /\ m.execution_mode = p.execution_mode
        /\ SourceHash(m, p) = SourceHash(m, roster)
    BY <2>1, DocumentsOnDisk DEF InstalledFrom
  <2> HIDE DEF m, roster, files, p
  <2>3. RosterLoads(p) /\ ArtifactsValid(m, roster, files) /\ CanonicalRoster(roster)
    BY <2>1 DEF InstalledFrom, Renders, m, roster, files, p
  <2>4. ArtifactsValid(m, p, files)
    BY <2>3, ValidForPortable DEF p
  <2>5. PathSetValid(DOMAIN files)
    BY <2>3 DEF ArtifactsValid
  <2>6. /\ q = ReceiptPath(m) /\ TargetAllowed(m.destination, root)
        /\ id.squad = m.squad /\ id.destination = m.destination
        /\ id.source = SourceHash(m, roster)
        /\ DOMAIN id.files = DOMAIN files
        /\ \A x \in DOMAIN files : x \in DOMAIN tree[root] /\ tree[root][x] = id.files[x]
        /\ [x \in DOMAIN id.files |-> tree[root][x].content] = files
        /\ ManifestPath(id) = ManifestPath(m) /\ RosterPath(id) = RosterPath(m)
        /\ {ManifestPath(m), RosterPath(m)} \subseteq DOMAIN files
        /\ files[ManifestPath(m)] = ManifestContent(m)
        /\ files[RosterPath(m)] = RosterContent(roster)
    BY <2>1 DEF InstalledFrom, m, roster, files
  <2>7. Loads(p)
    BY <2>2, <2>3 DEF Loads
  <2>8. ReceiptPath(id) = ReceiptPath(m)
    BY <2>6 DEF ReceiptPath, Prefix
  <2>9. TargetAllowed(id.destination, root)
    BY <2>6
  <2>10. files[ManifestPath(id)].document = m /\ files[RosterPath(id)].document = p
    BY <2>2, <2>6
  <2> HIDE DEF id
  <2>11. /\ TargetAllowed(id.destination, root) /\ q = ReceiptPath(id)
         /\ PathSetValid(DOMAIN id.files)
         /\ \A x \in DOMAIN id.files : Present(root, x) /\ tree[root][x] = id.files[x]
         /\ {ManifestPath(id), RosterPath(id)} \subseteq DOMAIN id.files
         /\ ManifestLoads(m) /\ Loads(p)
         /\ m.squad = id.squad /\ m.destination = id.destination
         /\ m.execution_mode = Loaded(p).execution_mode
         /\ id.source = SourceHash(m, Loaded(p))
         /\ ArtifactsValid(m, Loaded(p), files)
    BY <2>2, <2>4, <2>5, <2>6, <2>7, <2>8, <2>9 DEF Present
  <2> QED
    BY <2>6, <2>10, <2>11 DEF Validates, id
<1>2. ASSUME ExportInv
      PROVE  InstalledValidates
  BY <1>1, <1>2 DEF InstalledValidates, Receipts
<1> QED
  BY <1>2, ExportInvariance, PTL

-----------------------------------------------------------------------------
(* An installed export reproduces itself. *)

\* The goals kept with an export say what the source root said of its sources.
LEMMA DeclaredSays ==
  ASSUME NEW roster, SourcesCanonical(roster), NEW goals \in GoalFiles,
         NEW source,
         source = {SquadGoalRef} \/ \E r \in ToSet(roster.roles) : source = r.goal_ref
  PROVE  /\ Found(source, Declared(roster, goals)) = Found(source, goals)
         /\ \A snapshot : Entry(source, Declared(roster, goals), snapshot)
                            = Entry(source, goals, snapshot)
<1> DEFINE kept == Declared(roster, goals)
           declared == {SquadGoalRef} \cup UNION {r.goal_ref : r \in ToSet(roster.roles)}
<1>1. source \subseteq declared
  OBVIOUS
<1> HIDE DEF declared
<1>2. kept.root = goals.root /\ kept.text = Restrict(goals.text, declared)
  BY GoalFilesAssumption DEF Declared, declared
<1>3. \A x \in declared : kept.text[x] = goals.text[x]
  BY <1>2 DEF Restrict
<1> HIDE DEF kept
<1>4. \A x \in source : kept.text[x] = goals.text[x]
  BY <1>1, <1>3
<1>5. {kept.text[x] : x \in source} = {goals.text[x] : x \in source}
  BY <1>4
<1>6. Found(source, kept) = Found(source, goals)
  BY <1>2, <1>5 DEF Found
<1>7. \A snapshot : Entry(source, kept, snapshot) = Entry(source, goals, snapshot)
  BY <1>2, <1>4 DEF Entry
<1> QED
  BY <1>6, <1>7 DEF kept

\* Rendering the stripped roster with those goals gives the same artifacts.
LEMMA RenderedAgain ==
  ASSUME NEW m, NEW roster, CanonicalRoster(roster), SourcesCanonical(roster),
         NEW goals \in GoalFiles
  PROVE  Desired(m, PortableRoster(roster), Declared(roster, goals)) = Desired(m, roster, goals)
<1> DEFINE p == PortableRoster(roster)
           kept == Declared(roster, goals)
<1>1. PortableRoster(p) = p
  BY RosterIsPortable
<1>2. /\ ProviderRoleMap(m, p) = ProviderRoleMap(m, roster)
      /\ ContextIndex(p, kept) = ContextIndex(roster, kept)
      /\ ContextBodies(p, kept) = ContextBodies(roster, kept)
  BY SameEntries
<1>3. ContextIndex(roster, kept) = ContextIndex(roster, goals)
  <2>1. \A r \in ToSet(roster.roles) :
          Entry(r.goal_ref, kept, RoleBody(r.id)) = Entry(r.goal_ref, goals, RoleBody(r.id))
    BY DeclaredSays
  <2>2. RoleEntries(roster, kept) = RoleEntries(roster, goals)
    BY <2>1 DEF RoleEntries
  <2>3. Entry({SquadGoalRef}, kept, SquadBody) = Entry({SquadGoalRef}, goals, SquadBody)
    BY DeclaredSays
  <2> QED
    BY <2>2, <2>3 DEF ContextIndex
<1>4. ContextBodies(roster, kept) = ContextBodies(roster, goals)
  <2>1. \A r \in ToSet(roster.roles) : Found(r.goal_ref, kept) = Found(r.goal_ref, goals)
    BY DeclaredSays
  <2>2. UNION {{r.id} \X Found(r.goal_ref, kept) : r \in ToSet(roster.roles)}
          = UNION {{r.id} \X Found(r.goal_ref, goals) : r \in ToSet(roster.roles)}
    BY <2>1
  <2>3. Found({SquadGoalRef}, kept) = Found({SquadGoalRef}, goals)
    BY DeclaredSays
  <2> QED
    BY <2>2, <2>3 DEF ContextBodies
<1> HIDE DEF p, kept
<1>5. RosterContent(p) = RosterContent(roster)
  BY <1>1 DEF RosterContent, p
<1>6. PluginExtras(m, p) = PluginExtras(m, roster)
  BY <1>5 DEF PluginExtras
<1>7. EngineArtifacts(m, p, kept) = EngineArtifacts(m, roster, goals)
  BY <1>2, <1>3, <1>4, <1>5, <1>6 DEF EngineArtifacts
<1>8. Desired(m, p, kept) = Desired(m, roster, goals)
  BY <1>1, <1>7 DEF Desired, p
<1> QED
  BY <1>8 DEF p, kept

\* ReproducesItself: the manifest and the roster on disk, exported again with the
\* goals of the last export, give the files that are on disk.
THEOREM ExportsReproduceThemselves == Spec => []ReproducesItself
<1>1. ASSUME ExportInv, NEW root \in Roots, NEW q \in Installed(root)
      PROVE  LET id == tree[root][q].content
                 m == tree[root][ManifestPath(id)].content.document
                 roster == Loaded(tree[root][RosterPath(id)].content.document)
             IN  Files(Desired(m, roster, truth[<<root, q>>]))
                   = [p \in DOMAIN id.files |-> tree[root][p].content]
  <2> DEFINE id == tree[root][q].content
  <2>1. PICK d \in Drafts, goals \in GoalFiles : InstalledFrom(d, goals, root, q)
    BY <1>1, InstalledExport
  <2> DEFINE m == ManifestDict(d.manifest)
             roster == Loaded(d.roster)
             files == Files(Desired(m, roster, goals))
             p == PortableRoster(roster)
  <2>2. /\ ManifestContent(m).document = m
        /\ RosterContent(roster).document = p /\ Loaded(p) = p
    BY <2>1, DocumentsOnDisk DEF InstalledFrom
  <2> HIDE DEF m, roster, files, p
  <2>3. /\ CanonicalRoster(roster) /\ SourcesCanonical(roster)
        /\ truth[<<root, q>>] = Declared(roster, goals)
        /\ \A x \in DOMAIN files : tree[root][x] = id.files[x] /\ id.files[x].content = files[x]
        /\ [x \in DOMAIN id.files |-> tree[root][x].content] = files
        /\ ManifestPath(id) = ManifestPath(m) /\ RosterPath(id) = RosterPath(m)
        /\ {ManifestPath(m), RosterPath(m)} \subseteq DOMAIN files
        /\ files[ManifestPath(m)] = ManifestContent(m)
        /\ files[RosterPath(m)] = RosterContent(roster)
    BY <2>1 DEF InstalledFrom, Contracts, m, roster, files
  <2>4. /\ tree[root][ManifestPath(id)].content.document = m
        /\ Loaded(tree[root][RosterPath(id)].content.document) = p
    BY <2>2, <2>3
  <2>5. Desired(m, p, truth[<<root, q>>]) = Desired(m, roster, goals)
    BY <2>3, RenderedAgain DEF p
  <2>6. Files(Desired(m, p, truth[<<root, q>>])) = files
    BY <2>5 DEF files
  <2> QED
    BY <2>3, <2>4, <2>6
<1>2. ASSUME ExportInv
      PROVE  ReproducesItself
  BY <1>1, <1>2 DEF ReproducesItself, Receipts
<1> QED
  BY <1>2, ExportInvariance, PTL

-----------------------------------------------------------------------------
(* The adapters agree. *)

\* A capability is mutating for Codex iff Claude's tool for it is.
LEMMA SameTables ==
  ASSUME NEW c
  PROVE  c \in MutatingCapabilities <=> ToolOf(c) \cap MutatingTools # {}
BY DEF ToolOf, MutatingCapabilities, MutatingTools

\* So where no override names the tools, a role mutates for both or for neither.
LEMMA SameMutation ==
  ASSUME NEW m, NEW r, OverrideTools(r) = {}
  PROVE  /\ RenderAgent(m, r).mutating <=> AgentToml(m, r).sandbox = "workspace-write"
         /\ RenderAgent(m, r).mutating <=> AgentToml(m, r).instructions.sequential
<1>1. Tools(r) = UNION {ToolOf(c) : c \in ToSet(r.capabilities)}
  BY DEF Tools
<1>2. (Tools(r) \cap MutatingTools # {}) <=> IsMutating(r)
  BY <1>1, SameTables DEF IsMutating
<1>3. RenderAgent(m, r).mutating = (Tools(r) \cap MutatingTools # {})
  BY DEF RenderAgent
<1>4. AgentToml(m, r).sandbox = IF IsMutating(r) THEN "workspace-write" ELSE "read-only"
  BY DEF AgentToml, Sandbox
<1>5. AgentToml(m, r).instructions.sequential = IsMutating(r)
  BY DEF AgentToml, Instructions
<1> QED
  BY <1>2, <1>3, <1>4, <1>5

\* A content tells which adapter made it, and of which role.
LEMMA AgentComesFromRole ==
  ASSUME NEW m, NEW roster, NEW goals, NEW a \in Desired(m, roster, goals)
  PROVE  LET active == ActiveRoles(RosterLoaded(PortableRoster(roster)))
         IN  /\ a[2].kind = "claude-agent" =>
                  \E r \in active : a[2] = RenderAgent(m, r) /\ a[2].role = r.id
             /\ a[2].kind = "codex-agent" =>
                  \E r \in active : a[2] = AgentToml(m, r) /\ a[2].instructions.role = r.id
<1> DEFINE q == RosterLoaded(PortableRoster(roster))
           c == a[2]
<1>1. \/ c.kind \in InertKinds
      \/ c = ManifestContent(m)
      \/ c = RosterContent(roster)
      \/ RoleContent(m, q, c)
  BY DesiredContents
<1> HIDE DEF q, c
<1>2. ASSUME NEW r
      PROVE  /\ RenderAgent(m, r).kind = "claude-agent" /\ RenderAgent(m, r).role = r.id
             /\ AgentToml(m, r).kind = "codex-agent"
             /\ AgentToml(m, r).instructions.role = r.id
             /\ RoleSkill(m, r).kind = "skill" /\ RolePrompt(m, r).kind = "role"
  BY DEF RenderAgent, AgentToml, Instructions, RoleSkill, RolePrompt
<1>3. DispatchSkill(m, q)[2].kind = "dispatch"
  BY DEF DispatchSkill
<1>4. ManifestContent(m).kind = "manifest" /\ RosterContent(roster).kind = "roster"
  BY DEF ManifestContent, RosterContent
<1>5. c.kind = "claude-agent" =>
        \E r \in ActiveRoles(q) : c = RenderAgent(m, r) /\ c.role = r.id
  BY <1>1, <1>2, <1>3, <1>4 DEF InertKinds, RoleContent
<1>6. c.kind = "codex-agent" =>
        \E r \in ActiveRoles(q) : c = AgentToml(m, r) /\ c.instructions.role = r.id
  BY <1>1, <1>2, <1>3, <1>4 DEF InertKinds, RoleContent
<1> QED
  BY <1>5, <1>6 DEF q, c

\* AdaptersAgree: both adapters warn of the same roles, from separate tables.
THEOREM AdaptersWarnAlike == Spec => []AdaptersAgree
<1>1. ASSUME ExportInv, NEW x \in Receipts
      PROVE  LET id == tree[x[1]][x[2]].content
                 contents == {id.files[p].content : p \in DOMAIN id.files}
                 claude == {c \in contents : c.kind = "claude-agent"}
                 codex == {c \in contents : c.kind = "codex-agent"}
             IN  \A r \in ToSet(id.files[RosterPath(id)].content.document.roles) :
                   OverrideTools(r) = {} =>
                     \A a \in claude, b \in codex :
                       a.role = r.id /\ b.instructions.role = r.id =>
                         /\ a.mutating <=> b.sandbox = "workspace-write"
                         /\ a.mutating <=> b.instructions.sequential
  <2> DEFINE id == tree[x[1]][x[2]].content
  <2>1. PICK d \in Drafts, goals \in GoalFiles : InstalledFrom(d, goals, x[1], x[2])
    <3>1. x[1] \in Roots /\ x[2] \in Installed(x[1])
      BY <1>1 DEF Receipts
    <3> QED
      BY <1>1, <3>1, InstalledExport
  <2> DEFINE m == ManifestDict(d.manifest)
             roster == Loaded(d.roster)
             artifacts == Desired(m, roster, goals)
             files == Files(artifacts)
             p == PortableRoster(roster)
             contents == {id.files[y].content : y \in DOMAIN id.files}
  <2>2. RosterContent(roster).document = p
    BY <2>1, DocumentsOnDisk DEF InstalledFrom
  <2>3. RosterLoaded(p) = p
    BY <2>1, RosterIsPortable DEF InstalledFrom
  <2> HIDE DEF id, m, roster, artifacts, files, p
  <2>4. /\ DOMAIN id.files = DOMAIN files
        /\ \A y \in DOMAIN files : id.files[y].content = files[y]
        /\ RosterPath(id) = RosterPath(m) /\ RosterPath(m) \in DOMAIN files
        /\ files[RosterPath(m)] = RosterContent(roster)
        /\ RosterLoads(p)
    BY <2>1 DEF InstalledFrom, Renders, id, m, roster, artifacts, files, p
  <2>5. id.files[RosterPath(id)].content.document = p
    BY <2>2, <2>4
  <2>6. ASSUME NEW c \in contents
        PROVE  \E a \in artifacts : a[2] = c
    <3>1. PICK y \in DOMAIN files : c = files[y]
      BY <2>4
    <3> QED
      BY <3>1, FileIsArtifact DEF files
  <2>7. ASSUME NEW c \in contents
        PROVE  /\ c.kind = "claude-agent" =>
                    \E r \in ToSet(p.roles) : c = RenderAgent(m, r) /\ c.role = r.id
               /\ c.kind = "codex-agent" =>
                    \E r \in ToSet(p.roles) : c = AgentToml(m, r) /\ c.instructions.role = r.id
    <3>1. PICK a \in artifacts : a[2] = c
      BY <2>6
    <3>2. /\ a[2].kind = "claude-agent" =>
               \E r \in ActiveRoles(p) : a[2] = RenderAgent(m, r) /\ a[2].role = r.id
          /\ a[2].kind = "codex-agent" =>
               \E r \in ActiveRoles(p) : a[2] = AgentToml(m, r) /\ a[2].instructions.role = r.id
      BY <2>3, AgentComesFromRole DEF artifacts, p
    <3> QED
      BY <3>1, <3>2 DEF ActiveRoles
  <2>8. \A r, t \in ToSet(p.roles) : r.id = t.id => r = t
    BY <2>4 DEF RosterLoads, RosterValid, ToSet
  <2> HIDE DEF contents
  <2>9. ASSUME NEW r \in ToSet(p.roles), OverrideTools(r) = {},
               NEW a \in contents, a.kind = "claude-agent", a.role = r.id,
               NEW b \in contents, b.kind = "codex-agent", b.instructions.role = r.id
        PROVE  /\ a.mutating <=> b.sandbox = "workspace-write"
               /\ a.mutating <=> b.instructions.sequential
    <3>1. a = RenderAgent(m, r)
      BY <2>7, <2>8, <2>9
    <3>2. b = AgentToml(m, r)
      BY <2>7, <2>8, <2>9
    <3> QED
      BY <2>9, <3>1, <3>2, SameMutation
  <2> QED
    BY <2>5, <2>9 DEF contents, id
<1>2. ASSUME ExportInv
      PROVE  AdaptersAgree
  BY <1>1, <1>2 DEF AdaptersAgree
<1> QED
  BY <1>2, ExportInvariance, PTL

-----------------------------------------------------------------------------
(* Paths. *)

\* What names are made of: tokens, and the literals of this module.
Symbols == Tokens \cup
  {".squad", "exports", "squads", "receipts", "shared", "runtime", "context", "roles", "agents",
   "skills", "plugins", "hooks", ".claude", ".codex", ".agents", ".claude-plugin",
   ".codex-plugin", ".json", ".md", ".toml", ".sh", "manifest.json", "roster.json",
   "export-receipt.json", "provider-role-map.json", "index.json", "plugin.json",
   "marketplace.json", "squad-goal.md", "ACTIVATION.md", "README.md", "SKILL.md", "LICENSE"}

PathNames == Seq(Symbols) \ {<<>>}
Paths == Seq(PathNames) \ {<<>>}

LEMMA SymbolsOfWords == Words \subseteq Symbols /\ Tokens \subseteq Symbols
BY WordsAndTokens DEF Symbols

\* A name of one symbol.
LEMMA OneName ==
  ASSUME NEW s \in Symbols
  PROVE  /\ Name(s) \in PathNames /\ Last(Name(s)) = s /\ Name(s)[1] = s
         /\ <<Name(s)>> \in Paths /\ <<Name(s)>>[1] = Name(s) /\ Last(<<Name(s)>>) = Name(s)
<1>1. Name(s) \in PathNames /\ Last(Name(s)) = s /\ Name(s)[1] = s
  BY DEF Name, PathNames, Last
<1> DEFINE n == Name(s)
<1> HIDE DEF n
<1>2. n \in PathNames => <<n>> \in Paths /\ <<n>>[1] = n /\ Last(<<n>>) = n
  BY DEF Paths, Last
<1> QED
  BY <1>1, <1>2 DEF n

LEMMA Joined ==
  ASSUME NEW x \in Paths, NEW y \in Paths
  PROVE  /\ x \o y \in Paths /\ (x \o y)[1] = x[1] /\ Last(x \o y) = Last(y)
         /\ Len(x \o y) = Len(x) + Len(y)
         /\ \A i \in 1..Len(y) : (x \o y)[Len(x) + i] = y[i]
BY DEF Paths, Last

\* A file under a directory.
LEMMA InPath ==
  ASSUME NEW d \in Symbols, NEW y \in Paths
  PROVE  /\ In(d, y) \in Paths /\ In(d, y)[1] = Name(d) /\ Last(In(d, y)) = Last(y)
         /\ Len(In(d, y)) = Len(y) + 1 /\ In(d, y)[2] = y[1]
<1> DEFINE x == <<Name(d)>>
<1>1. x \in Paths /\ x[1] = Name(d) /\ Len(x) = 1
  BY OneName
<1>2. In(d, y) = x \o y
  BY DEF In
<1> HIDE DEF x
<1>3. Len(y) \in Nat /\ 1 \in 1..Len(y)
  BY DEF Paths
<1> DEFINE z == In(d, y)
<1>4. /\ z \in Paths /\ z[1] = x[1] /\ Last(z) = Last(y) /\ Len(z) = Len(x) + Len(y)
      /\ \A i \in 1..Len(y) : z[Len(x) + i] = y[i]
  <2>1. /\ x \o y \in Paths /\ (x \o y)[1] = x[1] /\ Last(x \o y) = Last(y)
        /\ Len(x \o y) = Len(x) + Len(y)
        /\ \A i \in 1..Len(y) : (x \o y)[Len(x) + i] = y[i]
    BY <1>1, Joined
  <2> QED
    BY <1>2, <2>1, Zenon
<1> HIDE DEF z
<1>5. Len(z) = Len(y) + 1
  BY <1>1, <1>3, <1>4
<1>6. z[2] = y[1]
  <2>1. z[Len(x) + 1] = y[1]
    BY <1>3, <1>4
  <2> QED
    BY <1>1, <2>1
<1> QED
  BY <1>1, <1>4, <1>5, <1>6 DEF z

LEMMA InTwo ==
  ASSUME NEW d \in Symbols, NEW n \in PathNames
  PROVE  In(d, <<n>>) = <<Name(d), n>>
<1> DEFINE e == Name(d)
           u == <<e>> \o <<n>>
           v == <<e, n>>
<1>1. e \in PathNames
  BY OneName
<1> HIDE DEF e
<1>2. u \in Seq(PathNames) /\ Len(u) = 2 /\ u[1] = e /\ u[2] = n
  BY <1>1
<1>3. v \in Seq(PathNames) /\ Len(v) = 2 /\ v[1] = e /\ v[2] = n
  BY <1>1
<1> HIDE DEF u, v
<1>4. \A i \in 1..Len(u) : u[i] = v[i]
  BY <1>2, <1>3
<1>5. u = v
  BY <1>2, <1>3, <1>4, SeqEqual
<1> QED
  BY <1>5 DEF In, e, u, v

LEMMA FilePath ==
  ASSUME NEW id \in Seq(Symbols), NEW s \in Symbols
  PROVE  /\ Append(id, s) \in PathNames /\ Last(Append(id, s)) = s
         /\ File(id, s) \in Paths /\ Last(File(id, s)) = Append(id, s)
         /\ File(id, s)[1] = Append(id, s) /\ Len(File(id, s)) = 1
<1> DEFINE n == Append(id, s)
<1>1. n \in PathNames /\ Last(n) = s
  BY DEF PathNames, Last
<1> HIDE DEF n
<1>2. <<n>> \in Paths /\ Last(<<n>>) = n /\ <<n>>[1] = n /\ Len(<<n>>) = 1
  BY <1>1 DEF Paths, Last
<1> QED
  BY <1>1, <1>2 DEF n, File

\* Every name of a path, and the last one.
LEMMA PathSays ==
  ASSUME NEW p \in Paths
  PROVE  /\ p # <<>> /\ \A i \in DOMAIN p : p[i] # <<>> /\ p[i] \in PathNames
         /\ 1 \in DOMAIN p /\ Last(p) \in PathNames /\ Len(p) \in Nat /\ Len(p) > 0
BY DEF Paths, PathNames, Last

LEMMA Reversed ==
  ASSUME NEW w \in Paths
  PROVE  /\ Reverse(w) \in Seq(PathNames) /\ Len(Reverse(w)) = Len(w)
         /\ \A i \in 1..Len(w) : Reverse(w)[i] = w[(Len(w) - i) + 1]
BY DEF Reverse, Paths

LEMMA SuffixOf ==
  ASSUME NEW n \in Nat, NEW y \in Paths, NEW z \in Paths, Len(z) = n + Len(y),
         \A i \in 1..Len(y) : z[n + i] = y[i]
  PROVE  IsSuffix(y, z)
<1> DEFINE a == Reverse(y)
           b == Reverse(z)
<1>1. /\ a \in Seq(PathNames) /\ b \in Seq(PathNames) /\ Len(y) \in Nat
      /\ Len(a) = Len(y) /\ Len(b) = n + Len(y) /\ Len(a) <= Len(b)
  BY Reversed, PathSays
<1>2. ASSUME NEW i \in 1..Len(a)
      PROVE  b[i] = a[i]
  <2>1. i \in 1..Len(y) /\ i \in 1..Len(z)
    BY <1>1
  <2>2. (Len(y) - i) + 1 \in 1..Len(y) /\ (Len(z) - i) + 1 = n + ((Len(y) - i) + 1)
    BY <1>1, <2>1
  <2>3. a[i] = y[(Len(y) - i) + 1] /\ b[i] = z[(Len(z) - i) + 1]
    BY <2>1, Reversed
  <2> QED
    BY <2>2, <2>3
<1> HIDE DEF a, b
<1> DEFINE u == SubSeq(a, 1, Len(a))
           v == SubSeq(b, 1, Len(a))
<1>3. /\ u \in Seq(PathNames) /\ v \in Seq(PathNames)
      /\ Len(u) = Len(a) /\ Len(v) = Len(a)
      /\ \A i \in 1..Len(a) : u[i] = a[i] /\ v[i] = b[i]
  BY <1>1
<1> HIDE DEF u, v
<1>4. u = v
  BY <1>2, <1>3, SeqEqual
<1> QED
  BY <1>1, <1>4 DEF IsSuffix, IsPrefix, a, b, u, v

\* A path ends in itself, and so does a path that is put under another.
LEMMA OwnSuffix ==
  ASSUME NEW y \in Paths
  PROVE  IsSuffix(y, y)
<1>1. Len(y) = 0 + Len(y) /\ \A i \in 1..Len(y) : y[0 + i] = y[i]
  BY PathSays
<1> QED
  BY <1>1, SuffixOf

LEMMA JoinedSuffix ==
  ASSUME NEW u \in Paths, NEW y \in Paths
  PROVE  IsSuffix(y, u \o y)
<1>1. u \o y \in Paths /\ Len(u) \in Nat
  BY Joined, PathSays
<1>2. Len(u \o y) = Len(u) + Len(y) /\ \A i \in 1..Len(y) : (u \o y)[Len(u) + i] = y[i]
  BY Joined
<1> QED
  BY <1>1, <1>2, SuffixOf
-----------------------------------------------------------------------------
(* The paths of what is rendered. *)

\* The copied runtime: every path is that of a source file, and none lies where
\* the exporter writes files of its own.
LEMMA RuntimePaths ==
  ASSUME NEW p \in DOMAIN CollectRuntime(SourceTree)
  PROVE  p \in Paths /\ (p = License \/ p[1][1] \in RuntimeDirectories)
<1>1. p \in DOMAIN SourceTree /\ (p = License \/ p[1][1] \in RuntimeDirectories)
  BY DEF CollectRuntime
<1>2. p \in Seq(Seq(STRING)) /\ p # <<>> /\ \A i \in DOMAIN p : p[i] # <<>>
  BY <1>1, SourceTreeAssumption
<1>3. STRING \subseteq Symbols
  BY SymbolsOfWords, WordsAndTokens
<1>4. \A i \in DOMAIN p : p[i] \in PathNames
  <2>1. SUFFICES ASSUME NEW i \in DOMAIN p
                 PROVE  p[i] \in PathNames
    OBVIOUS
  <2>2. p[i] \in Seq(STRING)
    BY <1>2
  <2>3. p[i] \in Seq(Symbols)
    BY <1>3, <2>2, SeqMonotonic
  <2> QED
    BY <1>2, <2>3 DEF PathNames
<1>5. p = [i \in 1..Len(p) |-> p[i]] /\ DOMAIN p = 1..Len(p) /\ Len(p) \in Nat
  BY <1>2
<1>6. p \in Seq(PathNames)
  BY <1>4, <1>5, IsASeq
<1> QED
  BY <1>1, <1>2, <1>6 DEF Paths

LEMMA LicensePath ==
  License \in Paths /\ License[1] = Name("LICENSE") /\ Last(Last(License)) = "LICENSE"
BY OneName DEF License, Symbols

\* A path that ends in that of a runtime file.
CopyOf(p) ==
  \E q \in DOMAIN CollectRuntime(SourceTree), n \in Nat :
    Len(p) = n + Len(q) /\ \A i \in 1..Len(q) : p[n + i] = q[i]

\* It is a script's exactly if the file is one.
LEMMA CopiesOfScripts ==
  ASSUME NEW p \in Paths, CopyOf(p), Last(Last(p)) = ".sh"
  PROVE  \E q \in Scripts : IsSuffix(q, p)
<1>1. PICK q \in DOMAIN CollectRuntime(SourceTree), n \in Nat :
        Len(p) = n + Len(q) /\ \A i \in 1..Len(q) : p[n + i] = q[i]
  BY DEF CopyOf
<1>2. q \in Paths
  BY RuntimePaths
<1>3. IsSuffix(q, p)
  BY <1>1, <1>2, SuffixOf
<1>4. Last(p) = Last(q)
  <2>1. Len(q) \in 1..Len(q)
    BY <1>2, PathSays
  <2>2. p[n + Len(q)] = q[Len(q)]
    BY <1>1, <2>1
  <2> QED
    BY <1>1, <2>2 DEF Last
<1> QED
  BY <1>3, <1>4 DEF Scripts

\* Copies of copies are copies.
LEMMA RuntimeIsCopy ==
  ASSUME NEW q \in DOMAIN CollectRuntime(SourceTree)
  PROVE  CopyOf(q)
<1>1. Len(q) = 0 + Len(q) /\ \A i \in 1..Len(q) : q[0 + i] = q[i]
  BY RuntimePaths, PathSays
<1> QED
  BY <1>1 DEF CopyOf

LEMMA CopyUnder ==
  ASSUME NEW x \in Paths, NEW p \in Paths, CopyOf(p)
  PROVE  CopyOf(x \o p)
<1>1. PICK q \in DOMAIN CollectRuntime(SourceTree), n \in Nat :
        Len(p) = n + Len(q) /\ \A i \in 1..Len(q) : p[n + i] = q[i]
  BY DEF CopyOf
<1>2. /\ Len(x \o p) = Len(x) + Len(p) /\ Len(x) \in Nat /\ Len(q) \in Nat
      /\ \A i \in 1..Len(p) : (x \o p)[Len(x) + i] = p[i]
  BY Joined, RuntimePaths, PathSays
<1> DEFINE z == x \o p
           k == Len(x) + n
<1> HIDE DEF z
<1>3. k \in Nat /\ Len(z) = k + Len(q)
  BY <1>1, <1>2 DEF z
<1>4. ASSUME NEW i \in 1..Len(q)
      PROVE  z[k + i] = q[i]
  <2>1. n + i \in 1..Len(p) /\ Len(x) + (n + i) = k + i
    BY <1>1, <1>2
  <2> QED
    BY <1>1, <1>2, <2>1 DEF z
<1> HIDE DEF k
<1>5. CopyOf(z)
  BY <1>3, <1>4 DEF CopyOf
<1> QED
  BY <1>5 DEF z

\* Roles with ids of words.
NamedRoles(roster) == \A r \in ToSet(roster.roles) : r.id \in Seq(Words)

LEMMA IdentifierSymbols ==
  ASSUME NEW squad \in Seq(Words), NEW role \in Seq(Words)
  PROVE  /\ ProviderNamespace(squad) \in Seq(Symbols)
         /\ squad # <<>> => ProviderNamespace(squad) \in PathNames
         /\ ProviderRoleId(squad, role) \in PathNames
         /\ ProviderRoleSkillId(squad, role) \in PathNames
         /\ ProviderDispatchSkillId(squad) \in PathNames
         /\ role \in Seq(Symbols)
<1>1. /\ ProviderNamespace(squad) \in Seq(Tokens)
      /\ squad # <<>> => ProviderNamespace(squad) # <<>>
  BY NamespaceType
<1>2. \A x \in Seq(Tokens) : x \in Seq(Symbols)
  BY SymbolsOfWords, SeqMonotonic
<1>3. /\ ProviderRoleId(squad, role) \in Seq(Tokens) \ {<<>>}
      /\ ProviderRoleSkillId(squad, role) \in Seq(Tokens) \ {<<>>}
      /\ ProviderDispatchSkillId(squad) \in Seq(Tokens) \ {<<>>}
  BY IdentifiersWithinLimits
<1>4. role \in Seq(Symbols)
  BY SymbolsOfWords, SeqMonotonic
<1> QED
  BY <1>1, <1>2, <1>3, <1>4 DEF PathNames

\* Agents, prompts and skills of the roles.
LEMMA RolePaths ==
  ASSUME NEW m, m.squad \in Seq(Words), NEW r, r.id \in Seq(Words),
         NEW d \in {"agents", "roles"}, NEW s \in {".md", ".toml"}
  PROVE  LET p == In(d, File(RoleId(m, r), s))
         IN  p \in Paths /\ p[1] = Name(d) /\ Last(Last(p)) = s
<1>1. RoleId(m, r) \in Seq(Symbols)
  BY IdentifierSymbols DEF RoleId, PathNames
<1>2. d \in Symbols /\ s \in Symbols
  BY DEF Symbols
<1>3. File(RoleId(m, r), s) \in Paths /\ Last(Last(File(RoleId(m, r), s))) = s
  BY <1>1, <1>2, FilePath
<1> QED
  BY <1>2, <1>3, InPath

LEMMA SkillPaths ==
  ASSUME NEW id \in PathNames
  PROVE  LET p == SkillFile(id)
         IN  p \in Paths /\ p[1] = Name("skills") /\ Last(Last(p)) = "SKILL.md"
<1>1. Name("skills") \in PathNames /\ Name("SKILL.md") \in PathNames /\ Last(Name("SKILL.md")) = "SKILL.md"
  BY OneName DEF Symbols
<1> DEFINE a == Name("skills")
           b == Name("SKILL.md")
<1> HIDE DEF a, b
<1>2. a \in PathNames /\ b \in PathNames
        => <<a, id, b>> \in Paths /\ <<a, id, b>>[1] = a /\ Last(<<a, id, b>>) = b
  BY DEF Paths, Last
<1> QED
  BY <1>1, <1>2 DEF SkillFile, a, b

\* Where an artifact may lie: below .squad, hooks and .claude-plugin only what
\* belongs there, and scripts only as copies in a plugin.
Placed(m, a) ==
  /\ a[1] \in Paths
  /\ a[1][1] = Name(".squad") =>
       a[1] = <<Name(".squad"), Name("provider-role-map.json")>> /\ m.destination = "plugin"
  /\ a[1][1] = Name("hooks") => m.destination = "plugin" /\ m.runtime_owner = "claude"
  /\ a[1][1] = Name(".claude-plugin") => m.destination = "plugin" /\ a[2] = ClaudePluginManifest(m)
  /\ Last(Last(a[1])) = ".sh" => m.destination = "plugin" /\ CopyOf(a[1])

Reserved == {".squad", "hooks", ".claude-plugin"}

LEMMA NamesDiffer ==
  ASSUME NEW s \in Symbols, NEW t \in Symbols, Name(s) = Name(t)
  PROVE  s = t
<1>1. Name(s)[1] = s /\ Name(t)[1] = t
  BY OneName
<1> QED
  BY <1>1

LEMMA PlacedElsewhere ==
  ASSUME NEW m, NEW a, a[1] \in Paths,
         NEW d \in Symbols \ Reserved, a[1][1] = Name(d),
         Last(Last(a[1])) = ".sh" => m.destination = "plugin" /\ CopyOf(a[1])
  PROVE  Placed(m, a)
<1>1. Reserved \subseteq Symbols
  BY DEF Reserved, Symbols
<1>2. \A t \in Reserved : a[1][1] # Name(t)
  BY <1>1, NamesDiffer
<1> QED
  BY <1>2 DEF Placed, Reserved

\* The Claude adapter.
LEMMA ClaudePaths ==
  ASSUME NEW m, m.squad \in Seq(Words), NEW roster, NamedRoles(roster),
         m.destination = "plugin",
         NEW a \in ClaudePlugin(m, roster, CollectRuntime(SourceTree))
  PROVE  Placed(m, a)
<1>1. CASE a \in ClaudeAgents(m, roster)
  <2>1. PICK r \in ActiveRoles(roster) : a[1] = In("agents", File(RoleId(m, r), ".md"))
    BY <1>1 DEF ClaudeAgents
  <2>2. r.id \in Seq(Words)
    BY DEF ActiveRoles, NamedRoles
  <2>3. a[1] \in Paths /\ a[1][1] = Name("agents") /\ Last(Last(a[1])) = ".md"
    BY <2>1, <2>2, RolePaths
  <2>4. "agents" \in Symbols \ Reserved
    BY DEF Symbols, Reserved
  <2> QED
    BY <2>3, <2>4, PlacedElsewhere
<1>2. CASE a \in ClaudeGenerated(m, roster) \ ClaudeAgents(m, roster)
  <2>1. {".claude-plugin", "plugin.json", ".squad", "provider-role-map.json", "README.md"}
          \subseteq Symbols
    BY DEF Symbols
  <2>2. CASE a = <<In(".claude-plugin", <<Name("plugin.json")>>), ClaudePluginManifest(m)>>
    <3>1. /\ a[1] \in Paths /\ a[1][1] = Name(".claude-plugin") /\ Last(Last(a[1])) = "plugin.json"
          /\ a[2] = ClaudePluginManifest(m)
      <4>1. a[1] = In(".claude-plugin", <<Name("plugin.json")>>) /\ a[2] = ClaudePluginManifest(m)
        BY <2>2
      <4> QED
        BY <2>1, <4>1, OneName, InPath
    <3> QED
      BY <2>1, <3>1, NamesDiffer DEF Placed, Symbols
  <2>3. CASE a[1] = In(".squad", <<Name("provider-role-map.json")>>)
    <3>1. a[1] \in Paths /\ a[1][1] = Name(".squad") /\ Last(Last(a[1])) = "provider-role-map.json"
      BY <2>1, <2>3, OneName, InPath
    <3>2. a[1] = <<Name(".squad"), Name("provider-role-map.json")>>
      BY <2>1, <2>3, OneName, InTwo
    <3> QED
      BY <2>1, <3>1, <3>2, NamesDiffer DEF Placed, Symbols
  <2>4. CASE a[1] = <<Name("README.md")>>
    <3>1. a[1] \in Paths /\ a[1][1] = Name("README.md") /\ Last(Last(a[1])) = "README.md"
      BY <2>1, <2>4, OneName
    <3> QED
      BY <2>1, <3>1, PlacedElsewhere DEF Reserved
  <2> QED
    BY <1>2, <2>2, <2>3, <2>4 DEF ClaudeGenerated
<1>3. CASE a \in VendoredRuntime(m, CollectRuntime(SourceTree))
  <2>1. PICK p \in VendoredPaths(m, CollectRuntime(SourceTree)) : a[1] = p
    BY <1>3 DEF VendoredRuntime
  <2>2. /\ p \in DOMAIN CollectRuntime(SourceTree) /\ p \in Paths /\ CopyOf(p)
        /\ p[1] = Name("hooks") /\ p # License => m.runtime_owner = "claude"
        /\ p = License \/ p[1][1] \in RuntimeDirectories
    BY RuntimePaths, RuntimeIsCopy DEF VendoredPaths
  <2>3. CASE p = License
    <3>1. "LICENSE" \in Symbols \ Reserved
      BY DEF Symbols, Reserved
    <3> QED
      BY <2>1, <2>2, <2>3, <3>1, LicensePath, PlacedElsewhere
  <2>4. CASE p # License
    <3>1. Name(".squad")[1] = ".squad" /\ Name(".claude-plugin")[1] = ".claude-plugin"
      BY DEF Name
    <3>2. p[1] # Name(".squad") /\ p[1] # Name(".claude-plugin")
      BY <2>2, <2>4, <3>1 DEF RuntimeDirectories
    <3> QED
      BY <2>1, <2>2, <2>4, <3>2 DEF Placed
  <2> QED
    BY <2>3, <2>4
<1> QED
  BY <1>1, <1>2, <1>3 DEF ClaudePlugin

\* The Codex adapter: nothing of it lies below a reserved name.
CodexHeads == {"skills", "roles", "runtime", "LICENSE", ".codex-plugin"}

LEMMA CodexPackagePaths ==
  ASSUME NEW m, m.squad \in Seq(Words), NEW roster, NamedRoles(roster),
         NEW a \in CodexPackage(m, roster, CollectRuntime(SourceTree))
  PROVE  /\ a[1] \in Paths /\ \E d \in CodexHeads : a[1][1] = Name(d)
         /\ Last(Last(a[1])) = ".sh" => CopyOf(a[1])
<1>1. {".codex-plugin", "plugin.json", "runtime"} \subseteq Symbols
  BY DEF Symbols
<1>2. \A r \in ActiveRoles(roster) : r.id \in Seq(Words)
  BY DEF ActiveRoles, NamedRoles
<1>3. CASE a \in CodexSkills(m, roster)
  <2>1. PICK r \in ActiveRoles(roster) : a[1] = SkillFile(ProviderRoleSkillId(m.squad, r.id))
    BY <1>3 DEF CodexSkills
  <2>2. ProviderRoleSkillId(m.squad, r.id) \in PathNames
    BY <1>2, <2>1, IdentifierSymbols
  <2> QED
    BY <2>1, <2>2, SkillPaths DEF CodexHeads
<1>4. CASE \E r \in ActiveRoles(roster) : a[1] = In("roles", File(RoleId(m, r), ".md"))
  BY <1>2, <1>4, RolePaths DEF CodexHeads
<1>5. CASE \E p \in DOMAIN CollectRuntime(SourceTree) :
             a[1] = IF p = License THEN p ELSE In("runtime", p)
  <2>1. PICK p \in DOMAIN CollectRuntime(SourceTree) :
          a[1] = IF p = License THEN p ELSE In("runtime", p)
    BY <1>5
  <2>2. p \in Paths /\ CopyOf(p)
    BY RuntimePaths, RuntimeIsCopy
  <2>3. CASE p = License
    BY <2>1, <2>2, <2>3, LicensePath DEF CodexHeads
  <2>4. CASE p # License
    <3>1. In("runtime", p) \in Paths /\ In("runtime", p)[1] = Name("runtime")
      BY <1>1, <2>2, InPath
    <3>2. CopyOf(In("runtime", p))
      BY <1>1, <2>2, OneName, CopyUnder DEF In
    <3> QED
      BY <2>1, <2>4, <3>1, <3>2 DEF CodexHeads
  <2> QED
    BY <2>3, <2>4
<1>6. CASE a = DispatchSkill(m, roster)
  <2>1. a[1] = SkillFile(ProviderDispatchSkillId(m.squad))
    BY <1>6 DEF DispatchSkill
  <2>2. <<>> \in Seq(Words)
    OBVIOUS
  <2>3. ProviderDispatchSkillId(m.squad) \in PathNames
    BY <2>2, IdentifierSymbols
  <2> QED
    BY <2>1, <2>3, SkillPaths DEF CodexHeads
<1>7. CASE a[1] = In(".codex-plugin", <<Name("plugin.json")>>)
  <2>1. a[1] \in Paths /\ a[1][1] = Name(".codex-plugin") /\ Last(Last(a[1])) = "plugin.json"
    BY <1>1, <1>7, OneName, InPath
  <2> QED
    BY <2>1 DEF CodexHeads
<1> QED
  BY <1>3, <1>4, <1>5, <1>6, <1>7 DEF CodexPackage

LEMMA CodexPaths ==
  ASSUME NEW m, m.squad \in Seq(Words), m.squad # <<>>, NEW roster, NamedRoles(roster),
         m.destination = "plugin",
         NEW a \in CodexPlugin(m, roster, CollectRuntime(SourceTree))
  PROVE  Placed(m, a)
<1> DEFINE package == CodexPackage(m, roster, CollectRuntime(SourceTree))
           n == Name("plugins")
           ns == ProviderNamespace(m.squad)
           nested == <<n, ns>>
<1>1. /\ CodexHeads \subseteq Symbols \ Reserved
      /\ {"plugins", ".agents"} \subseteq Symbols \ Reserved
      /\ {".agents", "plugins", "marketplace.json"} \subseteq Symbols
  BY DEF CodexHeads, Symbols, Reserved
<1>2. nested \in Paths /\ nested[1] = Name("plugins")
  <2>1. n \in PathNames /\ ns \in PathNames
    BY <1>1, OneName, IdentifierSymbols
  <2> HIDE DEF n, ns
  <2>2. <<n, ns>> \in Paths /\ <<n, ns>>[1] = n
    BY <2>1 DEF Paths
  <2> QED
    BY <2>2 DEF n
<1> HIDE DEF package, nested
<1>3. ASSUME NEW b \in package
      PROVE  /\ b[1] \in Paths /\ \E d \in CodexHeads : b[1][1] = Name(d)
             /\ Last(Last(b[1])) = ".sh" => CopyOf(b[1])
  BY <1>3, CodexPackagePaths DEF package
<1>4. CASE a \in package
  BY <1>1, <1>3, <1>4, PlacedElsewhere
<1>5. CASE \E b \in package : a = <<nested \o b[1], b[2]>>
  <2>1. PICK b \in package : a = <<nested \o b[1], b[2]>>
    BY <1>5
  <2>2. a[1] = nested \o b[1]
    BY <2>1
  <2>3. b[1] \in Paths /\ (Last(Last(b[1])) = ".sh" => CopyOf(b[1]))
    BY <1>3
  <2>4. a[1] \in Paths /\ a[1][1] = Name("plugins") /\ Last(a[1]) = Last(b[1])
    <3> DEFINE y == b[1]
    <3>1. y \in Paths
      BY <2>3
    <3> HIDE DEF y
    <3>2. nested \o y \in Paths /\ (nested \o y)[1] = nested[1] /\ Last(nested \o y) = Last(y)
      BY <1>2, <3>1, Joined
    <3> QED
      BY <1>2, <2>2, <3>2 DEF y
  <2>5. Last(Last(a[1])) = ".sh" => CopyOf(a[1])
    BY <1>2, <2>2, <2>3, <2>4, CopyUnder
  <2> QED
    BY <1>1, <2>4, <2>5, PlacedElsewhere
<1>6. CASE a[1] = <<Name(".agents"), Name("plugins"), Name("marketplace.json")>>
  <2> DEFINE u == Name(".agents")
             w == Name("marketplace.json")
  <2>1. u \in PathNames /\ n \in PathNames /\ w \in PathNames /\ Last(w) = "marketplace.json"
    BY <1>1, OneName
  <2> HIDE DEF n, u, w
  <2>2. <<u, n, w>> \in Paths /\ <<u, n, w>>[1] = u /\ Last(<<u, n, w>>) = w
    BY <2>1 DEF Paths, Last
  <2>3. a[1] \in Paths /\ a[1][1] = Name(".agents") /\ Last(Last(a[1])) = "marketplace.json"
    BY <1>6, <2>1, <2>2 DEF n, u, w
  <2> QED
    BY <1>1, <2>3, PlacedElsewhere
<1> QED
  BY <1>4, <1>5, <1>6 DEF CodexPlugin, package, nested

\* In a project or for a user, agents and skills under each provider's directory.
LEMMA MountedPaths ==
  ASSUME NEW m, m.squad \in Seq(Words), NEW roster, NamedRoles(roster),
         NEW a, \/ a \in Mounted("claude", ClaudeAgents(m, roster))
                \/ a \in Mounted("codex", CodexAgents(m, roster) \cup CodexSkills(m, roster))
  PROVE  Placed(m, a)
<1> DEFINE heads == {".claude", ".codex", ".agents"}
<1>1. heads \subseteq Symbols \ Reserved
  BY DEF Symbols, Reserved
<1>2. \A r \in ActiveRoles(roster) : r.id \in Seq(Words)
  BY DEF ActiveRoles, NamedRoles
<1>3. PICK b : /\ \/ b \in ClaudeAgents(m, roster) \/ b \in CodexAgents(m, roster)
                  \/ b \in CodexSkills(m, roster)
               /\ \E d \in heads : a[1] = In(d, b[1])
  <2>1. CASE a \in Mounted("claude", ClaudeAgents(m, roster))
    <3>1. PICK b \in ClaudeAgents(m, roster) : a[1] = In(".claude", b[1])
      BY <2>1 DEF Mounted
    <3> QED
      BY <3>1
  <2>2. CASE a \in Mounted("codex", CodexAgents(m, roster) \cup CodexSkills(m, roster))
    <3>1. PICK b \in CodexAgents(m, roster) \cup CodexSkills(m, roster) :
            a[1] = In(".codex", b[1]) \/ a[1] = In(".agents", b[1])
      BY <2>2 DEF Mounted
    <3> QED
      BY <3>1
  <2> QED
    BY <2>1, <2>2
<1>4. b[1] \in Paths /\ Last(Last(b[1])) \in {".md", ".toml", "SKILL.md"}
  <2>1. CASE b \in ClaudeAgents(m, roster)
    BY <1>2, <2>1, RolePaths DEF ClaudeAgents
  <2>2. CASE b \in CodexAgents(m, roster)
    BY <1>2, <2>2, RolePaths DEF CodexAgents
  <2>3. CASE b \in CodexSkills(m, roster)
    <3>1. PICK r \in ActiveRoles(roster) : b[1] = SkillFile(ProviderRoleSkillId(m.squad, r.id))
      BY <2>3 DEF CodexSkills
    <3>2. ProviderRoleSkillId(m.squad, r.id) \in PathNames
      BY <1>2, <3>1, IdentifierSymbols
    <3> QED
      BY <3>1, <3>2, SkillPaths
  <2> QED
    BY <1>3, <2>1, <2>2, <2>3
<1>5. PICK d \in heads : a[1] = In(d, b[1])
  BY <1>3
<1> HIDE DEF heads
<1>6. a[1] \in Paths /\ a[1][1] = Name(d) /\ Last(Last(a[1])) # ".sh"
  BY <1>1, <1>4, <1>5, InPath
<1> QED
  BY <1>1, <1>6, PlacedElsewhere

LEMMA ProviderPaths ==
  ASSUME NEW m, m.squad \in Seq(Words), m.squad # <<>>, NEW roster, NamedRoles(roster),
         NEW a \in ProviderArtifacts(m, roster)
  PROVE  Placed(m, a)
<1>1. CASE m.destination = "plugin"
  <2>1. \/ a \in ClaudePlugin(m, roster, CollectRuntime(SourceTree))
        \/ a \in CodexPlugin(m, roster, CollectRuntime(SourceTree))
    BY <1>1 DEF ProviderArtifacts
  <2> QED
    BY <1>1, <2>1, ClaudePaths, CodexPaths
<1>2. CASE m.destination # "plugin"
  <2>1. \/ a \in Mounted("claude", ClaudeAgents(m, roster))
        \/ a \in Mounted("codex", CodexAgents(m, roster) \cup CodexSkills(m, roster))
    BY <1>2 DEF ProviderArtifacts
  <2> QED
    BY <2>1, MountedPaths
<1> QED
  BY <1>1, <1>2

-----------------------------------------------------------------------------
(* What the engine renders. *)

\* Where the snapshot of an export lies.
LEMMA PrefixPath ==
  ASSUME NEW m, m.squad \in Seq(Words), m.squad # <<>>
  PROVE  LET p == Prefix(m)
             ns == ProviderNamespace(m.squad)
         IN  /\ p \in Paths /\ p[1] = Name(".squad")
             /\ IF m.destination = "project"
                  THEN Len(p) = 3 /\ p[2] = Name("exports") /\ p[3] = ns
                ELSE IF m.destination = "user"
                  THEN Len(p) = 3 /\ p[2] = Name("squads") /\ p[3] = ns
                ELSE Len(p) = 1
<1> DEFINE a == Name(".squad")
           b == Name("exports")
           c == Name("squads")
           ns == ProviderNamespace(m.squad)
<1>1. /\ a \in PathNames /\ b \in PathNames /\ c \in PathNames /\ ns \in PathNames
      /\ <<a>> \in Paths /\ <<a>>[1] = a
  BY OneName, IdentifierSymbols DEF Symbols
<1>2. Prefix(m) = IF m.destination = "project" THEN <<a, b, ns>>
                  ELSE IF m.destination = "user" THEN <<a, c, ns>> ELSE <<a>>
  BY DEF Prefix, SnapshotPrefix
<1> HIDE DEF a, b, c, ns
<1>3. <<a, b, ns>> \in Paths /\ <<a, c, ns>> \in Paths
  BY <1>1 DEF Paths
<1>4. m.destination = "project" => m.destination # "user"
  OBVIOUS
<1>5. CASE m.destination = "project"
  BY <1>1, <1>2, <1>3, <1>5 DEF a, b, ns
<1>6. CASE m.destination = "user"
  BY <1>1, <1>2, <1>3, <1>6 DEF a, c, ns
<1>7. CASE m.destination # "project" /\ m.destination # "user"
  BY <1>1, <1>2, <1>7 DEF a
<1> QED
  BY <1>5, <1>6, <1>7

\* What a snapshot holds, below its prefix.
IndexTail == <<Name("context"), Name("index.json")>>
Documents == {"manifest.json", "roster.json", "provider-role-map.json", "export-receipt.json"}

SnapshotTail(roster, goals, x) ==
  \/ x = IndexTail
  \/ \E b \in ContextBodies(roster, goals) : x = b[1]
  \/ \E t \in Documents : x = <<Name(t)>>

LEMMA TailPaths ==
  ASSUME NEW roster, NamedRoles(roster), NEW goals, NEW x, SnapshotTail(roster, goals, x)
  PROVE  /\ x \in Paths /\ Last(Last(x)) # ".sh"
         /\ x = IndexTail \/ (\E b \in ContextBodies(roster, goals) : x = b[1])
              => x[1] = Name("context") /\ Len(x) >= 2
         /\ \/ x = IndexTail \/ \E b \in ContextBodies(roster, goals) : x = b[1]
            \/ Len(x) = 1 /\ \E t \in Documents : x[1] = Name(t)
<1> DEFINE c == Name("context")
           r == Name("roles")
           i == Name("index.json")
           g == Name("squad-goal.md")
<1>1. /\ Documents \subseteq Symbols /\ ".sh" \notin Documents
      /\ {"context", "roles", "index.json", "squad-goal.md", ".md"} \subseteq Symbols
  BY DEF Documents, Symbols
<1>2. /\ c \in PathNames /\ r \in PathNames /\ i \in PathNames /\ g \in PathNames
      /\ Last(i) = "index.json" /\ Last(g) = "squad-goal.md"
  BY <1>1, OneName
<1> HIDE DEF c, r, i, g
<1>3. ASSUME NEW n \in PathNames, NEW y, y = <<c, n>> \/ y = <<c, r, n>>
      PROVE  y \in Paths /\ y[1] = c /\ Last(y) = n /\ Len(y) >= 2
  <2>1. CASE y = <<c, n>>
    BY <1>2, <1>3, <2>1 DEF Paths, Last
  <2>2. CASE y = <<c, r, n>>
    BY <1>2, <1>3, <2>2 DEF Paths, Last
  <2> QED
    BY <1>3, <2>1, <2>2
<1>4. CASE x = IndexTail
  <2>1. x = <<c, i>>
    BY <1>4 DEF IndexTail, c, i
  <2> QED
    BY <1>2, <1>3, <1>4, <2>1 DEF c
<1>5. ASSUME NEW b \in ContextBodies(roster, goals), x = b[1]
      PROVE  x \in Paths /\ Last(Last(x)) # ".sh" /\ x[1] = Name("context") /\ Len(x) >= 2
  <2>1. CASE x = SquadBody
    <3>1. x = <<c, g>>
      BY <2>1 DEF SquadBody, c, g
    <3> QED
      BY <1>2, <1>3, <3>1 DEF c
  <2>2. CASE \E t \in ToSet(roster.roles) : x = RoleBody(t.id)
    <3>1. PICK t \in ToSet(roster.roles) : x = RoleBody(t.id)
      BY <2>2
    <3>2. t.id \in Seq(Symbols)
      BY SymbolsOfWords, SeqMonotonic DEF NamedRoles
    <3>3. Append(t.id, ".md") \in PathNames /\ Last(Append(t.id, ".md")) = ".md"
      BY <1>1, <3>2, FilePath
    <3>4. x = <<c, r, Append(t.id, ".md")>>
      BY <3>1 DEF RoleBody, c, r
    <3> QED
      BY <1>3, <3>3, <3>4 DEF c
  <2>3. ASSUME NEW t \in ToSet(roster.roles), NEW y \in {t.id} \X Found(t.goal_ref, goals),
               b = <<RoleBody(y[1]), [kind |-> "goal", text |-> y[2]]>>
        PROVE  x = RoleBody(t.id)
    BY <1>5, <2>3
  <2> QED
    BY <1>5, <2>1, <2>2, <2>3 DEF ContextBodies
<1>6. ASSUME NEW t \in Documents, x = <<Name(t)>>
      PROVE  x \in Paths /\ Last(Last(x)) # ".sh" /\ Len(x) = 1 /\ x[1] = Name(t)
  BY <1>1, <1>6, OneName
<1> QED
  BY <1>4, <1>5, <1>6 DEF SnapshotTail

LEMMA EnginePaths ==
  ASSUME NEW m, m.squad \in Seq(Words), m.squad # <<>>, NEW roster, NamedRoles(roster),
         NEW goals, NEW a \in EngineArtifacts(m, roster, goals)
  PROVE  \/ \E x : SnapshotTail(roster, goals, x) /\ a[1] = Prefix(m) \o x
         \/ /\ m.destination = "plugin" /\ a[1] \in Paths
            /\ \E d \in {"ACTIVATION.md", "LICENSE", "shared"} : a[1][1] = Name(d)
            /\ Last(Last(a[1])) = ".sh" => CopyOf(a[1])
<1>1. Prefix(m) \in Paths
  BY PrefixPath
<1>2. ASSUME NEW t \in Documents
      PROVE  Append(Prefix(m), Name(t)) = Prefix(m) \o <<Name(t)>>
  <2>1. Name(t) \in PathNames
    BY OneName DEF Documents, Symbols
  <2> DEFINE n == Name(t)
             p == Prefix(m)
  <2> HIDE DEF n, p
  <2>2. p \in Seq(PathNames) /\ n \in PathNames
    BY <1>1, <2>1 DEF Paths, n, p
  <2>3. Append(p, n) = p \o <<n>>
    BY <2>2, AppendIsConcat
  <2> QED
    BY <2>3 DEF n, p
<1>3. CASE a[1] \in {ManifestPath(m), RosterPath(m), Append(Prefix(m), Name("provider-role-map.json"))}
  <2>1. \E t \in Documents : a[1] = Append(Prefix(m), Name(t))
    BY <1>3 DEF ManifestPath, RosterPath, Documents
  <2> QED
    BY <1>2, <2>1 DEF SnapshotTail
<1>4. CASE a[1] = Prefix(m) \o IndexTail
  BY <1>4 DEF SnapshotTail
<1>5. CASE \E b \in ContextBodies(roster, goals) : a[1] = Prefix(m) \o b[1]
  BY <1>5 DEF SnapshotTail
<1>6. CASE m.destination = "plugin" /\ a \in PluginExtras(m, roster)
  <2>1. {"ACTIVATION.md", "LICENSE", "shared", "manifest.json", "roster.json", "runtime"} \subseteq Symbols
    BY DEF Symbols
  <2>2. CASE a[1] = <<Name("ACTIVATION.md")>>
    <3>1. a[1] \in Paths /\ a[1][1] = Name("ACTIVATION.md") /\ Last(Last(a[1])) # ".sh"
      BY <2>1, <2>2, OneName
    <3> QED
      BY <1>6, <3>1
  <2>3. CASE a[1] = License
    <3>1. a[1] \in Paths /\ a[1][1] = Name("LICENSE") /\ Last(Last(a[1])) # ".sh"
      BY <2>3, LicensePath
    <3> QED
      BY <1>6, <3>1
  <2>4. CASE \E t \in {"manifest.json", "roster.json"} : a[1] = In("shared", <<Name(t)>>)
    <3>1. a[1] \in Paths /\ a[1][1] = Name("shared") /\ Last(Last(a[1])) # ".sh"
      BY <2>1, <2>4, OneName, InPath
    <3> QED
      BY <1>6, <3>1
  <2>5. CASE \E p \in DOMAIN CollectRuntime(SourceTree) : a[1] = In("shared", In("runtime", p))
    <3>1. PICK p \in DOMAIN CollectRuntime(SourceTree) : a[1] = In("shared", In("runtime", p))
      BY <2>5
    <3>2. In("runtime", p) \in Paths /\ CopyOf(In("runtime", p))
      BY <2>1, RuntimePaths, RuntimeIsCopy, OneName, InPath, CopyUnder DEF In
    <3>3. In("shared", In("runtime", p)) \in Paths /\ In("shared", In("runtime", p))[1] = Name("shared")
      BY <2>1, <3>2, InPath
    <3>4. CopyOf(In("shared", In("runtime", p)))
      <4> DEFINE y == In("runtime", p)
      <4> HIDE DEF y
      <4>1. CopyOf(<<Name("shared")>> \o y)
        BY <2>1, <3>2, OneName, CopyUnder DEF y
      <4> QED
        BY <4>1 DEF y, In
    <3> QED
      BY <1>6, <3>1, <3>3, <3>4
  <2> QED
    BY <1>6, <2>2, <2>3, <2>4, <2>5 DEF PluginExtras
<1> QED
  <2>1. CASE a \in {<<ManifestPath(m), ManifestContent(m)>>, <<RosterPath(m), RosterContent(roster)>>}
    <3>1. a[1] \in {ManifestPath(m), RosterPath(m)}
      BY <2>1
    <3> QED
      BY <1>3, <3>1
  <2>2. CASE a = <<Prefix(m) \o IndexTail, ContextIndex(roster, goals)>>
    <3>1. a[1] = Prefix(m) \o IndexTail
      BY <2>2
    <3> QED
      BY <1>4, <3>1
  <2>3. CASE a \in {<<Prefix(m) \o b[1], b[2]>> : b \in ContextBodies(roster, goals)}
    <3>1. PICK b \in ContextBodies(roster, goals) : a = <<Prefix(m) \o b[1], b[2]>>
      BY <2>3
    <3>2. a[1] = Prefix(m) \o b[1]
      BY <3>1
    <3> QED
      BY <1>5, <3>2
  <2>4. CASE a = <<Append(Prefix(m), Name("provider-role-map.json")), ProviderRoleMap(m, roster)>>
    <3>1. a[1] = Append(Prefix(m), Name("provider-role-map.json"))
      BY <2>4
    <3> QED
      BY <1>3, <3>1
  <2> QED
    BY <1>6, <2>1, <2>2, <2>3, <2>4 DEF EngineArtifacts, IndexTail

-----------------------------------------------------------------------------
(* Where the files of an accepted draft lie. *)

\* Squads and roles have the ids that the draft gives them, made of words.
LEMMA IdsOfDraft ==
  ASSUME NEW d \in Drafts, Contracts(d)
  PROVE  LET m == ManifestDict(d.manifest)
             roster == Loaded(d.roster)
         IN  /\ m.squad \in Ids(d)
             /\ \A r \in ToSet(roster.roles) : r.id \in Ids(d)
             /\ \A r \in ToSet(RosterLoaded(PortableRoster(roster)).roles) : r.id \in Ids(d)
<1> DEFINE m == ManifestDict(d.manifest)
           roster == Loaded(d.roster)
           p == PortableRoster(roster)
<1>1. m.squad \in Ids(d)
  BY ManifestIsCanonical DEF Contracts, Ids
<1>2. \A r \in ToSet(roster.roles) : r.id \in Ids(d)
  <2>1. CASE d.roster.schema_version = {}
    <3>1. roster = Migrated(d.roster)
      BY <2>1 DEF Loaded
    <3>2. roster.roles = [i \in DOMAIN d.roster.roles |-> LegacyRole(d.roster.roles[i])]
      BY <3>1 DEF Migrated
    <3> HIDE DEF roster
    <3>3. ASSUME NEW r \in ToSet(roster.roles)
          PROVE  r.id \in Ids(d)
      <4>1. PICK i \in DOMAIN d.roster.roles : r = LegacyRole(d.roster.roles[i])
        BY <3>2 DEF ToSet
      <4>2. r.id = d.roster.roles[i].name /\ d.roster.roles[i] \in ToSet(d.roster.roles)
        BY <4>1 DEF LegacyRole, ToSet
      <4> QED
        BY <2>1, <4>2 DEF Ids
    <3> QED
      BY <3>3
  <2>2. CASE d.roster.schema_version # {}
    <3>1. roster = RosterLoaded(d.roster)
      BY <2>2 DEF Loaded
    <3>2. roster.roles = [i \in DOMAIN d.roster.roles |-> RoleLoaded(d.roster.roles[i])]
      BY <2>2, <3>1, DraftsAssumption DEF RosterLoaded
    <3> HIDE DEF roster
    <3>3. ASSUME NEW r \in ToSet(roster.roles)
          PROVE  r.id \in Ids(d)
      <4>1. PICK i \in DOMAIN d.roster.roles : r = RoleLoaded(d.roster.roles[i])
        BY <3>2 DEF ToSet
      <4> DEFINE t == d.roster.roles[i]
      <4>2. t \in ToSet(d.roster.roles)
        BY DEF ToSet
      <4>3. t.id \in Ids(d) /\ DOMAIN t = RoleKeys
        BY <2>2, <4>2, DraftsAssumption DEF Ids
      <4> HIDE DEF t
      <4>4. r.id = t.id
        BY <4>1, <4>3 DEF RoleLoaded, RoleKeys, t
      <4> QED
        BY <4>3, <4>4
    <3> QED
      BY <3>3
  <2> QED
    BY <2>1, <2>2
<1>3. \A r \in ToSet(RosterLoaded(p).roles) : r.id \in Ids(d)
  <2>1. CanonicalRoster(roster) /\ RosterLoaded(p) = p
    BY RenderedRoster DEF Contracts
  <2> HIDE DEF roster
  <2>2. {r.id : r \in ToSet(p.roles)} = {r.id : r \in ToSet(roster.roles)}
    BY <2>1, SameEntries
  <2> HIDE DEF p
  <2>3. ASSUME NEW r \in ToSet(p.roles)
        PROVE  r.id \in Ids(d)
    BY <1>2, <2>2
  <2> QED
    BY <2>1, <2>3
<1> QED
  BY <1>1, <1>2, <1>3

LEMMA IdsAreWords ==
  ASSUME NEW d \in Drafts
  PROVE  Ids(d) \subseteq Seq(Words)
<1>1. Ids(d) \subseteq Seq(STRING) /\ STRING \subseteq Words
  BY DraftsAssumption, WordsAndTokens
<1>2. \A x \in Seq(STRING) : x \in Seq(Words)
  BY <1>1, SeqMonotonic
<1> QED
  BY <1>1, <1>2

LEMMA NamedDraft ==
  ASSUME NEW d \in Drafts, Contracts(d)
  PROVE  LET m == ManifestDict(d.manifest)
             roster == Loaded(d.roster)
         IN  /\ m.squad \in Seq(Words) /\ m.squad # <<>>
             /\ NamedRoles(roster) /\ NamedRoles(RosterLoaded(PortableRoster(roster)))
<1> DEFINE m == ManifestDict(d.manifest)
           roster == Loaded(d.roster)
           p == RosterLoaded(PortableRoster(roster))
<1>1. /\ m.squad \in Ids(d)
      /\ \A r \in ToSet(roster.roles) : r.id \in Ids(d)
      /\ \A r \in ToSet(p.roles) : r.id \in Ids(d)
  BY IdsOfDraft
<1>2. ManifestLoads(m)
  BY ManifestIsCanonical DEF Contracts
<1> HIDE DEF m, roster, p
<1>3. m.squad \in Seq(Words) /\ Len(m.squad) > 0
  BY <1>1, <1>2, IdsAreWords DEF ManifestLoads
<1>4. NamedRoles(roster) /\ NamedRoles(p)
  BY <1>1, IdsAreWords DEF NamedRoles
<1> QED
  BY <1>3, <1>4 DEF m, roster, p

LEMMA DesiredPaths ==
  ASSUME NEW d \in Drafts, Contracts(d), NEW goals,
         NEW a \in Desired(ManifestDict(d.manifest), Loaded(d.roster), goals)
  PROVE  LET m == ManifestDict(d.manifest)
             roster == Loaded(d.roster)
         IN  \/ Placed(m, a)
             \/ \E x : SnapshotTail(roster, goals, x) /\ a[1] = Prefix(m) \o x
<1> DEFINE m == ManifestDict(d.manifest)
           roster == Loaded(d.roster)
           p == RosterLoaded(PortableRoster(roster))
<1>1. m.squad \in Seq(Words) /\ m.squad # <<>> /\ NamedRoles(roster) /\ NamedRoles(p)
  BY NamedDraft
<1>2. a \in ProviderArtifacts(m, p) \/ a \in EngineArtifacts(m, roster, goals)
  BY DEF Desired
<1> HIDE DEF m, roster, p
<1>3. CASE a \in ProviderArtifacts(m, p)
  BY <1>1, <1>3, ProviderPaths DEF m
<1>4. CASE a \in EngineArtifacts(m, roster, goals)
  <2>1. CASE /\ m.destination = "plugin" /\ a[1] \in Paths
             /\ \E x \in {"ACTIVATION.md", "LICENSE", "shared"} : a[1][1] = Name(x)
             /\ Last(Last(a[1])) = ".sh" => CopyOf(a[1])
    <3>1. {"ACTIVATION.md", "LICENSE", "shared"} \subseteq Symbols \ Reserved
      BY DEF Symbols, Reserved
    <3>2. Placed(m, a)
      BY <2>1, <3>1, PlacedElsewhere
    <3> QED
      BY <3>2 DEF m
  <2>2. CASE \E x : SnapshotTail(roster, goals, x) /\ a[1] = Prefix(m) \o x
    BY <2>2 DEF m, roster
  <2>3. \/ \E x : SnapshotTail(roster, goals, x) /\ a[1] = Prefix(m) \o x
        \/ /\ m.destination = "plugin" /\ a[1] \in Paths
           /\ \E x \in {"ACTIVATION.md", "LICENSE", "shared"} : a[1][1] = Name(x)
           /\ Last(Last(a[1])) = ".sh" => CopyOf(a[1])
    BY <1>1, <1>4, EnginePaths
  <2> QED
    BY <2>1, <2>2, <2>3
<1> QED
  BY <1>2, <1>3, <1>4

LEMMA ReceiptPaths ==
  ASSUME NEW m, m.squad \in Seq(Words), m.squad # <<>>
  PROVE  LET q == ReceiptPath(m)
         IN  /\ q \in Paths /\ Last(Last(q)) # ".sh" /\ q[1] = Name(".squad")
             /\ IF m.destination = "user"
                  THEN q[2] = Name("receipts")
                  ELSE q = Prefix(m) \o <<Name("export-receipt.json")>>
<1>1. {".squad", "receipts", ".json", "export-receipt.json"} \subseteq Symbols
  BY DEF Symbols
<1> DEFINE a == Name(".squad")
           b == Name("receipts")
           c == Append(ProviderNamespace(m.squad), ".json")
           n == Name("export-receipt.json")
<1>2. /\ a \in PathNames /\ b \in PathNames /\ n \in PathNames /\ Last(n) = "export-receipt.json"
      /\ <<n>> \in Paths /\ Last(<<n>>) = n
  BY <1>1, OneName
<1>3. c \in PathNames /\ Last(c) = ".json"
  BY <1>1, IdentifierSymbols, FilePath
<1>4. ReceiptPath(m) = IF m.destination = "user" THEN <<a, b, c>> ELSE Append(Prefix(m), n)
  BY DEF ReceiptPath
<1>5. Prefix(m) \in Paths /\ Prefix(m)[1] = a
  BY PrefixPath
<1> HIDE DEF a, b, c, n
<1>6. CASE m.destination = "user"
  <2>1. <<a, b, c>> \in Paths /\ <<a, b, c>>[1] = a /\ <<a, b, c>>[2] = b /\ Last(<<a, b, c>>) = c
    BY <1>2, <1>3 DEF Paths, Last
  <2> QED
    BY <1>3, <1>4, <1>6, <2>1 DEF a, b
<1>7. CASE m.destination # "user"
  <2>1. Append(Prefix(m), n) = Prefix(m) \o <<n>>
    <3> DEFINE p == Prefix(m)
    <3> HIDE DEF p
    <3>1. p \in Seq(PathNames) /\ n \in PathNames
      BY <1>2, <1>5 DEF Paths, p
    <3>2. Append(p, n) = p \o <<n>>
      BY <3>1, AppendIsConcat
    <3> QED
      BY <3>2 DEF p
  <2>2. /\ Prefix(m) \o <<n>> \in Paths /\ (Prefix(m) \o <<n>>)[1] = Prefix(m)[1]
        /\ Last(Prefix(m) \o <<n>>) = Last(<<n>>)
    BY <1>2, <1>5, Joined
  <2> QED
    BY <1>2, <1>4, <1>5, <1>7, <2>1, <2>2 DEF a, n
<1> QED
  BY <1>6, <1>7

-----------------------------------------------------------------------------
(* What lies where. *)

LEMMA OwnedPaths ==
  ASSUME NEW root, NEW q, NEW d \in Drafts, NEW goals, InstalledFrom(d, goals, root, q),
         NEW p \in DOMAIN Owned(root, q)
  PROVE  LET m == ManifestDict(d.manifest)
             roster == Loaded(d.roster)
         IN  \E a \in Desired(m, roster, goals) :
               /\ a[1] = p /\ tree[root][p].content = a[2]
               /\ \/ Placed(m, a)
                  \/ \E x : SnapshotTail(roster, goals, x) /\ p = Prefix(m) \o x
<1> DEFINE m == ManifestDict(d.manifest)
           roster == Loaded(d.roster)
           artifacts == Desired(m, roster, goals)
           files == Files(artifacts)
<1>1. Contracts(d) /\ p \in DOMAIN files /\ tree[root][p].content = files[p]
  <2>1. /\ Contracts(d) /\ DOMAIN tree[root][q].content.files = DOMAIN files
        /\ \A y \in DOMAIN files :
             /\ tree[root][y] = tree[root][q].content.files[y]
             /\ tree[root][q].content.files[y].content = files[y]
    BY DEF InstalledFrom
  <2> HIDE DEF files
  <2> QED
    BY <2>1 DEF Owned
<1>2. PICK a \in artifacts : a[1] = p /\ files[p] = a[2]
  BY <1>1, FileIsArtifact
<1>3. \/ Placed(m, a)
      \/ \E x : SnapshotTail(roster, goals, x) /\ a[1] = Prefix(m) \o x
  BY <1>1, DesiredPaths
<1> QED
  BY <1>1, <1>2, <1>3

\* Every path is one, and the receipts and the snapshots' documents are no scripts.
LEMMA InstalledPaths ==
  ASSUME ExportInv, NEW root \in Roots, NEW q \in Installed(root)
  PROVE  /\ q \in Paths /\ Last(Last(q)) # ".sh" /\ q[1] = Name(".squad")
         /\ \A p \in DOMAIN Owned(root, q) : p \in Paths
<1>1. PICK d \in Drafts, goals \in GoalFiles : InstalledFrom(d, goals, root, q)
  BY InstalledExport
<1> DEFINE m == ManifestDict(d.manifest)
           roster == Loaded(d.roster)
<1>2. Contracts(d) /\ q = ReceiptPath(m)
  BY <1>1 DEF InstalledFrom
<1>3. m.squad \in Seq(Words) /\ m.squad # <<>> /\ NamedRoles(roster)
  BY <1>2, NamedDraft
<1> HIDE DEF m, roster
<1>4. q \in Paths /\ Last(Last(q)) # ".sh" /\ q[1] = Name(".squad")
  BY <1>2, <1>3, ReceiptPaths
<1>5. ASSUME NEW p \in DOMAIN Owned(root, q)
      PROVE  p \in Paths
  <2>1. PICK a \in Desired(m, roster, goals) :
          /\ a[1] = p /\ tree[root][p].content = a[2]
          /\ \/ Placed(m, a)
             \/ \E x : SnapshotTail(roster, goals, x) /\ p = Prefix(m) \o x
    BY <1>1, OwnedPaths DEF m, roster
  <2>2. CASE Placed(m, a)
    BY <2>1, <2>2 DEF Placed
  <2>3. CASE \E x : SnapshotTail(roster, goals, x) /\ p = Prefix(m) \o x
    BY <1>3, <2>3, TailPaths, PrefixPath, Joined
  <2> QED
    BY <2>1, <2>2, <2>3
<1> QED
  BY <1>4, <1>5

\* Paths are sequences of names, a file may be executable or not, and the
\* history has the state of the source root for each installed export.
THEOREM FilesWellFormed == Spec => []TypeOK
<1>1. ExportInv => TypeOK
  <2> SUFFICES ASSUME ExportInv
               PROVE  TypeOK
    OBVIOUS
  <2>1. DOMAIN tree = Roots /\ DOMAIN truth = Receipts
    BY DEF ExportInv, ReceiptsInv
  <2>2. ASSUME NEW r \in Roots, NEW p, Present(r, p)
        PROVE  p \in Paths /\ tree[r][p].executable \in BOOLEAN
    <3>1. CASE p \in Installed(r)
      <4>1. PICK s \in Rendered :
              tree[r][p] = [content |-> Receipt(s.manifest, s.roster, s.files), executable |-> FALSE]
        BY <3>1 DEF ExportInv, ReceiptsInv
      <4> QED
        BY <3>1, <4>1, InstalledPaths
    <3>2. CASE p \notin Installed(r)
      <4>1. PICK q \in Installed(r) : p \in DOMAIN Owned(r, q)
        BY <2>2, <3>2 DEF ExportInv, AccountedInv, Present
      <4> QED
        BY <4>1, InstalledPaths, OwnedSays
    <3> QED
      BY <3>1, <3>2
  <2>3. ASSUME NEW x \in Receipts
        PROVE  truth[x].root \in BOOLEAN
    <3>1. PICK root \in Roots : \E q \in Installed(root) : x = <<root, q>>
      BY DEF Receipts
    <3>2. PICK q \in Installed(root) : x = <<root, q>>
      BY <3>1
    <3>3. PICK d \in Drafts, goals \in GoalFiles : InstalledFrom(d, goals, root, q)
      BY InstalledExport
    <3>4. truth[x] = Declared(Loaded(d.roster), goals)
      BY <3>2, <3>3 DEF InstalledFrom
    <3>5. truth[x].root = goals.root
      BY <3>4, GoalFilesAssumption DEF Declared
    <3> QED
      BY <3>5, GoalFilesAssumption
  <2>4. ASSUME NEW r \in Roots, NEW p, Present(r, p)
        PROVE  p # <<>> /\ (\A i \in DOMAIN p : p[i] # <<>>) /\ tree[r][p].executable \in BOOLEAN
    BY <2>2, <2>4, PathSays
  <2> QED
    BY <2>1, <2>3, <2>4 DEF TypeOK
<1> QED
  BY <1>1, ExportInvariance, PTL

\* What does not lie below .squad, and every script, is where its kind may lie.
LEMMA OffSnapshot ==
  ASSUME NEW root, NEW q, NEW d \in Drafts, NEW goals, InstalledFrom(d, goals, root, q),
         NEW p \in DOMAIN Owned(root, q),
         p[1] # Name(".squad") \/ Last(Last(p)) = ".sh"
  PROVE  LET m == ManifestDict(d.manifest)
         IN  \E a \in Desired(m, Loaded(d.roster), goals) :
               a[1] = p /\ tree[root][p].content = a[2] /\ Placed(m, a)
<1> DEFINE m == ManifestDict(d.manifest)
           roster == Loaded(d.roster)
<1>1. PICK a \in Desired(m, roster, goals) :
        /\ a[1] = p /\ tree[root][p].content = a[2]
        /\ Placed(m, a) \/ \E x : SnapshotTail(roster, goals, x) /\ p = Prefix(m) \o x
  BY OwnedPaths
<1>2. m.squad \in Seq(Words) /\ m.squad # <<>> /\ NamedRoles(roster)
  BY NamedDraft DEF InstalledFrom
<1> HIDE DEF m, roster
<1>3. ~\E x : SnapshotTail(roster, goals, x) /\ p = Prefix(m) \o x
  <2> SUFFICES ASSUME NEW x, SnapshotTail(roster, goals, x), p = Prefix(m) \o x
               PROVE  FALSE
    OBVIOUS
  <2>1. x \in Paths /\ Last(Last(x)) # ".sh"
    BY <1>2, TailPaths
  <2> DEFINE f == Prefix(m)
  <2>2. f \in Paths /\ f[1] = Name(".squad") /\ p = f \o x
    BY <1>2, PrefixPath
  <2> HIDE DEF f
  <2>3. (f \o x)[1] = f[1] /\ Last(f \o x) = Last(x)
    BY <2>1, <2>2, Joined
  <2> QED
    BY <2>1, <2>2, <2>3
<1> QED
  BY <1>1, <1>3 DEF m, roster

\* A root has one plugin at most.
LEMMA OnePlugin ==
  ASSUME NEW root,
         NEW q, NEW d \in Drafts, NEW goals, InstalledFrom(d, goals, root, q),
         NEW q2, NEW d2 \in Drafts, NEW goals2, InstalledFrom(d2, goals2, root, q2),
         ManifestDict(d.manifest).destination = "plugin",
         ManifestDict(d2.manifest).destination = "plugin"
  PROVE  ManifestDict(d2.manifest) = ManifestDict(d.manifest)
<1> DEFINE m == ManifestDict(d.manifest)
           m2 == ManifestDict(d2.manifest)
<1>1. /\ q = ReceiptPath(m) /\ q2 = ReceiptPath(m2)
      /\ tree[root][q].content.source = SourceHash(m, Loaded(d.roster))
      /\ tree[root][q2].content.source = SourceHash(m2, Loaded(d2.roster))
      /\ ManifestDict(m) = m /\ ManifestDict(m2) = m2
  BY ManifestIsCanonical DEF InstalledFrom, Contracts
<1> HIDE DEF m, m2
<1>2. q = q2
  BY <1>1 DEF ReceiptPath, Prefix, SnapshotPrefix, m, m2
<1>3. SourceHash(m, Loaded(d.roster)) = SourceHash(m2, Loaded(d2.roster))
  BY <1>1, <1>2
<1>4. ManifestDict(m) = ManifestDict(m2)
  BY <1>3 DEF SourceHash
<1> QED
  BY <1>1, <1>4 DEF m, m2

LEMMA HooksLieInHooks ==
  ASSUME NEW p \in HookScripts
  PROVE  p[1] = Name("hooks") /\ Name("hooks")[1] = "hooks" /\ p # License
<1>1. PICK h : p = In("hooks", File(<<h>>, ".sh"))
  BY DEF HookScripts
<1> DEFINE n == Name("hooks")
           f == Append(<<h>>, ".sh")
<1>2. p = <<n>> \o <<f>>
  BY <1>1 DEF In, File
<1>3. n \in PathNames /\ n[1] = "hooks" /\ License[1] = Name("LICENSE") /\ n # Name("LICENSE")
  BY OneName, LicensePath, NamesDiffer DEF Symbols
<1> HIDE DEF n, f
<1>4. <<n>> \in Seq({n, f}) /\ <<f>> \in Seq({n, f})
  OBVIOUS
<1>5. (<<n>> \o <<f>>)[1] = n
  BY <1>4
<1> QED
  BY <1>2, <1>3, <1>5 DEF n

\* A plugin whose runtime Claude owns carries every hook it registers.
LEMMA HooksAreVendored ==
  ASSUME NEW m, NEW roster, NEW goals, Renders(m, roster, goals), ManifestLoads(m),
         m.destination = "plugin", m.runtime_owner = "claude"
  PROVE  HookScripts \subseteq DOMAIN Files(Desired(m, roster, goals))
<1> DEFINE p == RosterLoaded(PortableRoster(roster))
           runtime == CollectRuntime(SourceTree)
           artifacts == Desired(m, roster, goals)
<1>1. "claude" \in ToSet(m.providers)
  BY DEF ManifestLoads
<1> HIDE DEF p, runtime
<1>2. HookScripts \subseteq DOMAIN runtime
  BY <1>1 DEF Renders, ProvidersCompile, ClaudePluginCompiles, p, runtime
<1>3. ASSUME NEW h \in HookScripts
      PROVE  h \in DOMAIN Files(artifacts)
  <2>1. h[1] = Name("hooks") /\ h[1][1] = "hooks"
    BY HooksLieInHooks
  <2>2. h \in VendoredPaths(m, runtime)
    BY <1>2, <2>1 DEF VendoredPaths, RuntimeDirectories
  <2>3. <<h, runtime[h]>> \in ProviderArtifacts(m, p)
    BY <1>1, <2>2 DEF ProviderArtifacts, ClaudePlugin, VendoredRuntime, runtime
  <2>4. <<h, runtime[h]>> \in artifacts
    BY <2>3 DEF Desired, p
  <2>5. Functional(artifacts)
    BY DEF Renders
  <2> HIDE DEF artifacts
  <2> QED
    BY <2>4, <2>5, ArtifactIsFile
<1> QED
  BY <1>3

\* Every script of a plugin is executable in every copy, and the hooks that a
\* plugin registers are all there, or none is where Claude looks for them.
THEOREM HooksRun == Spec => []RegisteredHooksRunnable
<1>1. ExportInv => RegisteredHooksRunnable
  <2> SUFFICES ASSUME ExportInv, NEW root \in Roots
               PROVE  LET files == tree[root]
                          plugin == In(".claude-plugin", <<Name("plugin.json")>>)
                      IN  /\ \A p \in DOMAIN files :
                               Last(Last(p)) = ".sh" => files[p].executable
                          /\ plugin \in DOMAIN files =>
                               /\ files[plugin].content.hooks \subseteq DOMAIN files
                               /\ files[plugin].content.hooks = {p \in HookScripts : p \in DOMAIN files}
    BY DEF RegisteredHooksRunnable
  <2> DEFINE plugin == In(".claude-plugin", <<Name("plugin.json")>>)
  <2>1. ASSUME NEW p \in DOMAIN tree[root], p[1] # Name(".squad") \/ Last(Last(p)) = ".sh"
        PROVE  \E q \in Installed(root), d \in Drafts, goals \in GoalFiles :
                 /\ p \in DOMAIN Owned(root, q) /\ InstalledFrom(d, goals, root, q)
                 /\ \E a : /\ a[1] = p /\ tree[root][p].content = a[2]
                           /\ Placed(ManifestDict(d.manifest), a)
    <3>1. p \notin Installed(root)
      BY <2>1, InstalledPaths
    <3>2. PICK q \in Installed(root) : p \in DOMAIN Owned(root, q)
      BY <3>1 DEF ExportInv, AccountedInv
    <3>3. PICK d \in Drafts, goals \in GoalFiles : InstalledFrom(d, goals, root, q)
      BY InstalledExport
    <3> QED
      BY <2>1, <3>2, <3>3, OffSnapshot
  <2>2. ASSUME NEW p \in DOMAIN tree[root], Last(Last(p)) = ".sh"
        PROVE  tree[root][p].executable
    <3>1. PICK q \in Installed(root), d \in Drafts, goals \in GoalFiles :
            /\ p \in DOMAIN Owned(root, q) /\ InstalledFrom(d, goals, root, q)
            /\ \E a : a[1] = p /\ Placed(ManifestDict(d.manifest), a)
      BY <2>1, <2>2
    <3>2. p \in Paths /\ ManifestDict(d.manifest).destination = "plugin" /\ CopyOf(p)
      BY <2>2, <3>1 DEF Placed
    <3>3. \E x \in Scripts : IsSuffix(x, p)
      BY <2>2, <3>2, CopiesOfScripts
    <3>4. tree[root][q].content.destination = "plugin"
      BY <3>1, <3>2 DEF InstalledFrom
    <3>5. tree[root][p].executable =
            (tree[root][q].content.destination = "plugin" /\ \E x \in Scripts : IsSuffix(x, p))
      BY <3>1, OwnedSays
    <3> QED
      BY <3>3, <3>4, <3>5
  <2>3. ASSUME plugin \in DOMAIN tree[root]
        PROVE  /\ tree[root][plugin].content.hooks \subseteq DOMAIN tree[root]
               /\ tree[root][plugin].content.hooks = {p \in HookScripts : p \in DOMAIN tree[root]}
    <3>1. plugin[1] = Name(".claude-plugin") /\ plugin[1] # Name(".squad")
      <4>1. {".claude-plugin", ".squad", "plugin.json"} \subseteq Symbols
        BY DEF Symbols
      <4> QED
        BY <4>1, OneName, InPath, NamesDiffer
    <3> HIDE DEF plugin
    <3>2. PICK q \in Installed(root), d \in Drafts, goals \in GoalFiles :
            /\ plugin \in DOMAIN Owned(root, q) /\ InstalledFrom(d, goals, root, q)
            /\ \E a : /\ a[1] = plugin /\ tree[root][plugin].content = a[2]
                      /\ Placed(ManifestDict(d.manifest), a)
      BY <2>1, <2>3, <3>1
    <3> DEFINE m == ManifestDict(d.manifest)
    <3>3. m.destination = "plugin" /\ tree[root][plugin].content = ClaudePluginManifest(m)
      BY <3>1, <3>2 DEF Placed
    <3>4. /\ Renders(m, Loaded(d.roster), goals) /\ ManifestLoads(m)
          /\ \A p \in DOMAIN Files(Desired(m, Loaded(d.roster), goals)) : p \in DOMAIN tree[root]
      BY <3>2, ManifestIsCanonical DEF InstalledFrom, Contracts
    <3>5. tree[root][plugin].content.hooks = IF m.runtime_owner = "claude" THEN HookScripts ELSE {}
      BY <3>3 DEF ClaudePluginManifest
    <3>6. CASE m.runtime_owner = "claude"
      <4> HIDE DEF m
      <4>1. HookScripts \subseteq DOMAIN tree[root]
        BY <3>3, <3>4, <3>6, HooksAreVendored
      <4> QED
        BY <3>5, <3>6, <4>1
    <3>7. CASE m.runtime_owner # "claude"
      <4>1. ASSUME NEW p \in HookScripts, p \in DOMAIN tree[root]
            PROVE  FALSE
        <5>1. p[1] = Name("hooks") /\ p[1] # Name(".squad")
          BY HooksLieInHooks, NamesDiffer DEF Symbols
        <5>2. PICK q2 \in Installed(root), d2 \in Drafts, goals2 \in GoalFiles :
                /\ p \in DOMAIN Owned(root, q2) /\ InstalledFrom(d2, goals2, root, q2)
                /\ \E a : a[1] = p /\ Placed(ManifestDict(d2.manifest), a)
          BY <2>1, <4>1, <5>1
        <5>3. /\ ManifestDict(d2.manifest).destination = "plugin"
              /\ ManifestDict(d2.manifest).runtime_owner = "claude"
          BY <5>1, <5>2 DEF Placed
        <5>4. ManifestDict(d2.manifest) = m
          BY <3>2, <3>3, <5>2, <5>3, OnePlugin
        <5> QED
          BY <3>7, <5>3, <5>4
      <4> QED
        BY <3>5, <3>7, <4>1
    <3> QED
      BY <3>6, <3>7
  <2> QED
    BY <2>2, <2>3
<1> QED
  BY <1>1, ExportInvariance, PTL

-----------------------------------------------------------------------------
(* The context of a snapshot. *)

\* A path lies strictly under a directory if it is longer and starts with it.
LEMMA Under ==
  ASSUME NEW f \in Paths, NEW n \in PathNames, NEW p \in Paths
  PROVE  IsStrictPrefix(Append(f, n), p) <=>
           /\ Len(p) > Len(f) + 1 /\ p[Len(f) + 1] = n
           /\ \A i \in 1..Len(f) : p[i] = f[i]
<1> DEFINE c == Append(f, n)
<1>1. /\ c \in Seq(PathNames) /\ Len(c) = Len(f) + 1 /\ c[Len(f) + 1] = n
      /\ \A i \in 1..Len(f) : c[i] = f[i]
  BY DEF Paths
<1>2. p \in Seq(PathNames) /\ Len(p) \in Nat /\ Len(f) \in Nat
  BY DEF Paths
<1> HIDE DEF c
<1>3. ASSUME Len(p) > Len(f) + 1, p[Len(f) + 1] = n, \A i \in 1..Len(f) : p[i] = f[i]
      PROVE  IsPrefix(c, p) /\ c # p
  <2> DEFINE u == SubSeq(c, 1, Len(c))
             v == SubSeq(p, 1, Len(c))
  <2>1. /\ u \in Seq(PathNames) /\ v \in Seq(PathNames)
        /\ Len(u) = Len(c) /\ Len(v) = Len(c)
        /\ \A i \in 1..Len(c) : u[i] = c[i] /\ v[i] = p[i]
    BY <1>1, <1>2, <1>3
  <2>2. \A i \in 1..Len(c) : c[i] = p[i]
    BY <1>1, <1>2, <1>3
  <2> HIDE DEF u, v
  <2>3. u = v
    BY <2>1, <2>2, SeqEqual
  <2>4. Len(c) <= Len(p) /\ c # p
    BY <1>1, <1>2, <1>3
  <2> QED
    BY <2>3, <2>4 DEF IsPrefix, u, v
<1>4. ASSUME IsPrefix(c, p), c # p
      PROVE  /\ Len(p) > Len(f) + 1 /\ p[Len(f) + 1] = n
             /\ \A i \in 1..Len(f) : p[i] = f[i]
  <2>1. Len(c) <= Len(p) /\ SubSeq(c, 1, Len(c)) = SubSeq(p, 1, Len(c))
    BY <1>4 DEF IsPrefix
  <2>2. \A i \in 1..Len(c) : c[i] = p[i]
    BY <1>1, <1>2, <2>1
  <2>3. Len(c) # Len(p)
    BY <1>1, <1>2, <1>4, <2>2, SeqEqual
  <2> QED
    BY <1>1, <1>2, <2>1, <2>2, <2>3
<1> QED
  BY <1>3, <1>4 DEF IsStrictPrefix, c

LEMMA JoinedHead ==
  ASSUME NEW f \in Paths, NEW x \in Paths
  PROVE  /\ Len(f \o x) = Len(f) + Len(x) /\ (f \o x)[Len(f) + 1] = x[1]
         /\ \A i \in 1..Len(f) : (f \o x)[i] = f[i]
BY DEF Paths

\* The index and the names in it.
LEMMA ContextParts ==
  ASSUME NEW f \in Paths
  PROVE  LET context == Append(f, Name("context"))
         IN  Front(context) = f /\ Append(context, Name("index.json")) = f \o IndexTail
<1> DEFINE c == Name("context")
           i == Name("index.json")
<1>1. c \in PathNames /\ i \in PathNames /\ f \in Seq(PathNames)
  BY OneName DEF Symbols, Paths
<1> HIDE DEF c, i
<1>2. Front(Append(f, c)) = f
  <2> DEFINE u == SubSeq(Append(f, c), 1, Len(Append(f, c)) - 1)
  <2>1. u \in Seq(PathNames) /\ Len(u) = Len(f) /\ \A k \in 1..Len(f) : u[k] = f[k]
    BY <1>1
  <2> HIDE DEF u
  <2>2. u = f
    BY <1>1, <2>1, SeqEqual
  <2> QED
    BY <2>2 DEF Front, u
<1>3. Append(Append(f, c), i) = f \o <<c, i>>
  <2> DEFINE u == Append(Append(f, c), i)
             v == f \o <<c, i>>
  <2>1. /\ u \in Seq(PathNames) /\ Len(u) = Len(f) + 2
        /\ u[Len(f) + 1] = c /\ u[Len(f) + 2] = i /\ \A k \in 1..Len(f) : u[k] = f[k]
    BY <1>1
  <2>2. /\ v \in Seq(PathNames) /\ Len(v) = Len(f) + 2
        /\ v[Len(f) + 1] = c /\ v[Len(f) + 2] = i /\ \A k \in 1..Len(f) : v[k] = f[k]
    BY <1>1
  <2> HIDE DEF u, v
  <2>3. \A k \in 1..Len(u) : u[k] = v[k]
    BY <1>1, <2>1, <2>2
  <2>4. u = v
    BY <2>1, <2>2, <2>3, SeqEqual
  <2> QED
    BY <2>4 DEF u, v
<1> QED
  BY <1>2, <1>3 DEF c, i, IndexTail

\* Only the snapshot's own export writes under its context directory.
LEMMA OneSnapshot ==
  ASSUME NEW root,
         NEW m, m.squad \in Seq(Words), m.squad # <<>>, TargetAllowed(m.destination, root),
         NEW m2, m2.squad \in Seq(Words), m2.squad # <<>>, TargetAllowed(m2.destination, root),
         NEW x \in Paths, x[1] = Name("context") \/ \E t \in Documents : x[1] = Name(t),
         IsStrictPrefix(Append(Prefix(m), Name("context")), Prefix(m2) \o x)
  PROVE  ReceiptPath(m2) = ReceiptPath(m) /\ Prefix(m2) = Prefix(m) /\ x[1] = Name("context")
<1> DEFINE f == Prefix(m)
           g == Prefix(m2)
           ns == ProviderNamespace(m.squad)
           ns2 == ProviderNamespace(m2.squad)
           c == Name("context")
           p == g \o x
<1>1. /\ \/ m.destination = "user" /\ m2.destination = "user"
         \/ m.destination \in {"project", "plugin"} /\ m2.destination \in {"project", "plugin"}
  BY DEF TargetAllowed
<1>2. /\ f \in Paths
      /\ IF m.destination = "project" THEN Len(f) = 3 /\ f[2] = Name("exports") /\ f[3] = ns
         ELSE IF m.destination = "user" THEN Len(f) = 3 /\ f[2] = Name("squads") /\ f[3] = ns
         ELSE Len(f) = 1
  BY PrefixPath
<1>3. /\ g \in Paths
      /\ IF m2.destination = "project" THEN Len(g) = 3 /\ g[2] = Name("exports") /\ g[3] = ns2
         ELSE IF m2.destination = "user" THEN Len(g) = 3 /\ g[2] = Name("squads") /\ g[3] = ns2
         ELSE Len(g) = 1
  BY PrefixPath
<1>4. /\ Name("exports") # Name("context")
      /\ \A t \in Documents : Name(t) # Name("exports")
  <2>1. Documents \cup {"exports", "context"} \subseteq Symbols /\ "exports" \notin Documents
    BY DEF Symbols, Documents
  <2> QED
    BY <2>1, NamesDiffer
<1>5. c \in PathNames
  BY OneName DEF Symbols
<1>6. p \in Paths
  BY <1>3, Joined
<1>7. /\ Len(p) = Len(g) + Len(x) /\ p[Len(g) + 1] = x[1]
      /\ \A i \in 1..Len(g) : p[i] = g[i]
  BY <1>3, JoinedHead
<1>8. /\ Len(p) > Len(f) + 1 /\ p[Len(f) + 1] = c
      /\ \A i \in 1..Len(f) : p[i] = f[i]
  <2>1. IsStrictPrefix(Append(f, c), p)
    OBVIOUS
  <2> HIDE DEF f, c, p
  <2> QED
    BY <1>2, <1>5, <1>6, <2>1, Under
<1>9. Len(f) \in Nat /\ Len(g) \in Nat
  BY <1>2, <1>3, PathSays
<1> HIDE DEF p
<1>10. m2.destination = m.destination /\ x[1] = c /\ (m.destination # "plugin" => ns2 = ns)
  <2>1. CASE m.destination = "user" /\ m2.destination = "user"
    <3> HIDE DEF f, g, ns, ns2, c
    <3>1. Len(f) = 3 /\ Len(g) = 3 /\ f[3] = ns /\ g[3] = ns2
      BY <1>2, <1>3, <2>1
    <3>2. p[3] = g[3] /\ p[3] = f[3] /\ p[4] = x[1] /\ p[4] = c
      BY <1>7, <1>8, <3>1
    <3> QED
      BY <2>1, <3>1, <3>2
  <2>2. CASE m.destination = "project" /\ m2.destination = "project"
    <3> HIDE DEF f, g, ns, ns2, c
    <3>1. Len(f) = 3 /\ Len(g) = 3 /\ f[3] = ns /\ g[3] = ns2
      BY <1>2, <1>3, <2>2
    <3>2. p[3] = g[3] /\ p[3] = f[3] /\ p[4] = x[1] /\ p[4] = c
      BY <1>7, <1>8, <3>1
    <3> QED
      BY <2>2, <3>1, <3>2
  <2>3. CASE m.destination = "plugin" /\ m2.destination = "plugin"
    <3> HIDE DEF f, g, ns, ns2, c
    <3>1. Len(f) = 1 /\ Len(g) = 1
      BY <1>2, <1>3, <2>3
    <3>2. p[2] = x[1] /\ p[2] = c
      BY <1>7, <1>8, <3>1
    <3> QED
      BY <2>3, <3>2
  <2>4. CASE m.destination = "plugin" /\ m2.destination = "project"
    <3> HIDE DEF f, g, ns, ns2
    <3>1. Len(f) = 1 /\ Len(g) = 3 /\ g[2] = Name("exports")
      BY <1>2, <1>3, <2>4
    <3>2. p[2] = g[2] /\ p[2] = c
      BY <1>7, <1>8, <3>1
    <3> QED
      BY <1>4, <3>1, <3>2
  <2>5. CASE m.destination = "project" /\ m2.destination = "plugin"
    <3> HIDE DEF f, g, ns, ns2
    <3>1. Len(f) = 3 /\ f[2] = Name("exports") /\ Len(g) = 1
      BY <1>2, <1>3, <2>5
    <3>2. p[2] = f[2] /\ p[2] = x[1]
      BY <1>7, <1>8, <3>1
    <3> QED
      BY <1>4, <3>1, <3>2
  <2> QED
    BY <1>1, <2>1, <2>2, <2>3, <2>4, <2>5
<1>11. Prefix(m2) = Prefix(m)
  BY <1>1, <1>10 DEF Prefix, SnapshotPrefix
<1> QED
  BY <1>10, <1>11 DEF ReceiptPath

\* The entries say "included" of the goals that exist, whose texts are the bodies.
LEMMA EntriesSay ==
  ASSUME NEW roster, SourcesCanonical(roster), NEW goals \in GoalFiles
  PROVE  LET index == ContextIndex(roster, goals)
             entries == {index.squad} \cup {e[2] : e \in index.roles}
             found(e) == Found(e.source, Declared(roster, goals))
         IN  /\ \A e \in entries :
                  /\ e.status = "included" <=> found(e) # {}
                  /\ \A t \in found(e) : e.status = "included" =>
                       <<e.snapshot, [kind |-> "goal", text |-> t]>> \in ContextBodies(roster, goals)
             /\ \A b \in ContextBodies(roster, goals) :
                  \E e \in entries : e.status = "included" /\ e.snapshot = b[1]
<1> DEFINE index == ContextIndex(roster, goals)
           entries == {index.squad} \cup {e[2] : e \in index.roles}
           found(e) == Found(e.source, Declared(roster, goals))
           goal(t) == [kind |-> "goal", text |-> t]
<1>1. ASSUME NEW source, NEW snapshot
      PROVE  LET e == Entry(source, goals, snapshot)
             IN  /\ e.source = source
                 /\ e.status = "included" <=> Found(source, goals) # {}
                 /\ e.status = "included" => e.snapshot = snapshot
  BY DEF Entry, Found
<1>2. /\ index.squad = Entry({SquadGoalRef}, goals, SquadBody)
      /\ index.roles = RoleEntries(roster, goals)
  BY DEF ContextIndex
<1> HIDE DEF index
<1>3. ASSUME NEW e
      PROVE  e \in entries <=>
               \/ e = Entry({SquadGoalRef}, goals, SquadBody)
               \/ \E r \in ToSet(roster.roles) : e = Entry(r.goal_ref, goals, RoleBody(r.id))
  <2>1. (\E x \in index.roles : e = x[2]) <=>
          \E r \in ToSet(roster.roles) : e = Entry(r.goal_ref, goals, RoleBody(r.id))
    <3>1. ASSUME NEW x \in index.roles, e = x[2]
          PROVE  \E r \in ToSet(roster.roles) : e = Entry(r.goal_ref, goals, RoleBody(r.id))
      <4>1. PICK r \in ToSet(roster.roles) : x = <<r.id, Entry(r.goal_ref, goals, RoleBody(r.id))>>
        BY <1>2, <3>1 DEF RoleEntries
      <4> QED
        BY <3>1, <4>1
    <3>2. ASSUME NEW r \in ToSet(roster.roles), e = Entry(r.goal_ref, goals, RoleBody(r.id))
          PROVE  \E x \in index.roles : e = x[2]
      <4>1. <<r.id, e>> \in index.roles
        BY <1>2, <3>2 DEF RoleEntries
      <4> QED
        BY <4>1
    <3> QED
      BY <3>1, <3>2
  <2> QED
    BY <1>2, <2>1
<1>4. ASSUME NEW b
      PROVE  b \in ContextBodies(roster, goals) <=>
               \/ \E t \in Found({SquadGoalRef}, goals) : b = <<SquadBody, goal(t)>>
               \/ \E r \in ToSet(roster.roles) : \E t \in Found(r.goal_ref, goals) :
                    b = <<RoleBody(r.id), goal(t)>>
  <2> DEFINE pairs == UNION {{r.id} \X Found(r.goal_ref, goals) : r \in ToSet(roster.roles)}
  <2>1. ASSUME NEW x
        PROVE  x \in pairs <=> \E r \in ToSet(roster.roles) : \E t \in Found(r.goal_ref, goals) :
                                 x = <<r.id, t>>
    OBVIOUS
  <2>2. (\E x \in pairs : b = <<RoleBody(x[1]), goal(x[2])>>) <=>
          \E r \in ToSet(roster.roles) : \E t \in Found(r.goal_ref, goals) :
            b = <<RoleBody(r.id), goal(t)>>
    <3> HIDE DEF pairs, goal
    <3>1. ASSUME NEW r \in ToSet(roster.roles), NEW t \in Found(r.goal_ref, goals),
                 b = <<RoleBody(r.id), goal(t)>>
          PROVE  \E x \in pairs : b = <<RoleBody(x[1]), goal(x[2])>>
      <4>1. <<r.id, t>> \in pairs
        BY <2>1
      <4>2. <<r.id, t>>[1] = r.id /\ <<r.id, t>>[2] = t
        OBVIOUS
      <4> QED
        BY <3>1, <4>1, <4>2
    <3>2. ASSUME NEW x \in pairs, b = <<RoleBody(x[1]), goal(x[2])>>
          PROVE  \E r \in ToSet(roster.roles) : \E t \in Found(r.goal_ref, goals) :
                   b = <<RoleBody(r.id), goal(t)>>
      <4>1. PICK r \in ToSet(roster.roles) : \E t \in Found(r.goal_ref, goals) : x = <<r.id, t>>
        BY <2>1
      <4>2. PICK t \in Found(r.goal_ref, goals) : x = <<r.id, t>>
        BY <4>1
      <4>3. x[1] = r.id /\ x[2] = t
        BY <4>2
      <4> QED
        BY <3>2, <4>3
    <3> QED
      BY <3>1, <3>2
  <2> HIDE DEF pairs, goal
  <2> QED
    BY <2>2 DEF ContextBodies, pairs, goal
<1>5. ASSUME NEW source, NEW snapshot,
             \/ source = {SquadGoalRef} /\ snapshot = SquadBody
             \/ \E r \in ToSet(roster.roles) : source = r.goal_ref /\ snapshot = RoleBody(r.id)
      PROVE  LET e == Entry(source, goals, snapshot)
             IN  /\ e.status = "included" <=> found(e) # {}
                 /\ \A t \in found(e) : e.status = "included" =>
                      <<e.snapshot, goal(t)>> \in ContextBodies(roster, goals)
  <2> DEFINE e == Entry(source, goals, snapshot)
  <2>1. /\ e.source = source /\ (e.status = "included" <=> Found(source, goals) # {})
        /\ e.status = "included" => e.snapshot = snapshot
    BY <1>1
  <2>2. Found(source, Declared(roster, goals)) = Found(source, goals)
    BY <1>5, DeclaredSays
  <2>3. ASSUME NEW t \in Found(source, goals)
        PROVE  <<snapshot, goal(t)>> \in ContextBodies(roster, goals)
    <3> HIDE DEF goal
    <3> QED
      BY <1>4, <1>5 DEF goal
  <2> HIDE DEF e, goal
  <2> QED
    BY <2>1, <2>2, <2>3 DEF e
<1> HIDE DEF entries, goal
<1>6. ASSUME NEW e \in entries
      PROVE  /\ e.status = "included" <=> found(e) # {}
             /\ \A t \in found(e) : e.status = "included" =>
                  <<e.snapshot, goal(t)>> \in ContextBodies(roster, goals)
  BY <1>3, <1>5
<1>7. ASSUME NEW b \in ContextBodies(roster, goals)
      PROVE  \E e \in entries : e.status = "included" /\ e.snapshot = b[1]
  <2>1. CASE \E t \in Found({SquadGoalRef}, goals) : b = <<SquadBody, goal(t)>>
    <3> DEFINE e == Entry({SquadGoalRef}, goals, SquadBody)
    <3>1. e \in entries /\ e.status = "included" /\ e.snapshot = SquadBody
      BY <1>1, <1>3, <2>1
    <3>2. b[1] = SquadBody
      BY <2>1
    <3> QED
      BY <3>1, <3>2
  <2>2. CASE \E r \in ToSet(roster.roles) : \E t \in Found(r.goal_ref, goals) :
               b = <<RoleBody(r.id), goal(t)>>
    <3>1. PICK r \in ToSet(roster.roles) :
            Found(r.goal_ref, goals) # {} /\ b[1] = RoleBody(r.id)
      BY <2>2
    <3> DEFINE e == Entry(r.goal_ref, goals, RoleBody(r.id))
    <3>2. e \in entries /\ e.status = "included" /\ e.snapshot = RoleBody(r.id)
      BY <1>1, <1>3, <3>1
    <3> QED
      BY <3>1, <3>2
  <2> QED
    BY <1>4, <2>1, <2>2
<1> QED
  BY <1>6, <1>7 DEF entries, index, goal

\* What lies under the context directory of an installed snapshot is its own.
LEMMA UnderContext ==
  ASSUME ExportInv, NEW root \in Roots, NEW q \in Installed(root),
         NEW d \in Drafts, NEW goals \in GoalFiles, InstalledFrom(d, goals, root, q),
         NEW p \in DOMAIN tree[root],
         IsStrictPrefix(Append(Prefix(ManifestDict(d.manifest)), Name("context")), p)
  PROVE  \E x : /\ x = IndexTail \/ \E b \in ContextBodies(Loaded(d.roster), goals) : x = b[1]
                /\ p = Prefix(ManifestDict(d.manifest)) \o x
<1> DEFINE m == ManifestDict(d.manifest)
           f == Prefix(m)
           c == Name("context")
           roster == Loaded(d.roster)
<1>1. /\ m.squad \in Seq(Words) /\ m.squad # <<>> /\ NamedRoles(roster)
      /\ TargetAllowed(m.destination, root) /\ q = ReceiptPath(m)
  BY NamedDraft DEF InstalledFrom
<1>2. f \in Paths /\ c \in PathNames /\ Len(f) \in Nat /\ Len(f) > 0 /\ f[1] = Name(".squad")
  <2>1. f \in Paths /\ f[1] = Name(".squad")
    BY <1>1, PrefixPath
  <2> QED
    BY <2>1, OneName, PathSays DEF Symbols
<1>3. p \in Paths
  <2>1. p \in Installed(root) \/ \E r \in Installed(root) : p \in DOMAIN Owned(root, r)
    BY DEF ExportInv, AccountedInv
  <2> QED
    BY <2>1, InstalledPaths
<1>4. IsStrictPrefix(Append(f, c), p)
  OBVIOUS
<1> HIDE DEF m, roster
<1>5. /\ Len(p) > Len(f) + 1 /\ p[Len(f) + 1] = c
      /\ \A i \in 1..Len(f) : p[i] = f[i]
  <2> HIDE DEF f, c
  <2> QED
    BY <1>2, <1>3, <1>4, Under
<1>6. Len(p) > 2 /\ p[1] = Name(".squad")
  <2> HIDE DEF f, c
  <2>1. 1 \in 1..Len(f) /\ Len(p) \in Nat
    BY <1>2, <1>3, PathSays
  <2>2. p[1] = f[1]
    BY <1>5, <2>1
  <2> QED
    BY <1>2, <1>5, <2>1, <2>2
<1>7. ASSUME NEW d2 \in Drafts, NEW a, Placed(ManifestDict(d2.manifest), a), a[1] = p
      PROVE  FALSE
  <2>1. p = <<Name(".squad"), Name("provider-role-map.json")>>
    BY <1>6, <1>7 DEF Placed
  <2>2. Len(p) = 2
    BY <2>1
  <2> QED
    BY <1>6, <2>2
<1>8. p \notin Installed(root)
  <2> SUFFICES ASSUME p \in Installed(root)
               PROVE  FALSE
    OBVIOUS
  <2>1. PICK d2 \in Drafts, goals2 \in GoalFiles : InstalledFrom(d2, goals2, root, p)
    BY InstalledExport
  <2> DEFINE m2 == ManifestDict(d2.manifest)
             n == Name("export-receipt.json")
  <2>2. /\ m2.squad \in Seq(Words) /\ m2.squad # <<>>
        /\ TargetAllowed(m2.destination, root) /\ p = ReceiptPath(m2)
    BY <2>1, NamedDraft DEF InstalledFrom
  <2> HIDE DEF m2
  <2>3. IF m2.destination = "user" THEN p[2] = Name("receipts") ELSE p = Prefix(m2) \o <<n>>
    BY <2>2, ReceiptPaths
  <2>4. CASE m2.destination = "user"
    <3>1. m.destination = "user"
      BY <1>1, <2>2, <2>4 DEF TargetAllowed
    <3>2. Len(f) = 3 /\ f[2] = Name("squads")
      BY <1>1, <3>1, PrefixPath
    <3>3. p[2] = f[2]
      <4> HIDE DEF f
      <4> QED
        BY <1>5, <3>2
    <3>4. Name("squads") # Name("receipts")
      BY NamesDiffer DEF Symbols
    <3> QED
      BY <2>3, <2>4, <3>2, <3>3, <3>4
  <2>5. CASE m2.destination # "user"
    <3>1. /\ <<n>> \in Paths /\ <<n>>[1] = n /\ "export-receipt.json" \in Documents
          /\ n # Name("context")
      BY OneName, NamesDiffer DEF Symbols, Documents
    <3>2. p = Prefix(m2) \o <<n>>
      BY <2>3, <2>5
    <3>3. IsStrictPrefix(Append(Prefix(m), Name("context")), Prefix(m2) \o <<n>>)
      BY <1>4, <3>2
    <3> DEFINE y == <<n>>
    <3>4. y \in Paths /\ \E t \in Documents : y[1] = Name(t)
      BY <3>1
    <3>5. y[1] # Name("context")
      BY <3>1
    <3>6. IsStrictPrefix(Append(Prefix(m), Name("context")), Prefix(m2) \o y)
      BY <3>3
    <3> HIDE DEF y, n
    <3> QED
      BY <1>1, <2>2, <3>4, <3>5, <3>6, OneSnapshot
  <2> QED
    BY <2>4, <2>5
<1>9. p \in DOMAIN Owned(root, q)
  <2>1. PICK q2 \in Installed(root) : p \in DOMAIN Owned(root, q2)
    BY <1>8 DEF ExportInv, AccountedInv
  <2>2. PICK d2 \in Drafts, goals2 \in GoalFiles : InstalledFrom(d2, goals2, root, q2)
    BY InstalledExport
  <2> DEFINE m2 == ManifestDict(d2.manifest)
             roster2 == Loaded(d2.roster)
  <2>3. /\ m2.squad \in Seq(Words) /\ m2.squad # <<>> /\ NamedRoles(roster2)
        /\ TargetAllowed(m2.destination, root) /\ q2 = ReceiptPath(m2)
    BY <2>2, NamedDraft DEF InstalledFrom
  <2>4. \E x : SnapshotTail(roster2, goals2, x) /\ p = Prefix(m2) \o x
    <3>1. PICK a \in Desired(m2, roster2, goals2) :
            /\ a[1] = p /\ tree[root][p].content = a[2]
            /\ Placed(m2, a) \/ \E x : SnapshotTail(roster2, goals2, x) /\ p = Prefix(m2) \o x
      BY <2>1, <2>2, OwnedPaths
    <3> QED
      BY <1>7, <3>1
  <2> HIDE DEF m2, roster2
  <2>5. PICK x : SnapshotTail(roster2, goals2, x) /\ p = Prefix(m2) \o x
    BY <2>4
  <2>6. x \in Paths /\ (x[1] = Name("context") \/ \E t \in Documents : x[1] = Name(t))
    BY <2>3, <2>5, TailPaths
  <2>7. IsStrictPrefix(Append(Prefix(m), Name("context")), Prefix(m2) \o x)
    BY <1>4, <2>5
  <2>8. q2 = q
    BY <1>1, <2>3, <2>6, <2>7, OneSnapshot
  <2> QED
    BY <2>1, <2>8
<1>10. \E x : SnapshotTail(roster, goals, x) /\ p = f \o x
  <2>1. PICK a \in Desired(m, roster, goals) :
          /\ a[1] = p /\ tree[root][p].content = a[2]
          /\ Placed(m, a) \/ \E x : SnapshotTail(roster, goals, x) /\ p = Prefix(m) \o x
    BY <1>9, OwnedPaths DEF m, roster
  <2> QED
    BY <1>7, <2>1 DEF m
<1>11. PICK x : SnapshotTail(roster, goals, x) /\ p = f \o x
  BY <1>10
<1>12. /\ x \in Paths
       /\ \/ x = IndexTail \/ \E b \in ContextBodies(roster, goals) : x = b[1]
          \/ Len(x) = 1
  BY <1>1, <1>11, TailPaths
<1>13. Len(x) # 1
  <2> HIDE DEF f
  <2>1. Len(p) = Len(f) + Len(x)
    BY <1>2, <1>11, <1>12, JoinedHead
  <2>2. Len(p) > Len(f) + 1 /\ Len(f) \in Nat /\ Len(x) \in Nat /\ Len(p) \in Nat
    BY <1>2, <1>3, <1>5, <1>12, PathSays
  <2>3. ASSUME NEW k \in Nat, NEW n \in Nat, k + n > k + 1
        PROVE  n # 1
    BY <2>3
  <2>4. Len(f) + Len(x) > Len(f) + 1
    BY <2>1, <2>2, Zenon
  <2> QED
    BY <2>2, <2>3, <2>4, Zenon
<1> QED
  BY <1>11, <1>12, <1>13 DEF m, roster

\* What a context directory has, as its index tells it.
ContextSays(root, goals, context, index, prefix) ==
  LET entries == {index.squad} \cup {e[2] : e \in index.roles}
      included == {e \in entries : e.status = "included"}
  IN  /\ \A e \in entries : e \in included <=> Found(e.source, goals) # {}
      /\ \A e \in included : \A t \in Found(e.source, goals) :
           tree[root][prefix \o e.snapshot].content.text = t
      /\ {p \in DOMAIN tree[root] : IsStrictPrefix(context, p)}
           = {prefix \o e.snapshot : e \in included} \cup {Append(context, Name("index.json"))}

\* The index next to an installed snapshot tells the goals of its last export.
LEMMA InstalledContext ==
  ASSUME ExportInv, NEW root \in Roots, NEW q \in Installed(root)
  PROVE  LET id == tree[root][q].content
             context == Append(SnapshotPrefix(id.destination, ProviderNamespace(id.squad)), Name("context"))
         IN  ContextSays(root, truth[<<root, q>>], context,
                         tree[root][Append(context, Name("index.json"))].content, Front(context))
<1>1. PICK d \in Drafts, goals \in GoalFiles : InstalledFrom(d, goals, root, q)
  BY InstalledExport
<1> DEFINE id == tree[root][q].content
           m == ManifestDict(d.manifest)
           roster == Loaded(d.roster)
           f == Prefix(m)
           c == Name("context")
           artifacts == Desired(m, roster, goals)
           kept == Declared(roster, goals)
           index == ContextIndex(roster, goals)
           bodies == ContextBodies(roster, goals)
           entries == {index.squad} \cup {e[2] : e \in index.roles}
           included == {e \in entries : e.status = "included"}
<1>2. /\ m.squad \in Seq(Words) /\ m.squad # <<>> /\ NamedRoles(roster)
      /\ SourcesCanonical(roster) /\ truth[<<root, q>>] = kept
      /\ SnapshotPrefix(id.destination, ProviderNamespace(id.squad)) = f
  BY <1>1, NamedDraft DEF InstalledFrom, Contracts, Prefix
<1>3. ASSUME NEW a \in artifacts
      PROVE  a[1] \in DOMAIN tree[root] /\ tree[root][a[1]].content = a[2]
  <2> DEFINE files == Files(artifacts)
  <2>1. /\ Functional(artifacts)
        /\ \A p \in DOMAIN files :
             /\ p \in DOMAIN tree[root] /\ tree[root][p] = id.files[p]
             /\ id.files[p].content = files[p]
    BY <1>1 DEF InstalledFrom, Renders
  <2> HIDE DEF artifacts
  <2>2. a[1] \in DOMAIN files /\ files[a[1]] = a[2]
    BY <2>1, ArtifactIsFile
  <2> HIDE DEF files
  <2> QED
    BY <2>1, <2>2
<1>4. f \in Paths
  BY <1>2, PrefixPath
<1>5. Front(Append(f, c)) = f /\ Append(Append(f, c), Name("index.json")) = f \o IndexTail
  BY <1>4, ContextParts
<1>6. f \o IndexTail \in DOMAIN tree[root] /\ tree[root][f \o IndexTail].content = index
  <2>1. <<f \o IndexTail, index>> \in artifacts
    BY DEF Desired, EngineArtifacts, IndexTail
  <2> HIDE DEF artifacts, f, index
  <2> QED
    BY <1>3, <2>1
<1>7. ASSUME NEW b \in bodies
      PROVE  f \o b[1] \in DOMAIN tree[root] /\ tree[root][f \o b[1]].content = b[2]
  <2>1. <<f \o b[1], b[2]>> \in artifacts
    BY DEF Desired, EngineArtifacts
  <2> HIDE DEF artifacts, f, bodies
  <2> QED
    BY <1>3, <2>1
<1>8. /\ \A e \in entries :
           /\ e.status = "included" <=> Found(e.source, kept) # {}
           /\ \A t \in Found(e.source, kept) : e.status = "included" =>
                <<e.snapshot, [kind |-> "goal", text |-> t]>> \in bodies
      /\ \A b \in bodies : \E e \in entries : e.status = "included" /\ e.snapshot = b[1]
  BY <1>2, EntriesSay
<1>9. ASSUME NEW p \in DOMAIN tree[root], IsStrictPrefix(Append(f, c), p)
      PROVE  p = f \o IndexTail \/ \E b \in bodies : p = f \o b[1]
  <2>1. \E x : /\ x = IndexTail \/ \E b \in bodies : x = b[1]
               /\ p = f \o x
    BY <1>1, <1>9, UnderContext
  <2> HIDE DEF bodies, f
  <2> QED
    BY <2>1
<1>10. ASSUME NEW y, y = IndexTail \/ \E b \in bodies : y = b[1]
       PROVE  IsStrictPrefix(Append(f, c), f \o y)
  <2>1. SnapshotTail(roster, goals, y)
    BY <1>10 DEF SnapshotTail
  <2> HIDE DEF roster
  <2>2. y \in Paths /\ y[1] = c /\ Len(y) >= 2
    BY <1>2, <1>10, <2>1, TailPaths
  <2> HIDE DEF f, c
  <2>3. c \in PathNames
    BY OneName DEF Symbols, c
  <2> DEFINE z == f \o y
  <2>4. z \in Paths
    BY <1>4, <2>2, Joined
  <2>5. Len(z) = Len(f) + Len(y) /\ z[Len(f) + 1] = y[1] /\ \A i \in 1..Len(f) : z[i] = f[i]
    BY <1>4, <2>2, JoinedHead
  <2>6. Len(f) \in Nat /\ Len(y) \in Nat
    BY <1>4, <2>2, PathSays
  <2> HIDE DEF z
  <2>7. Len(z) > Len(f) + 1
    BY <2>2, <2>5, <2>6
  <2>8. IsStrictPrefix(Append(f, c), z)
    BY <1>4, <2>2, <2>3, <2>4, <2>5, <2>7, Under
  <2> QED
    BY <2>8 DEF z
<1> DEFINE context == Append(f, c)
           under == {p \in DOMAIN tree[root] : IsStrictPrefix(context, p)}
           files == {f \o e.snapshot : e \in included}
<1>11. under = files \cup {f \o IndexTail}
  <2> HIDE DEF index, bodies, f, c, artifacts
  <2>1. ASSUME NEW p \in under
        PROVE  p \in files \cup {f \o IndexTail}
    <3>1. CASE \E b \in bodies : p = f \o b[1]
      <4>1. PICK b \in bodies : p = f \o b[1]
        BY <3>1
      <4>2. PICK e \in entries : e.status = "included" /\ e.snapshot = b[1]
        BY <1>8
      <4>3. e \in included /\ p = f \o e.snapshot
        BY <4>1, <4>2
      <4> QED
        BY <4>3
    <3> QED
      BY <1>9, <3>1
  <2>2. f \o IndexTail \in under
    BY <1>6, <1>10
  <2>3. ASSUME NEW e \in included
        PROVE  f \o e.snapshot \in under
    <3>1. PICK t \in Found(e.source, kept) : <<e.snapshot, [kind |-> "goal", text |-> t]>> \in bodies
      BY <1>8
    <3> DEFINE b == <<e.snapshot, [kind |-> "goal", text |-> t]>>
    <3>2. b \in bodies /\ b[1] = e.snapshot
      BY <3>1
    <3> HIDE DEF b
    <3> QED
      BY <1>7, <1>10, <3>2
  <2> QED
    BY <2>1, <2>2, <2>3
<1>12. ASSUME NEW e \in included, NEW t \in Found(e.source, kept)
       PROVE  tree[root][f \o e.snapshot].content.text = t
  <2> DEFINE b == <<e.snapshot, [kind |-> "goal", text |-> t]>>
  <2>1. b \in bodies
    BY <1>8
  <2>2. b[1] = e.snapshot /\ b[2].text = t
    OBVIOUS
  <2> HIDE DEF b, bodies, f
  <2> QED
    BY <1>7, <2>1, <2>2
<1>13. \A e \in entries : e \in included <=> Found(e.source, kept) # {}
  BY <1>8
<1>14. ContextSays(root, kept, context, index, f)
  <2>1. Append(context, Name("index.json")) = f \o IndexTail
    BY <1>5
  <2> HIDE DEF f, index, kept, context
  <2> QED
    BY <1>11, <1>12, <1>13, <2>1 DEF ContextSays
<1> HIDE DEF f, index, kept
<1> QED
  BY <1>2, <1>5, <1>6, <1>14

\* Whatever was exported before, the context index of an installed snapshot
\* says what its context directory has.
THEOREM ContextIsTruthful == Spec => []ContextTruthful
<1>1. ExportInv => ContextTruthful
  <2> SUFFICES ASSUME ExportInv
               PROVE  ContextTruthful
    OBVIOUS
  <2>1. ASSUME NEW x \in Receipts
        PROVE  LET id == tree[x[1]][x[2]].content
                   context == Append(SnapshotPrefix(id.destination, ProviderNamespace(id.squad)),
                                     Name("context"))
               IN  ContextSays(x[1], truth[x], context,
                               tree[x[1]][Append(context, Name("index.json"))].content,
                               Front(context))
    <3>1. PICK root \in Roots : \E q \in Installed(root) : x = <<root, q>>
      BY DEF Receipts
    <3>2. PICK q \in Installed(root) : x = <<root, q>>
      BY <3>1
    <3>3. x[1] = root /\ x[2] = q
      BY <3>2
    <3> QED
      BY <3>2, <3>3, InstalledContext
  <2> QED
    BY <2>1 DEF ContextTruthful, ContextSays
<1> QED
  BY <1>1, ExportInvariance, PTL

-----------------------------------------------------------------------------
(* What tells the paths of squads and destinations apart. *)

AllIds == UNION {Ids(d) : d \in Drafts}

\* The identifiers of different squads differ.
LEMMA IdentifiersOfSquads ==
  ASSUME NEW squad \in AllIds, NEW role \in AllIds, NEW other \in AllIds, NEW part \in AllIds
  PROVE  /\ squad \in Seq(Words) /\ role \in Seq(Words)
         /\ ProviderNamespace(squad) = ProviderNamespace(other) => squad = other
         /\ ProviderRoleId(squad, role) = ProviderRoleId(other, part)
              => squad = other /\ role = part
         /\ ProviderRoleSkillId(squad, role) = ProviderRoleSkillId(other, part)
              => squad = other /\ role = part
<1>1. AllIds \in SUBSET Seq(Words)
  BY IdsAreWords DEF AllIds
<1>2. Separate(AllIds \cup {Escaped(id) : id \in AllIds})
  BY DigestsAssumption DEF AllIds
<1> QED
  BY <1>1, <1>2, IdentifiersDiffer

\* What an export with destination project or user owns of the providers' directories,
\* and where its snapshot and its receipt lie.
SquadPath(squad, p) ==
  \/ p[1] = Name(".claude") /\ \E id \in AllIds : p[3] = Append(ProviderRoleId(squad, id), ".md")
  \/ p[1] = Name(".codex") /\ \E id \in AllIds : p[3] = Append(ProviderRoleId(squad, id), ".toml")
  \/ /\ p[1] = Name(".agents") /\ p[2] = Name("skills")
     /\ \E id \in AllIds : p[3] = ProviderRoleSkillId(squad, id)

SnapshotPath(m, p) ==
  /\ p[1] = Name(".squad")
  /\ \/ /\ m.destination = "project" /\ p[2] = Name("exports")
        /\ p[3] = ProviderNamespace(m.squad)
     \/ /\ m.destination = "user" /\ p[2] = Name("squads")
        /\ p[3] = ProviderNamespace(m.squad)
     \/ /\ m.destination = "user" /\ p[2] = Name("receipts")
        /\ p[3] = Append(ProviderNamespace(m.squad), ".json")

\* A plugin keeps out of all of these.
PluginPath(p) ==
  /\ p[1] \notin {Name(".claude"), Name(".codex")}
  /\ p[1] = Name(".agents") => p[2] = Name("plugins")
  /\ p[1] = Name(".squad") => p[2] # Name("exports")

Claimed(m, p) ==
  IF m.destination = "plugin" THEN PluginPath(p)
                              ELSE SquadPath(m.squad, p) \/ SnapshotPath(m, p)

\* No path of an export in a project or for a user is one of another squad's export,
\* or of a plugin.
LEMMA ClaimsDiffer ==
  ASSUME NEW m, NEW m2, m.squad \in AllIds, m2.squad \in AllIds,
         m.destination \in {"project", "user"},
         \/ m2.destination = m.destination
         \/ m.destination = "project" /\ m2.destination = "plugin",
         NEW p, Claimed(m, p), Claimed(m2, p)
  PROVE  m2.squad = m.squad /\ m2.destination = m.destination
<1>1. /\ \A s, t \in {".claude", ".codex", ".agents", ".squad", "skills", "plugins", "exports",
                      "squads", "receipts"} : s # t => Name(s) # Name(t)
      /\ ".md" \in Symbols /\ ".toml" \in Symbols /\ ".json" \in Symbols
  BY NamesDiffer DEF Symbols
<1>2. CASE m.destination = "project" /\ m2.destination = "plugin"
  <2>1. PluginPath(p) /\ (SquadPath(m.squad, p) \/ SnapshotPath(m, p))
    BY <1>2 DEF Claimed
  <2>2. ~SquadPath(m.squad, p)
    BY <1>1, <2>1 DEF SquadPath, PluginPath
  <2>3. ~SnapshotPath(m, p)
    BY <1>1, <1>2, <2>1 DEF SnapshotPath, PluginPath
  <2> QED
    BY <2>1, <2>2, <2>3
<1>3. CASE m2.destination = m.destination
  <2>1. /\ SquadPath(m.squad, p) \/ SnapshotPath(m, p)
        /\ SquadPath(m2.squad, p) \/ SnapshotPath(m2, p)
    BY <1>3 DEF Claimed
  <2>2. /\ SquadPath(m.squad, p) => p[1] # Name(".squad")
        /\ SquadPath(m2.squad, p) => p[1] # Name(".squad")
    BY <1>1 DEF SquadPath
  <2>3. CASE SnapshotPath(m, p) /\ SnapshotPath(m2, p)
    <3>1. ProviderNamespace(m.squad) = ProviderNamespace(m2.squad)
      <4>1. /\ ProviderNamespace(m.squad) \in Seq(Symbols)
            /\ ProviderNamespace(m2.squad) \in Seq(Symbols)
        BY IdentifiersOfSquads, IdentifierSymbols
      <4>2. CASE /\ p[3] = Append(ProviderNamespace(m.squad), ".json")
                 /\ p[3] = Append(ProviderNamespace(m2.squad), ".json")
        BY <1>1, <4>1, <4>2, AppendInjective
      <4> QED
        BY <1>1, <1>3, <2>3, <4>2 DEF SnapshotPath
    <3> QED
      BY <1>3, <3>1, IdentifiersOfSquads
  <2>4. CASE SquadPath(m.squad, p) /\ SquadPath(m2.squad, p)
    <3>1. ASSUME NEW id \in AllIds, NEW id2 \in AllIds, NEW s \in {".md", ".toml"},
                 p[3] = Append(ProviderRoleId(m.squad, id), s),
                 p[3] = Append(ProviderRoleId(m2.squad, id2), s)
          PROVE  m2.squad = m.squad
      <4>1. /\ ProviderRoleId(m.squad, id) \in Seq(Symbols)
            /\ ProviderRoleId(m2.squad, id2) \in Seq(Symbols)
        BY IdentifiersOfSquads, IdentifierSymbols DEF PathNames
      <4>2. ProviderRoleId(m.squad, id) = ProviderRoleId(m2.squad, id2)
        <5>1. s \in Symbols
          BY <1>1
        <5>2. Append(ProviderRoleId(m.squad, id), s) = Append(ProviderRoleId(m2.squad, id2), s)
          BY <3>1
        <5> QED
          BY ONLY <4>1, <5>1, <5>2, AppendInjective
      <4> QED
        BY <4>2, IdentifiersOfSquads
    <3>2. CASE p[1] = Name(".claude")
      <4>1. /\ \E id \in AllIds : p[3] = Append(ProviderRoleId(m.squad, id), ".md")
            /\ \E id \in AllIds : p[3] = Append(ProviderRoleId(m2.squad, id), ".md")
        BY <1>1, <2>4, <3>2 DEF SquadPath
      <4> QED
        BY <1>3, <3>1, <4>1
    <3>3. CASE p[1] = Name(".codex")
      <4>1. /\ \E id \in AllIds : p[3] = Append(ProviderRoleId(m.squad, id), ".toml")
            /\ \E id \in AllIds : p[3] = Append(ProviderRoleId(m2.squad, id), ".toml")
        BY <1>1, <2>4, <3>3 DEF SquadPath
      <4> QED
        BY <1>3, <3>1, <4>1
    <3>4. CASE p[1] = Name(".agents")
      <4>1. /\ \E id \in AllIds : p[3] = ProviderRoleSkillId(m.squad, id)
            /\ \E id \in AllIds : p[3] = ProviderRoleSkillId(m2.squad, id)
        BY <1>1, <2>4, <3>4 DEF SquadPath
      <4> QED
        BY <1>3, <4>1, IdentifiersOfSquads
    <3> QED
      BY <2>4, <3>2, <3>3, <3>4 DEF SquadPath
  <2> QED
    BY <2>1, <2>2, <2>3, <2>4 DEF SnapshotPath
<1> QED
  BY <1>2, <1>3

\* The names of a path that is put under a directory.
LEMMA InNames ==
  ASSUME NEW d \in Symbols, NEW y \in Paths, NEW i \in 1..Len(y)
  PROVE  In(d, y)[i + 1] = y[i]
<1> DEFINE x == <<Name(d)>>
<1>1. x \in Paths /\ Len(x) = 1 /\ In(d, y) = x \o y
  BY OneName DEF In
<1> HIDE DEF x
<1>2. (x \o y)[Len(x) + i] = y[i]
  BY <1>1, Joined
<1>3. Len(x) + i = i + 1
  BY <1>1
<1> QED
  BY <1>1, <1>2, <1>3

NamedBy(ids, roster) == \A r \in ToSet(roster.roles) : r.id \in ids

LEMMA NamedByAllIds ==
  ASSUME NEW roster, NamedBy(AllIds, roster)
  PROVE  NamedRoles(roster)
BY IdsAreWords DEF NamedBy, NamedRoles, AllIds

\* The file of an agent, in the directory of its provider.
LEMMA AgentFile ==
  ASSUME NEW squad \in Seq(Words), NEW role \in Seq(Words),
         NEW d \in Symbols, NEW s \in {".md", ".toml"}
  PROVE  LET n == Append(ProviderRoleId(squad, role), s)
             p == In(d, In("agents", File(ProviderRoleId(squad, role), s)))
         IN  /\ p \in Paths /\ Len(p) = 3
             /\ p[1] = Name(d) /\ p[2] = Name("agents") /\ p[3] = n /\ Last(p) = n /\ Last(n) = s
<1> DEFINE id == ProviderRoleId(squad, role)
           f == File(id, s)
           y == In("agents", f)
           p == In(d, y)
<1>1. id \in Seq(Symbols) /\ s \in Symbols /\ "agents" \in Symbols
  BY IdentifierSymbols DEF PathNames, Symbols
<1>2. /\ f \in Paths /\ f[1] = Append(id, s) /\ Last(f) = Append(id, s) /\ Len(f) = 1
      /\ Last(Append(id, s)) = s
  BY <1>1, FilePath
<1> HIDE DEF f, id
<1>3. y \in Paths /\ y[1] = Name("agents") /\ Last(y) = Last(f) /\ Len(y) = 2 /\ y[2] = f[1]
  <2>1. /\ y \in Paths /\ y[1] = Name("agents") /\ Last(y) = Last(f)
        /\ Len(y) = Len(f) + 1 /\ y[2] = f[1]
    BY <1>1, <1>2, InPath, Zenon
  <2> QED
    BY <1>2, <2>1
<1> HIDE DEF y
<1>4. p \in Paths /\ p[1] = Name(d) /\ Last(p) = Last(y) /\ Len(p) = 3 /\ p[2] = y[1]
  <2>1. /\ p \in Paths /\ p[1] = Name(d) /\ Last(p) = Last(y)
        /\ Len(p) = Len(y) + 1 /\ p[2] = y[1]
    BY ONLY d \in Symbols, <1>3, InPath
  <2> QED
    BY <1>3, <2>1
<1>5. p[2 + 1] = y[2]
  <2>1. 2 \in 1..Len(y)
    BY <1>3
  <2> QED
    BY <1>3, <2>1, InNames
<1>6. p[3] = y[2]
  BY <1>5
<1> QED
  BY <1>2, <1>3, <1>4, <1>6 DEF id, f, y

LEMMA SkillName ==
  ASSUME NEW squad \in Seq(Words), NEW role \in Seq(Words)
  PROVE  LET p == In(".agents", SkillFile(ProviderRoleSkillId(squad, role)))
         IN  p[1] = Name(".agents") /\ p[2] = Name("skills")
             /\ p[3] = ProviderRoleSkillId(squad, role)
<1> DEFINE id == ProviderRoleSkillId(squad, role)
           y == SkillFile(id)
           p == In(".agents", y)
<1>1. id \in PathNames /\ ".agents" \in Symbols
  BY IdentifierSymbols DEF Symbols
<1>2. y \in Paths /\ y[1] = Name("skills") /\ y[2] = id /\ 2 \in 1..Len(y)
  BY <1>1, SkillPaths DEF SkillFile
<1> HIDE DEF y, id
<1>3. p[1] = Name(".agents") /\ p[2] = y[1]
  BY <1>1, <1>2, InPath
<1>4. p[2 + 1] = y[2]
  BY <1>1, <1>2, InNames
<1> QED
  BY <1>2, <1>3, <1>4 DEF id, y

\* Agents and skills in a project or for a user.
LEMMA MountedClaims ==
  ASSUME NEW m, m.squad \in AllIds, NEW roster, NamedBy(AllIds, roster),
         NEW a, \/ a \in Mounted("claude", ClaudeAgents(m, roster))
                \/ a \in Mounted("codex", CodexAgents(m, roster) \cup CodexSkills(m, roster))
  PROVE  /\ SquadPath(m.squad, a[1])
         /\ a \in Mounted("claude", ClaudeAgents(m, roster)) =>
              \E r \in ActiveRoles(roster) : a[2] = RenderAgent(m, r)
         /\ a[1][1] = Name(".claude") <=> a \in Mounted("claude", ClaudeAgents(m, roster))
         /\ a \in Mounted("codex", CodexAgents(m, roster) \cup CodexSkills(m, roster)) =>
              a[1][1] # Name(".claude")
<1>1. /\ \A r \in ActiveRoles(roster) : r.id \in AllIds /\ r.id \in Seq(Words)
      /\ m.squad \in Seq(Words)
  BY IdsAreWords DEF ActiveRoles, NamedBy, AllIds
<1>2. /\ {".claude", ".codex", ".agents", "agents"} \subseteq Symbols
      /\ Name(".codex") # Name(".claude") /\ Name(".agents") # Name(".claude")
      /\ Name("skills") # Name("agents")
  BY NamesDiffer DEF Symbols
<1>3. ASSUME a \in Mounted("claude", ClaudeAgents(m, roster))
      PROVE  /\ SquadPath(m.squad, a[1]) /\ a[1][1] = Name(".claude")
             /\ \E r \in ActiveRoles(roster) : a[2] = RenderAgent(m, r)
  <2>1. PICK r \in ActiveRoles(roster) :
          a[1] = In(".claude", In("agents", File(RoleId(m, r), ".md"))) /\ a[2] = RenderAgent(m, r)
    BY <1>3 DEF Mounted, ClaudeAgents
  <2>2. a[1][1] = Name(".claude") /\ a[1][3] = Append(RoleId(m, r), ".md")
    BY <1>1, <1>2, <2>1, AgentFile DEF RoleId
  <2> QED
    BY <1>1, <1>3, <2>1, <2>2 DEF SquadPath, RoleId
<1>4. ASSUME \E b \in CodexAgents(m, roster) : a = <<In(".codex", b[1]), b[2]>>
      PROVE  SquadPath(m.squad, a[1]) /\ a[1][1] # Name(".claude")
  <2>1. PICK r \in ActiveRoles(roster) : a[1] = In(".codex", In("agents", File(RoleId(m, r), ".toml")))
    BY <1>4 DEF CodexAgents
  <2>2. a[1][1] = Name(".codex") /\ a[1][3] = Append(RoleId(m, r), ".toml")
    BY <1>1, <1>2, <2>1, AgentFile DEF RoleId
  <2> QED
    BY <1>1, <1>2, <2>1, <2>2 DEF SquadPath, RoleId
<1>5. ASSUME \E b \in CodexSkills(m, roster) : a = <<In(".agents", b[1]), b[2]>>
      PROVE  SquadPath(m.squad, a[1]) /\ a[1][1] # Name(".claude")
  <2>1. PICK r \in ActiveRoles(roster) : a[1] = In(".agents", SkillFile(ProviderRoleSkillId(m.squad, r.id)))
    BY <1>5 DEF CodexSkills
  <2>2. /\ a[1][1] = Name(".agents") /\ a[1][2] = Name("skills")
        /\ a[1][3] = ProviderRoleSkillId(m.squad, r.id)
    BY <1>1, <2>1, SkillName
  <2> QED
    BY <1>1, <1>2, <2>1, <2>2 DEF SquadPath
<1>6. ASSUME a \in Mounted("codex", CodexAgents(m, roster) \cup CodexSkills(m, roster))
      PROVE  \/ \E b \in CodexAgents(m, roster) : a = <<In(".codex", b[1]), b[2]>>
             \/ \E b \in CodexSkills(m, roster) : a = <<In(".agents", b[1]), b[2]>>
  <2>1. PICK b \in CodexAgents(m, roster) \cup CodexSkills(m, roster) :
          a = <<IF b[1][1] = Name("agents") THEN In(".codex", b[1]) ELSE In(".agents", b[1]), b[2]>>
    BY <1>6 DEF Mounted
  <2>2. CASE b \in CodexAgents(m, roster)
    <3>1. PICK r \in ActiveRoles(roster) : b[1] = In("agents", File(RoleId(m, r), ".toml"))
      BY <2>2 DEF CodexAgents
    <3>2. b[1][1] = Name("agents")
      BY <1>1, <3>1, RolePaths
    <3> QED
      BY <2>1, <2>2, <3>2
  <2>3. CASE b \in CodexSkills(m, roster)
    <3>1. PICK r \in ActiveRoles(roster) : b[1] = SkillFile(ProviderRoleSkillId(m.squad, r.id))
      BY <2>3 DEF CodexSkills
    <3>2. b[1][1] = Name("skills")
      BY <1>1, <3>1, IdentifierSymbols, SkillPaths
    <3> QED
      BY <1>2, <2>1, <2>3, <3>2
  <2> QED
    BY <2>1, <2>2, <2>3
<1> QED
  BY <1>3, <1>4, <1>5, <1>6

LEMMA PluginNames ==
  /\ \A s, t \in {".claude", ".codex", ".agents", ".squad", "exports", "plugins", "agents", "README.md",
                  ".claude-plugin", "provider-role-map.json", "ACTIVATION.md", "shared",
                  "LICENSE", "skills", "roles", "runtime", ".codex-plugin",
                  "commands", "hooks", "templates", "context", "manifest.json", "roster.json",
                  "export-receipt.json"} :
       s # t => Name(s) # Name(t)
  /\ \A s \in {".claude", ".codex", ".agents", ".squad", "exports", "plugins", "agents"} : Name(s)[1] = s
BY DEF Name

\* The heads of a plugin's paths: none is a provider's directory.
OtherHeads ==
  {"README.md", ".claude-plugin", "ACTIVATION.md", "shared", "LICENSE", "skills", "roles",
   "runtime", ".codex-plugin", "plugins"}
PluginHeads == OtherHeads \cup {"agents"}

LEMMA HeadOfPlugin ==
  ASSUME NEW p, \/ \E d \in PluginHeads : p[1] = Name(d)
                \/ p[1][1] \in RuntimeDirectories
                \/ p[1] = Name(".squad") /\ p[2] # Name("exports")
                \/ p[1] = Name(".agents") /\ p[2] = Name("plugins")
  PROVE  PluginPath(p)
<1>1. CASE \E d \in PluginHeads : p[1] = Name(d)
  <2>1. p[1] \notin {Name(".claude"), Name(".codex"), Name(".agents"), Name(".squad")}
    BY <1>1, PluginNames DEF PluginHeads, OtherHeads
  <2> QED
    BY <2>1 DEF PluginPath
<1>2. CASE p[1][1] \in RuntimeDirectories
  <2>1. p[1] \notin {Name(".claude"), Name(".codex"), Name(".agents"), Name(".squad")}
    BY <1>2, PluginNames DEF RuntimeDirectories
  <2> QED
    BY <2>1 DEF PluginPath
<1>3. CASE p[1] = Name(".squad") /\ p[2] # Name("exports")
  BY <1>3, PluginNames DEF PluginPath
<1>4. CASE p[1] = Name(".agents") /\ p[2] = Name("plugins")
  BY <1>4, PluginNames DEF PluginPath
<1> QED
  BY <1>1, <1>2, <1>3, <1>4

OtherHead(p) ==
  \/ \E d \in OtherHeads : p[1] = Name(d)
  \/ p[1][1] \in RuntimeDirectories
  \/ p[1] = Name(".agents") /\ p[2] = Name("plugins")

\* The adapters' part of a plugin: the agents and the role map lie where nothing
\* else does.
LEMMA PluginArtifacts ==
  ASSUME NEW m, m.squad \in Seq(Words), m.squad # <<>>, NEW roster, NamedRoles(roster),
         m.destination = "plugin", NEW a \in ProviderArtifacts(m, roster)
  PROVE  \/ OtherHead(a[1])
         \/ a \in ClaudeAgents(m, roster) /\ "claude" \in ToSet(m.providers)
         \/ /\ a[1] = <<Name(".squad"), Name("provider-role-map.json")>>
            /\ a[2] = ProviderRoleMap(m, roster)
<1>1. CASE a \in ClaudePlugin(m, roster, CollectRuntime(SourceTree)) /\ "claude" \in ToSet(m.providers)
  <2>1. CASE a \in ClaudeAgents(m, roster)
    BY <1>1, <2>1
  <2>2. CASE a[1] = In(".claude-plugin", <<Name("plugin.json")>>)
    <3>1. a[1][1] = Name(".claude-plugin")
      BY <2>2, OneName, InPath DEF Symbols
    <3> QED
      BY <3>1 DEF OtherHead, OtherHeads
  <2>3. CASE a = <<In(".squad", <<Name("provider-role-map.json")>>), ProviderRoleMap(m, roster)>>
    <3>1. {".squad", "provider-role-map.json"} \subseteq Symbols
      BY DEF Symbols
    <3>2. a[1] = <<Name(".squad"), Name("provider-role-map.json")>> /\ a[2] = ProviderRoleMap(m, roster)
      BY <2>3, <3>1, OneName, InTwo
    <3> QED
      BY <3>2
  <2>4. CASE a[1] = <<Name("README.md")>>
    BY <2>4 DEF OtherHead, OtherHeads
  <2>5. CASE a \in VendoredRuntime(m, CollectRuntime(SourceTree))
    <3>1. PICK p \in DOMAIN CollectRuntime(SourceTree) : a[1] = p
      BY <2>5 DEF VendoredRuntime, VendoredPaths
    <3>2. p[1] = Name("LICENSE") \/ p[1][1] \in RuntimeDirectories
      BY RuntimePaths, LicensePath
    <3> QED
      BY <3>1, <3>2 DEF OtherHead, OtherHeads
  <2> QED
    BY <1>1, <2>1, <2>2, <2>3, <2>4, <2>5 DEF ClaudePlugin, ClaudeGenerated
<1>2. CASE a \in CodexPlugin(m, roster, CollectRuntime(SourceTree))
  <2> DEFINE package == CodexPackage(m, roster, CollectRuntime(SourceTree))
             nested == <<Name("plugins"), ProviderNamespace(m.squad)>>
  <2>1. ASSUME NEW b \in package
        PROVE  b[1] \in Paths /\ \E d \in CodexHeads : b[1][1] = Name(d)
    BY CodexPackagePaths
  <2>2. CASE a \in package
    BY <2>1, <2>2 DEF CodexHeads, OtherHead, OtherHeads
  <2>3. CASE \E b \in package : a = <<nested \o b[1], b[2]>>
    <3>1. PICK b \in package : a = <<nested \o b[1], b[2]>>
      BY <2>3
    <3>2. Name("plugins") \in PathNames /\ ProviderNamespace(m.squad) \in PathNames
      BY OneName, IdentifierSymbols DEF Symbols
    <3>3. nested \in Paths /\ nested[1] = Name("plugins")
      <4> DEFINE n == Name("plugins")
                 s == ProviderNamespace(m.squad)
      <4>1. n \in PathNames /\ s \in PathNames
        BY <3>2
      <4> HIDE DEF n, s
      <4>2. <<n, s>> \in Paths /\ <<n, s>>[1] = n
        BY <4>1 DEF Paths
      <4> QED
        BY <4>2 DEF n, s
    <3> DEFINE y == b[1]
    <3>4. y \in Paths /\ a[1] = nested \o y
      BY <2>1, <3>1
    <3> HIDE DEF y, nested
    <3>5. a[1][1] = Name("plugins")
      <4>1. (nested \o y)[1] = nested[1]
        BY <3>3, <3>4, Joined, Zenon
      <4> QED
        BY <3>3, <3>4, <4>1
    <3> QED
      BY <3>5 DEF OtherHead, OtherHeads
  <2>4. CASE a[1] = <<Name(".agents"), Name("plugins"), Name("marketplace.json")>>
    BY <2>4 DEF OtherHead
  <2>5. \/ a \in package \/ \E b \in package : a = <<nested \o b[1], b[2]>>
        \/ a[1] = <<Name(".agents"), Name("plugins"), Name("marketplace.json")>>
    BY <1>2 DEF CodexPlugin
  <2> HIDE DEF package, nested
  <2> QED
    BY <2>2, <2>3, <2>4, <2>5
<1> QED
  BY <1>1, <1>2 DEF ProviderArtifacts

LEMMA PluginClaims ==
  ASSUME NEW m, m.squad \in Seq(Words), m.squad # <<>>, NEW roster, NamedRoles(roster),
         m.destination = "plugin", NEW a \in ProviderArtifacts(m, roster)
  PROVE  /\ PluginPath(a[1])
         /\ a[1][1] = Name("agents") =>
              /\ "claude" \in ToSet(m.providers)
              /\ \E r \in ActiveRoles(roster) : a[2] = RenderAgent(m, r)
         /\ a[1][1] = Name(".squad") => a[2] = ProviderRoleMap(m, roster)
<1>1. \/ OtherHead(a[1])
      \/ a \in ClaudeAgents(m, roster) /\ "claude" \in ToSet(m.providers)
      \/ /\ a[1] = <<Name(".squad"), Name("provider-role-map.json")>>
         /\ a[2] = ProviderRoleMap(m, roster)
  BY PluginArtifacts
<1>2. CASE OtherHead(a[1])
  <2>1. a[1][1] \notin {Name("agents"), Name(".squad")}
    BY <1>2, PluginNames DEF OtherHead, OtherHeads, RuntimeDirectories
  <2>2. PluginPath(a[1])
    BY <1>2, HeadOfPlugin DEF OtherHead, PluginHeads
  <2> QED
    BY <2>1, <2>2
<1>3. CASE a \in ClaudeAgents(m, roster) /\ "claude" \in ToSet(m.providers)
  <2>1. PICK r \in ActiveRoles(roster) :
          a[1] = In("agents", File(RoleId(m, r), ".md")) /\ a[2] = RenderAgent(m, r)
    BY <1>3 DEF ClaudeAgents
  <2>2. r.id \in Seq(Words)
    BY DEF ActiveRoles, NamedRoles
  <2>3. a[1][1] = Name("agents")
    BY <2>1, <2>2, RolePaths
  <2>4. PluginPath(a[1])
    BY <2>3, HeadOfPlugin DEF PluginHeads, OtherHeads
  <2> QED
    BY <1>3, <2>1, <2>3, <2>4, PluginNames
<1>4. CASE /\ a[1] = <<Name(".squad"), Name("provider-role-map.json")>>
           /\ a[2] = ProviderRoleMap(m, roster)
  <2>1. a[1][1] = Name(".squad") /\ a[1][2] = Name("provider-role-map.json")
    BY <1>4
  <2>2. a[1][1] # Name("agents") /\ a[1][2] # Name("exports")
    BY <2>1, PluginNames
  <2> QED
    BY <1>4, <2>1, <2>2, HeadOfPlugin
<1> QED
  BY <1>1, <1>2, <1>3, <1>4

\* The heads of what lies below the prefix of a snapshot.
LEMMA TailHeads ==
  ASSUME NEW roster, NamedRoles(roster), NEW goals, NEW x, SnapshotTail(roster, goals, x)
  PROVE  x \in Paths /\ x[1] # Name("exports")
<1>1. x \in Paths /\ (x[1] = Name("context") \/ \E t \in Documents : x[1] = Name(t))
  BY TailPaths
<1> QED
  BY <1>1, PluginNames DEF Documents

\* What lies below the prefix of a snapshot is the squad's.
LEMMA PrefixClaims ==
  ASSUME NEW m, m.squad \in Seq(Words), m.squad # <<>>,
         m.destination \in {"project", "user", "plugin"},
         NEW x \in Paths, x[1] # Name("exports")
  PROVE  Claimed(m, Prefix(m) \o x)
<1> DEFINE f == Prefix(m)
           p == f \o x
           ns == ProviderNamespace(m.squad)
<1>1. /\ f \in Paths /\ f[1] = Name(".squad")
      /\ IF m.destination = "project" THEN Len(f) = 3 /\ f[2] = Name("exports") /\ f[3] = ns
         ELSE IF m.destination = "user" THEN Len(f) = 3 /\ f[2] = Name("squads") /\ f[3] = ns
         ELSE Len(f) = 1
  BY PrefixPath
<1> HIDE DEF f, ns
<1>2. p[Len(f) + 1] = x[1] /\ \A i \in 1..Len(f) : p[i] = f[i]
  BY <1>1, JoinedHead
<1> HIDE DEF p
<1>3. p[1] = Name(".squad")
  <2>1. 1 \in 1..Len(f)
    BY <1>1
  <2> QED
    BY <1>1, <1>2, <2>1
<1>4. CASE m.destination = "plugin"
  <2>1. p[2] # Name("exports")
    <3>1. p[1 + 1] = x[1]
      BY <1>1, <1>2, <1>4
    <3> QED
      BY <3>1
  <2> QED
    BY <1>3, <1>4, <2>1, HeadOfPlugin DEF Claimed, p, f
<1>5. CASE m.destination \in {"project", "user"}
  <2>1. p[2] = f[2] /\ p[3] = f[3]
    <3>1. 2 \in 1..Len(f) /\ 3 \in 1..Len(f)
      BY <1>1, <1>5
    <3> QED
      BY <1>2, <3>1
  <2>2. SnapshotPath(m, p)
    BY <1>1, <1>3, <1>5, <2>1 DEF SnapshotPath, ns
  <2> QED
    BY <1>5, <2>2 DEF Claimed, p, f
<1> QED
  BY <1>4, <1>5

\* So is the receipt, and all that the export renders.
LEMMA ReceiptClaims ==
  ASSUME NEW m, m.squad \in Seq(Words), m.squad # <<>>,
         m.destination \in {"project", "user", "plugin"}
  PROVE  Claimed(m, ReceiptPath(m))
<1>1. CASE m.destination = "user"
  <2>1. ReceiptPath(m) = <<Name(".squad"), Name("receipts"), Append(ProviderNamespace(m.squad), ".json")>>
    BY <1>1 DEF ReceiptPath
  <2>2. SnapshotPath(m, ReceiptPath(m))
    BY <1>1, <2>1 DEF SnapshotPath
  <2> QED
    BY <1>1, <2>2 DEF Claimed
<1>2. CASE m.destination # "user"
  <2>1. ReceiptPath(m) = Prefix(m) \o <<Name("export-receipt.json")>>
    BY <1>2, ReceiptPaths
  <2>2. <<Name("export-receipt.json")>> \in Paths
    BY OneName DEF Symbols
  <2>3. <<Name("export-receipt.json")>>[1] # Name("exports")
    BY PluginNames
  <2> DEFINE x == <<Name("export-receipt.json")>>
  <2> HIDE DEF x
  <2>4. Claimed(m, Prefix(m) \o x)
    BY <2>2, <2>3, PrefixClaims DEF x
  <2> QED
    BY <2>1, <2>4 DEF x
<1> QED
  BY <1>1, <1>2

LEMMA DesiredClaims ==
  ASSUME NEW d \in Drafts, Contracts(d), NEW goals,
         ManifestDict(d.manifest).destination \in {"project", "user", "plugin"},
         NEW a \in Desired(ManifestDict(d.manifest), Loaded(d.roster), goals)
  PROVE  Claimed(ManifestDict(d.manifest), a[1])
<1> DEFINE m == ManifestDict(d.manifest)
           roster == Loaded(d.roster)
           p == RosterLoaded(PortableRoster(roster))
<1>1. m.squad \in Seq(Words) /\ m.squad # <<>> /\ NamedRoles(roster) /\ NamedRoles(p)
  BY NamedDraft
<1>2. m.squad \in AllIds /\ NamedBy(AllIds, p)
  BY IdsOfDraft DEF NamedBy, AllIds
<1>3. a \in ProviderArtifacts(m, p) \/ a \in EngineArtifacts(m, roster, goals)
  BY DEF Desired
<1>4. m.destination \in {"project", "user", "plugin"}
  OBVIOUS
<1> HIDE DEF m, roster, p
<1>5. ASSUME a \in ProviderArtifacts(m, p), m.destination = "plugin"
      PROVE  Claimed(m, a[1])
  BY <1>1, <1>5, PluginClaims DEF Claimed
<1>6. ASSUME a \in ProviderArtifacts(m, p), m.destination # "plugin"
      PROVE  Claimed(m, a[1])
  <2>1. \/ a \in Mounted("claude", ClaudeAgents(m, p))
        \/ a \in Mounted("codex", CodexAgents(m, p) \cup CodexSkills(m, p))
    BY <1>6 DEF ProviderArtifacts
  <2> QED
    BY <1>2, <1>6, <2>1, MountedClaims DEF Claimed
<1>7. ASSUME a \in EngineArtifacts(m, roster, goals)
      PROVE  Claimed(m, a[1])
  <2>1. \/ \E x : SnapshotTail(roster, goals, x) /\ a[1] = Prefix(m) \o x
        \/ /\ m.destination = "plugin"
           /\ \E s \in {"ACTIVATION.md", "LICENSE", "shared"} : a[1][1] = Name(s)
    BY <1>1, <1>7, EnginePaths
  <2>2. CASE \E x : SnapshotTail(roster, goals, x) /\ a[1] = Prefix(m) \o x
    <3>1. PICK x : SnapshotTail(roster, goals, x) /\ a[1] = Prefix(m) \o x
      BY <2>2
    <3>2. x \in Paths /\ x[1] # Name("exports")
      BY <1>1, <3>1, TailHeads
    <3> QED
      BY <1>1, <1>4, <3>1, <3>2, PrefixClaims
  <2>3. CASE /\ m.destination = "plugin"
             /\ \E s \in {"ACTIVATION.md", "LICENSE", "shared"} : a[1][1] = Name(s)
    BY <2>3, HeadOfPlugin DEF Claimed, PluginHeads, OtherHeads
  <2> QED
    BY <2>1, <2>2, <2>3
<1>8. Claimed(m, a[1])
  BY <1>3, <1>5, <1>6, <1>7
<1> QED
  BY <1>8 DEF m

\* Whatever an installed export has is its squad's.
LEMMA InstalledClaims ==
  ASSUME ExportInv, NEW root \in Roots, NEW q \in Installed(root)
  PROVE  \E d \in Drafts, goals \in GoalFiles :
           LET m == ManifestDict(d.manifest)
           IN  /\ InstalledFrom(d, goals, root, q)
               /\ m.squad \in AllIds /\ m.destination \in {"project", "user", "plugin"}
               /\ PathSetValid(DOMAIN Owned(root, q))
               /\ Claimed(m, q) /\ \A p \in DOMAIN Owned(root, q) : Claimed(m, p)
<1>1. PICK d \in Drafts, goals \in GoalFiles : InstalledFrom(d, goals, root, q)
  BY InstalledExport
<1> DEFINE m == ManifestDict(d.manifest)
           roster == Loaded(d.roster)
           files == Files(Desired(m, roster, goals))
<1>2. /\ Contracts(d) /\ q = ReceiptPath(m) /\ TargetAllowed(m.destination, root)
      /\ ArtifactsValid(m, roster, files) /\ DOMAIN Owned(root, q) = DOMAIN files
  BY <1>1 DEF InstalledFrom, Renders, Owned
<1>3. m.squad \in AllIds /\ m.squad \in Seq(Words) /\ m.squad # <<>>
  BY <1>2, NamedDraft, IdsOfDraft DEF AllIds
<1>4. ASSUME NEW p \in DOMAIN Owned(root, q), m.destination \in {"project", "user", "plugin"}
      PROVE  Claimed(m, p)
  <2>1. PICK a \in Desired(m, roster, goals) : a[1] = p
    BY <1>1, OwnedPaths
  <2> QED
    BY <1>2, <1>4, <2>1, DesiredClaims
<1> HIDE DEF m, roster, files
<1>5. m.destination \in {"project", "user", "plugin"}
  BY <1>2 DEF TargetAllowed
<1>6. Claimed(m, q) /\ PathSetValid(DOMAIN Owned(root, q))
  BY <1>2, <1>3, <1>5, ReceiptClaims DEF ArtifactsValid
<1> QED
  BY <1>1, <1>3, <1>4, <1>5, <1>6 DEF m

\* And so is what a snapshot would write.
LEMMA SnapshotClaims ==
  ASSUME NEW s \in Rendered, s.manifest.destination \in {"project", "user", "plugin"}
  PROVE  LET m == s.manifest
         IN  /\ m.squad \in AllIds
             /\ Claimed(m, ReceiptPath(m)) /\ \A p \in DOMAIN s.files : Claimed(m, p)
<1>1. PICK d \in Drafts, goals \in GoalFiles :
        /\ Contracts(d) /\ s.manifest = ManifestDict(d.manifest)
        /\ s.files = Files(Desired(ManifestDict(d.manifest), Loaded(d.roster), goals))
  BY RenderedComesFrom
<1>2. ManifestDict(d.manifest).squad \in AllIds
  BY <1>1, IdsOfDraft DEF AllIds
<1>3. Claimed(s.manifest, ReceiptPath(s.manifest))
  <2>1. s.manifest.squad \in Seq(Words) /\ s.manifest.squad # <<>>
    BY <1>1, NamedDraft
  <2> QED
    BY <2>1, ReceiptClaims
<1>4. ASSUME NEW p \in DOMAIN s.files
      PROVE  Claimed(s.manifest, p)
  <2> DEFINE artifacts == Desired(ManifestDict(d.manifest), Loaded(d.roster), goals)
  <2>1. \A a \in artifacts : Claimed(s.manifest, a[1])
    BY <1>1, DesiredClaims
  <2>2. s.files = Files(artifacts)
    BY <1>1
  <2> HIDE DEF artifacts
  <2>3. \E a \in artifacts : a[1] = p
    BY <2>2, FileIsArtifact
  <2> QED
    BY <2>1, <2>3
<1> QED
  BY <1>1, <1>2, <1>3, <1>4

\* Unhindered: no project or user export is refused because of what other squads
\* have installed, a plugin or other destinations of the same squad among it.
THEOREM NeverHindered == Spec => []Unhindered
<1>1. ExportInv => Unhindered
  <2> SUFFICES ASSUME ExportInv, NEW s \in Rendered, NEW root \in Roots,
                      s.manifest.destination # "plugin",
                      TargetAllowed(s.manifest.destination, root)
               PROVE  Installable(s, root)
    BY DEF Unhindered
  <2> DEFINE m == s.manifest
             receipt == ReceiptPath(m)
  <2>1. /\ m.destination \in {"project", "user"}
        /\ m.destination = "user" <=> root = Home
    BY DEF TargetAllowed
  <2>2. /\ m.squad \in AllIds /\ Claimed(m, receipt)
        /\ \A p \in DOMAIN s.files : Claimed(m, p)
    BY <2>1, SnapshotClaims
  <2>3. receipt \notin DOMAIN s.files
    BY NoReceiptIsRendered
  <2> HIDE DEF m, receipt
  <2>4. ASSUME NEW p \in DOMAIN tree[root], Claimed(m, p)
        PROVE  /\ receipt \in Installed(root) /\ (p = receipt \/ p \in DOMAIN Owned(root, receipt))
               /\ tree[root][receipt].content.squad = m.squad
               /\ tree[root][receipt].content.destination = m.destination
               /\ PathSetValid(DOMAIN Owned(root, receipt))
    <3>1. PICK q \in Installed(root) : p = q \/ p \in DOMAIN Owned(root, q)
      BY <2>4 DEF ExportInv, AccountedInv
    <3>2. PICK d \in Drafts, goals \in GoalFiles :
            LET m2 == ManifestDict(d.manifest)
            IN  /\ InstalledFrom(d, goals, root, q)
                /\ m2.squad \in AllIds /\ m2.destination \in {"project", "user", "plugin"}
                /\ PathSetValid(DOMAIN Owned(root, q))
                /\ Claimed(m2, q) /\ \A x \in DOMAIN Owned(root, q) : Claimed(m2, x)
      BY InstalledClaims
    <3> DEFINE m2 == ManifestDict(d.manifest)
    <3>3. /\ q = ReceiptPath(m2) /\ TargetAllowed(m2.destination, root)
          /\ tree[root][q].content.squad = m2.squad
          /\ tree[root][q].content.destination = m2.destination
          /\ m2.squad \in AllIds /\ Claimed(m2, p) /\ PathSetValid(DOMAIN Owned(root, q))
      BY <3>1, <3>2 DEF InstalledFrom
    <3> HIDE DEF m2
    <3>4. \/ m2.destination = m.destination
          \/ m.destination = "project" /\ m2.destination = "plugin"
      BY <2>1, <3>3 DEF TargetAllowed
    <3>5. m2.squad = m.squad /\ m2.destination = m.destination
      BY <2>1, <2>2, <2>4, <3>3, <3>4, ClaimsDiffer
    <3>6. q = receipt
      BY <3>3, <3>5 DEF ReceiptPath, Prefix, receipt
    <3> QED
      BY <3>1, <3>3, <3>5, <3>6
  <2>5. ASSUME receipt \in DOMAIN tree[root]
        PROVE  LET c == tree[root][receipt].content
               IN  /\ c.kind = "receipt" /\ c.squad = m.squad /\ c.destination = m.destination
                   /\ PathSetValid(DOMAIN c.files)
    BY <2>2, <2>4, <2>5 DEF Installed, Owned
  <2>6. ASSUME NEW p \in DOMAIN s.files \cap DOMAIN tree[root]
        PROVE  /\ Present(root, receipt) /\ p \in DOMAIN Owned(root, receipt)
               /\ Unchanged(root, p, receipt)
    <3>1. receipt \in Installed(root) /\ p \in DOMAIN Owned(root, receipt)
      BY <2>2, <2>3, <2>4
    <3> QED
      BY <3>1, OwnedSays DEF Unchanged, Present, Installed
  <2>7. Collisions(s, root) = {}
    BY <2>6 DEF Collisions, m, receipt
  <2> QED
    BY <2>5, <2>7 DEF Installable, m, receipt
<1> QED
  BY <1>1, ExportInvariance, PTL

LEMMA PrefixOf ==
  ASSUME NEW x \in Paths, NEW p \in Paths
  PROVE  IsPrefix(x, p) <=> Len(x) <= Len(p) /\ \A i \in 1..Len(x) : p[i] = x[i]
<1> DEFINE u == SubSeq(x, 1, Len(x))
           v == SubSeq(p, 1, Len(x))
<1>1. Len(x) \in Nat /\ Len(p) \in Nat /\ x \in Seq(PathNames) /\ p \in Seq(PathNames)
  BY DEF Paths
<1>2. IsPrefix(x, p) <=> Len(x) <= Len(p) /\ u = v
  BY DEF IsPrefix
<1>3. u \in Seq(PathNames) /\ Len(u) = Len(x) /\ \A i \in 1..Len(x) : u[i] = x[i]
  BY <1>1
<1>4. ASSUME Len(x) <= Len(p)
      PROVE  v \in Seq(PathNames) /\ Len(v) = Len(x) /\ \A i \in 1..Len(x) : v[i] = p[i]
  BY <1>1, <1>4
<1> HIDE DEF u, v
<1>5. ASSUME Len(x) <= Len(p), u = v
      PROVE  \A i \in 1..Len(x) : p[i] = x[i]
  BY <1>3, <1>4, <1>5
<1>6. ASSUME Len(x) <= Len(p), \A i \in 1..Len(x) : p[i] = x[i]
      PROVE  u = v
  <2>1. \A i \in 1..Len(u) : u[i] = v[i]
    BY <1>3, <1>4, <1>6
  <2> QED
    BY <1>3, <1>4, <1>6, <2>1, SeqEqual
<1> QED
  BY <1>2, <1>5, <1>6

\* The directory of the Claude agents.
LEMMA AgentDirectory ==
  ASSUME NEW destination
  PROVE  LET x == ClaudeDirectory(destination)
         IN  /\ x \in Paths
             /\ IF destination = "plugin"
                  THEN Len(x) = 1 /\ x[1] = Name("agents")
                  ELSE Len(x) = 2 /\ x[1] = Name(".claude") /\ x[2] = Name("agents")
<1> DEFINE a == Name("agents")
           c == Name(".claude")
<1>1. a \in PathNames /\ c \in PathNames
  BY OneName DEF Symbols
<1>2. ClaudeDirectory(destination) = IF destination = "plugin" THEN <<a>> ELSE <<c, a>>
  BY DEF ClaudeDirectory
<1> HIDE DEF a, c
<1>3. <<a>> \in Paths /\ <<c, a>> \in Paths
  BY <1>1 DEF Paths
<1> QED
  BY <1>2, <1>3 DEF a, c

\* The path of a role's Claude agent.
AgentPath(m, r) ==
  IF m.destination = "plugin" THEN In("agents", File(RoleId(m, r), ".md"))
                              ELSE In(".claude", In("agents", File(RoleId(m, r), ".md")))

LEMMA AgentLies ==
  ASSUME NEW m, m.squad \in Seq(Words), NEW r, r.id \in Seq(Words)
  PROVE  /\ IsPrefix(ClaudeDirectory(m.destination), AgentPath(m, r))
         /\ Last(Last(AgentPath(m, r))) = ".md"
<1> DEFINE x == ClaudeDirectory(m.destination)
           p == AgentPath(m, r)
<1>1. x \in Paths
      /\ IF m.destination = "plugin"
           THEN Len(x) = 1 /\ x[1] = Name("agents")
           ELSE Len(x) = 2 /\ x[1] = Name(".claude") /\ x[2] = Name("agents")
  BY AgentDirectory
<1>2. CASE m.destination = "plugin"
  <2>1. p = In("agents", File(RoleId(m, r), ".md"))
    BY <1>2 DEF AgentPath
  <2>2. p \in Paths /\ p[1] = Name("agents") /\ Last(Last(p)) = ".md"
    BY <2>1, RolePaths
  <2> HIDE DEF x, p
  <2>3. Len(x) <= Len(p) /\ \A i \in 1..Len(x) : p[i] = x[i]
    <3>1. Len(x) = 1 /\ p[1] = x[1] /\ Len(p) \in Nat /\ Len(p) > 0
      BY <1>1, <1>2, <2>2, PathSays
    <3> QED
      BY <3>1
  <2>4. IsPrefix(x, p)
    BY <1>1, <2>2, <2>3, PrefixOf
  <2> QED
    BY <2>2, <2>4 DEF x, p
<1>3. CASE m.destination # "plugin"
  <2>1. p = In(".claude", In("agents", File(RoleId(m, r), ".md")))
    BY <1>3 DEF AgentPath
  <2>2. ".claude" \in Symbols
    BY DEF Symbols
  <2>3. /\ p \in Paths /\ Len(p) = 3 /\ p[1] = Name(".claude") /\ p[2] = Name("agents")
        /\ Last(Last(p)) = ".md"
    <3> DEFINE y == In(".claude", In("agents", File(ProviderRoleId(m.squad, r.id), ".md")))
               n == Append(ProviderRoleId(m.squad, r.id), ".md")
    <3>1. p = y
      BY <2>1 DEF RoleId
    <3>2. /\ y \in Paths /\ Len(y) = 3 /\ y[1] = Name(".claude") /\ y[2] = Name("agents")
          /\ Last(y) = n /\ Last(n) = ".md"
      BY <2>2, AgentFile
    <3> HIDE DEF p, y, n
    <3> QED
      BY <3>1, <3>2
  <2> HIDE DEF x, p
  <2>4. Len(x) <= Len(p) /\ \A i \in 1..Len(x) : p[i] = x[i]
    <3>1. Len(x) = 2 /\ p[1] = x[1] /\ p[2] = x[2] /\ Len(p) = 3
      BY <1>1, <1>3, <2>3
    <3> QED
      BY <3>1
  <2>5. IsPrefix(x, p)
    BY <1>1, <2>3, <2>4, PrefixOf
  <2> QED
    BY <2>3, <2>5 DEF x, p
<1> QED
  BY <1>2, <1>3

\* What the adapters render where Claude looks for agents, and at the role map's place.
LEMMA ProviderClaude ==
  ASSUME NEW m, m.squad \in AllIds, m.squad # <<>>, NEW roster, NamedBy(AllIds, roster),
         NEW a \in ProviderArtifacts(m, roster)
  PROVE  /\ a[1][1] = ClaudeDirectory(m.destination)[1] =>
              /\ "claude" \in ToSet(m.providers)
              /\ \E r \in ActiveRoles(roster) : a[2] = RenderAgent(m, r)
         /\ a[1][1] = Name(".squad") => a[2] = ProviderRoleMap(m, roster)
<1>1. m.squad \in Seq(Words) /\ NamedRoles(roster)
  BY IdsAreWords, NamedByAllIds DEF AllIds
<1>2. CASE m.destination = "plugin"
  <2>1. ClaudeDirectory(m.destination)[1] = Name("agents")
    BY <1>2, AgentDirectory
  <2> QED
    BY <1>1, <1>2, <2>1, PluginClaims
<1>3. CASE m.destination # "plugin"
  <2>1. ClaudeDirectory(m.destination)[1] = Name(".claude")
    BY <1>3, AgentDirectory
  <2>2. \/ a \in Mounted("claude", ClaudeAgents(m, roster)) /\ "claude" \in ToSet(m.providers)
        \/ a \in Mounted("codex", CodexAgents(m, roster) \cup CodexSkills(m, roster))
    BY <1>3 DEF ProviderArtifacts
  <2>3. a[1][1] # Name(".squad")
    <3>1. SquadPath(m.squad, a[1])
      BY <2>2, MountedClaims
    <3> QED
      BY <3>1, PluginNames DEF SquadPath
  <2>4. ASSUME a[1][1] = Name(".claude")
        PROVE  /\ "claude" \in ToSet(m.providers)
               /\ \E r \in ActiveRoles(roster) : a[2] = RenderAgent(m, r)
    <3>1. a \in Mounted("claude", ClaudeAgents(m, roster)) <=> a[1][1] = Name(".claude")
      BY <2>2, MountedClaims
    <3>2. \E r \in ActiveRoles(roster) : a[2] = RenderAgent(m, r)
      BY <2>4, <3>1, MountedClaims
    <3>3. "claude" \in ToSet(m.providers)
      BY <2>2, <2>4, MountedClaims
    <3> QED
      BY <3>2, <3>3
  <2> QED
    BY <2>1, <2>3, <2>4
<1> QED
  BY <1>2, <1>3

-----------------------------------------------------------------------------
(* The role map and the agents of an installed export. *)

RoleMapFile(m) == Append(Prefix(m), Name("provider-role-map.json"))

LEMMA RoleMapPlace ==
  ASSUME NEW m, m.squad \in Seq(Words), m.squad # <<>>
  PROVE  /\ RoleMapFile(m)[1] = Name(".squad")
         /\ \A t \in {"manifest.json", "roster.json"} : RoleMapFile(m) # Append(Prefix(m), Name(t))
         /\ \A x \in Paths : x[1] = Name("context") => RoleMapFile(m) # Prefix(m) \o x
<1> DEFINE f == Prefix(m)
           n == Name("provider-role-map.json")
<1>1. f \in Paths /\ f \in Seq(PathNames) /\ f[1] = Name(".squad") /\ Len(f) > 0 /\ Len(f) \in Nat
  BY PrefixPath, PathSays DEF Paths
<1>2. \A t \in {"manifest.json", "roster.json", "provider-role-map.json"} : Name(t) \in PathNames
  BY OneName DEF Symbols
<1>3. n # Name("context") /\ \A t \in {"manifest.json", "roster.json"} : n # Name(t)
  BY PluginNames
<1>4. RoleMapFile(m) = Append(f, n) /\ n \in PathNames
  BY <1>2 DEF RoleMapFile
<1> HIDE DEF f, n
<1>5. Append(f, n)[1] = Name(".squad") /\ Append(f, n)[Len(f) + 1] = n
  BY <1>1, <1>4
<1>6. ASSUME NEW t \in {"manifest.json", "roster.json"}
      PROVE  Append(f, n) # Append(f, Name(t))
  <2>1. Append(f, Name(t))[Len(f) + 1] = Name(t)
    BY <1>1, <1>2, <1>6
  <2> QED
    BY <1>3, <1>5, <2>1
<1>7. ASSUME NEW x \in Paths, x[1] = Name("context")
      PROVE  Append(f, n) # f \o x
  <2>1. (f \o x)[Len(f) + 1] = x[1]
    BY <1>1, JoinedHead
  <2> QED
    BY <1>3, <1>5, <1>7, <2>1
<1> QED
  BY <1>4, <1>5, <1>6, <1>7 DEF f

\* What the engine adds to a plugin lies outside its snapshot.
LEMMA ExtrasElsewhere ==
  ASSUME NEW m, NEW roster, NEW a \in PluginExtras(m, roster)
  PROVE  \E d \in {"ACTIVATION.md", "LICENSE", "shared"} : a[1][1] = Name(d)
<1>1. {"ACTIVATION.md", "LICENSE", "shared", "manifest.json", "roster.json", "runtime"} \subseteq Symbols
  BY DEF Symbols
<1>2. CASE a[1] = <<Name("ACTIVATION.md")>>
  BY <1>2
<1>3. CASE a[1] = License
  BY <1>3, LicensePath
<1>4. CASE \E t \in {"manifest.json", "roster.json"} : a[1] = In("shared", <<Name(t)>>)
  <2>1. PICK t \in {"manifest.json", "roster.json"} : a[1] = In("shared", <<Name(t)>>)
    BY <1>4
  <2> DEFINE y == <<Name(t)>>
  <2>2. y \in Paths
    BY <1>1, OneName
  <2> HIDE DEF y
  <2>3. In("shared", y)[1] = Name("shared")
    BY <1>1, <2>2, InPath
  <2> QED
    BY <2>1, <2>3 DEF y
<1>5. CASE \E p \in DOMAIN CollectRuntime(SourceTree) : a[1] = In("shared", In("runtime", p))
  <2>1. PICK p \in DOMAIN CollectRuntime(SourceTree) : a[1] = In("shared", In("runtime", p))
    BY <1>5
  <2>2. In("runtime", p) \in Paths
    BY <1>1, RuntimePaths, InPath
  <2> DEFINE y == In("runtime", p)
  <2> HIDE DEF y
  <2>3. In("shared", y)[1] = Name("shared")
    BY <1>1, <2>2, InPath DEF y
  <2> QED
    BY <2>1, <2>3 DEF y
<1> QED
  BY <1>2, <1>3, <1>4, <1>5 DEF PluginExtras

\* Of what the engine renders, only the role map is in the role map's place.
LEMMA EngineRoleMap ==
  ASSUME NEW m, m.squad \in Seq(Words), m.squad # <<>>, NEW roster, NamedRoles(roster),
         NEW goals, NEW a \in EngineArtifacts(m, roster, goals), a[1] = RoleMapFile(m)
  PROVE  a[2] = ProviderRoleMap(m, roster)
<1>1. CASE a \in {<<ManifestPath(m), ManifestContent(m)>>, <<RosterPath(m), RosterContent(roster)>>}
  <2>1. a[1] = ManifestPath(m) \/ a[1] = RosterPath(m)
    BY <1>1
  <2> QED
    BY <2>1, RoleMapPlace DEF ManifestPath, RosterPath
<1>2. CASE a[1] = Prefix(m) \o IndexTail \/ \E b \in ContextBodies(roster, goals) : a[1] = Prefix(m) \o b[1]
  <2>1. PICK x : /\ x = IndexTail \/ \E b \in ContextBodies(roster, goals) : x = b[1]
                 /\ a[1] = Prefix(m) \o x
    BY <1>2
  <2>2. x \in Paths /\ x[1] = Name("context")
    <3>1. SnapshotTail(roster, goals, x)
      BY <2>1 DEF SnapshotTail
    <3> QED
      BY <2>1, <3>1, TailPaths
  <2> QED
    BY <2>1, <2>2, RoleMapPlace
<1>3. CASE a \in PluginExtras(m, roster)
  <2>1. PICK d \in {"ACTIVATION.md", "LICENSE", "shared"} : a[1][1] = Name(d)
    BY <1>3, ExtrasElsewhere
  <2>2. a[1][1] = Name(".squad")
    BY RoleMapPlace
  <2> QED
    BY <2>1, <2>2, PluginNames
<1>4. CASE a = <<Append(Prefix(m), Name("provider-role-map.json")), ProviderRoleMap(m, roster)>>
  BY <1>4
<1> QED
  <2>1. CASE a = <<Prefix(m) \o IndexTail, ContextIndex(roster, goals)>>
    BY <1>2, <2>1
  <2>2. CASE a \in {<<Prefix(m) \o b[1], b[2]>> : b \in ContextBodies(roster, goals)}
    <3>1. PICK b \in ContextBodies(roster, goals) : a = <<Prefix(m) \o b[1], b[2]>>
      BY <2>2
    <3>2. a[1] = Prefix(m) \o b[1]
      BY <3>1
    <3> QED
      BY <1>2, <3>2
  <2> QED
    BY <1>1, <1>3, <1>4, <2>1, <2>2 DEF EngineArtifacts, IndexTail

\* So whatever is rendered there is the map of the roster on disk.
LEMMA DesiredRoleMap ==
  ASSUME NEW d \in Drafts, Contracts(d), NEW goals,
         NEW a \in Desired(ManifestDict(d.manifest), Loaded(d.roster), goals),
         a[1] = RoleMapFile(ManifestDict(d.manifest))
  PROVE  a[2] = ProviderRoleMap(ManifestDict(d.manifest), PortableRoster(Loaded(d.roster)))
<1> DEFINE m == ManifestDict(d.manifest)
           roster == Loaded(d.roster)
           p == PortableRoster(roster)
<1>1. m.squad \in Seq(Words) /\ m.squad # <<>> /\ NamedRoles(roster)
  BY NamedDraft
<1>2. m.squad \in AllIds /\ NamedBy(AllIds, RosterLoaded(p))
  BY IdsOfDraft DEF NamedBy, AllIds
<1>3. CanonicalRoster(roster) /\ RosterLoaded(p) = p
  BY RenderedRoster DEF Contracts
<1>4. a \in ProviderArtifacts(m, p) \/ a \in EngineArtifacts(m, roster, goals)
  BY <1>3 DEF Desired
<1>5. a[1] = RoleMapFile(m)
  OBVIOUS
<1> HIDE DEF m, roster
<1>6. ProviderRoleMap(m, p) = ProviderRoleMap(m, roster)
  BY <1>3, SameEntries
<1> HIDE DEF p
<1>7. CASE a \in ProviderArtifacts(m, p)
  <2>1. a[1][1] = Name(".squad")
    BY <1>1, <1>5, RoleMapPlace
  <2>2. a[2] = ProviderRoleMap(m, p)
    BY <1>1, <1>2, <1>3, <1>7, <2>1, ProviderClaude
  <2> QED
    BY <2>2 DEF m, p, roster
<1>8. CASE a \in EngineArtifacts(m, roster, goals)
  <2>1. a[2] = ProviderRoleMap(m, roster)
    BY <1>1, <1>5, <1>8, EngineRoleMap
  <2> QED
    BY <1>6, <2>1 DEF m, p, roster
<1> QED
  BY <1>4, <1>7, <1>8

\* What lies where Claude looks for agents is the agent of an active role.
LEMMA DesiredAgents ==
  ASSUME NEW d \in Drafts, Contracts(d), NEW goals,
         NEW a \in Desired(ManifestDict(d.manifest), Loaded(d.roster), goals),
         IsPrefix(ClaudeDirectory(ManifestDict(d.manifest).destination), a[1])
  PROVE  LET m == ManifestDict(d.manifest)
         IN  /\ "claude" \in ToSet(m.providers)
             /\ \E r \in ActiveRoles(PortableRoster(Loaded(d.roster))) : a[2] = RenderAgent(m, r)
<1> DEFINE m == ManifestDict(d.manifest)
           roster == Loaded(d.roster)
           p == PortableRoster(roster)
           x == ClaudeDirectory(m.destination)
<1>1. m.squad \in Seq(Words) /\ m.squad # <<>> /\ NamedRoles(roster)
  BY NamedDraft
<1>2. m.squad \in AllIds /\ NamedBy(AllIds, RosterLoaded(p))
  BY IdsOfDraft DEF NamedBy, AllIds
<1>3. RosterLoaded(p) = p
  BY RenderedRoster DEF Contracts
<1>4. a \in ProviderArtifacts(m, p) \/ a \in EngineArtifacts(m, roster, goals)
  BY <1>3 DEF Desired
<1>5. \/ Placed(m, a)
      \/ \E y : SnapshotTail(roster, goals, y) /\ a[1] = Prefix(m) \o y
  BY DesiredPaths
<1>6. IsPrefix(x, a[1])
  OBVIOUS
<1>7. /\ x \in Paths /\ Len(x) >= 1
      /\ x[1] = Name("agents") \/ x[1] = Name(".claude")
  BY AgentDirectory
<1>8. m.squad \in AllIds /\ NamedBy(AllIds, p)
  BY <1>2, <1>3
<1> HIDE DEF m, roster, p
<1>9. a[1] \in Paths
  <2>1. ASSUME NEW y, SnapshotTail(roster, goals, y), a[1] = Prefix(m) \o y
        PROVE  a[1] \in Paths
    <3>1. y \in Paths
      BY <1>1, <2>1, TailPaths
    <3>2. Prefix(m) \in Paths
      BY <1>1, PrefixPath
    <3> QED
      BY <2>1, <3>1, <3>2, Joined
  <2> QED
    BY <1>5, <2>1 DEF Placed
<1>10. a[1][1] = x[1]
  <2> HIDE DEF x
  <2>1. \A i \in 1..Len(x) : a[1][i] = x[i]
    BY <1>6, <1>7, <1>9, PrefixOf
  <2>2. 1 \in 1..Len(x)
    BY <1>7, PathSays
  <2> QED
    BY <2>1, <2>2
<1>11. CASE a \in ProviderArtifacts(m, p)
  <2>1. /\ "claude" \in ToSet(m.providers)
        /\ \E r \in ActiveRoles(p) : a[2] = RenderAgent(m, r)
    BY <1>1, <1>8, <1>10, <1>11, ProviderClaude
  <2> QED
    BY <2>1 DEF m, p, roster
<1>12. CASE a \in EngineArtifacts(m, roster, goals)
  <2>1. \/ \E y : SnapshotTail(roster, goals, y) /\ a[1] = Prefix(m) \o y
        \/ \E s \in {"ACTIVATION.md", "LICENSE", "shared"} : a[1][1] = Name(s)
    BY <1>1, <1>12, EnginePaths
  <2>2. ASSUME NEW y, SnapshotTail(roster, goals, y), a[1] = Prefix(m) \o y
        PROVE  a[1][1] = Name(".squad")
    <3>1. y \in Paths
      BY <1>1, <2>2, TailPaths
    <3>2. Prefix(m) \in Paths /\ Prefix(m)[1] = Name(".squad") /\ 1 \in 1..Len(Prefix(m))
      BY <1>1, PrefixPath, PathSays
    <3> QED
      BY <2>2, <3>1, <3>2, JoinedHead
  <2> QED
    BY <1>7, <1>10, <2>1, <2>2, PluginNames
<1> QED
  BY <1>4, <1>11, <1>12

\* With Claude among the providers, every active role has its agent, and there is
\* a role map.
LEMMA RoleAgents ==
  ASSUME NEW d \in Drafts, Contracts(d), NEW goals,
         "claude" \in ToSet(ManifestDict(d.manifest).providers)
  PROVE  LET m == ManifestDict(d.manifest)
             artifacts == Desired(m, Loaded(d.roster), goals)
         IN  /\ \A r \in ActiveRoles(PortableRoster(Loaded(d.roster))) :
                  <<AgentPath(m, r), RenderAgent(m, r)>> \in artifacts
             /\ \E a \in artifacts : a[1] = RoleMapFile(m)
<1> DEFINE m == ManifestDict(d.manifest)
           roster == Loaded(d.roster)
           p == PortableRoster(roster)
           artifacts == Desired(m, roster, goals)
           place == In(".squad", <<Name("provider-role-map.json")>>)
<1>1. artifacts = ProviderArtifacts(m, p) \cup EngineArtifacts(m, roster, goals)
  BY RenderedRoster DEF Contracts, Desired
<1>2. "claude" \in ToSet(m.providers)
  OBVIOUS
<1> HIDE DEF m, roster, p, artifacts
<1>3. CASE m.destination = "plugin"
  <2>1. ClaudeGenerated(m, p) \subseteq artifacts
    BY <1>1, <1>2, <1>3 DEF ProviderArtifacts, ClaudePlugin
  <2>2. \A r \in ActiveRoles(p) : <<AgentPath(m, r), RenderAgent(m, r)>> \in ClaudeGenerated(m, p)
    BY <1>3 DEF ClaudeGenerated, ClaudeAgents, AgentPath
  <2>3. <<place, ProviderRoleMap(m, p)>> \in ClaudeGenerated(m, p)
    BY DEF ClaudeGenerated
  <2>4. place = RoleMapFile(m)
    <3>1. Prefix(m) = <<Name(".squad")>>
      BY <1>3 DEF Prefix, SnapshotPrefix
    <3>2. ".squad" \in Symbols /\ Name("provider-role-map.json") \in PathNames
      BY OneName DEF Symbols
    <3>3. place = <<Name(".squad"), Name("provider-role-map.json")>>
      BY <3>2, InTwo
    <3> QED
      BY <3>1, <3>3 DEF RoleMapFile
  <2> HIDE DEF place
  <2> QED
    BY <2>1, <2>2, <2>3, <2>4 DEF m, p, roster, artifacts
<1>4. CASE m.destination # "plugin"
  <2>1. Mounted("claude", ClaudeAgents(m, p)) \subseteq artifacts
    BY <1>1, <1>2, <1>4 DEF ProviderArtifacts
  <2>2. ASSUME NEW r \in ActiveRoles(p)
        PROVE  <<AgentPath(m, r), RenderAgent(m, r)>> \in Mounted("claude", ClaudeAgents(m, p))
    <3> DEFINE a == <<In("agents", File(RoleId(m, r), ".md")), RenderAgent(m, r)>>
    <3>1. a \in ClaudeAgents(m, p)
      BY DEF ClaudeAgents
    <3>2. <<AgentPath(m, r), RenderAgent(m, r)>> = <<In(".claude", a[1]), a[2]>>
      BY <1>4 DEF AgentPath
    <3> HIDE DEF a
    <3> QED
      BY <3>1, <3>2 DEF Mounted
  <2>3. <<RoleMapFile(m), ProviderRoleMap(m, roster)>> \in EngineArtifacts(m, roster, goals)
    BY <1>4 DEF EngineArtifacts, RoleMapFile
  <2>4. \E a \in artifacts : a[1] = RoleMapFile(m)
    BY <1>1, <2>3
  <2> QED
    BY <2>1, <2>2, <2>4 DEF m, p, roster, artifacts
<1> QED
  BY <1>3, <1>4

\* The map and the agents of a receipt are those of the active roles of one draft.
LEMMA InstalledAgents ==
  ASSUME ExportInv, NEW root \in Roots, NEW q \in Installed(root)
  PROVE  \E d \in Drafts :
           LET id == tree[root][q].content
               m == ManifestDict(d.manifest)
               p == PortableRoster(Loaded(d.roster))
               files == [x \in DOMAIN id.files |-> id.files[x].content]
               agents == AgentPaths(files, ClaudeDirectory(id.destination), ".md")
           IN  /\ id.squad = m.squad /\ m.squad \in AllIds
               /\ \A r \in ActiveRoles(p) : r.id \in AllIds
               /\ files[RosterPath(id)].document = p
               /\ HasRoleMap(root, q) =>
                    RoleMap(root, q) = {<<RoleId(m, r), r.id>> : r \in ActiveRoles(p)}
               /\ agents # {} =>
                    /\ HasRoleMap(root, q)
                    /\ {files[x].name : x \in agents} = {RoleId(m, r) : r \in ActiveRoles(p)}
<1>1. PICK d \in Drafts, goals \in GoalFiles : InstalledFrom(d, goals, root, q)
  BY InstalledExport
<1> DEFINE id == tree[root][q].content
           m == ManifestDict(d.manifest)
           roster == Loaded(d.roster)
           p == PortableRoster(roster)
           artifacts == Desired(m, roster, goals)
           files == Files(artifacts)
           shown == [x \in DOMAIN id.files |-> id.files[x].content]
           agents == AgentPaths(shown, ClaudeDirectory(id.destination), ".md")
<1>2. /\ Contracts(d) /\ Renders(m, roster, goals)
      /\ id.squad = m.squad /\ id.destination = m.destination
      /\ DOMAIN id.files = DOMAIN files
      /\ \A x \in DOMAIN files : id.files[x].content = files[x]
      /\ RosterPath(id) = RosterPath(m) /\ RosterPath(m) \in DOMAIN files
      /\ files[RosterPath(m)] = RosterContent(roster)
  BY <1>1 DEF InstalledFrom
<1>3. /\ m.squad \in AllIds /\ m.squad \in Seq(Words) /\ m.squad # <<>>
      /\ \A r \in ToSet(p.roles) : r.id \in AllIds
  BY <1>2, IdsOfDraft, NamedDraft, RenderedRoster DEF AllIds, Contracts
<1>4. RosterContent(roster).document = p
  BY <1>2, DocumentsOnDisk
<1>5. Functional(artifacts)
  BY <1>2 DEF Renders
<1>6. ASSUME NEW a \in artifacts, a[1] = RoleMapFile(m)
      PROVE  a[2] = ProviderRoleMap(m, p)
  BY <1>2, <1>6, DesiredRoleMap
<1>7. ASSUME NEW a \in artifacts, IsPrefix(ClaudeDirectory(m.destination), a[1])
      PROVE  /\ "claude" \in ToSet(m.providers)
             /\ \E r \in ActiveRoles(p) : a[2] = RenderAgent(m, r)
  BY <1>2, <1>7, DesiredAgents
<1>8. ASSUME "claude" \in ToSet(m.providers)
      PROVE  /\ \A r \in ActiveRoles(p) : <<AgentPath(m, r), RenderAgent(m, r)>> \in artifacts
             /\ \E a \in artifacts : a[1] = RoleMapFile(m)
  BY <1>2, <1>8, RoleAgents
<1> HIDE DEF m, roster, p, artifacts
<1>9. /\ DOMAIN shown = DOMAIN files
      /\ \A x \in DOMAIN files : shown[x] = files[x]
  BY <1>2
<1>10. \A r \in ActiveRoles(p) : r.id \in AllIds /\ r.id \in Seq(Words)
  BY <1>3, IdsAreWords DEF ActiveRoles, AllIds
<1>11. RoleMapPath(root, q) = RoleMapFile(m)
  BY <1>2 DEF RoleMapPath, RoleMapFile, Prefix
<1>12. HasRoleMap(root, q) <=> RoleMapFile(m) \in DOMAIN files
  BY <1>2, <1>11 DEF HasRoleMap, Owned
<1>13. ASSUME HasRoleMap(root, q)
       PROVE  RoleMap(root, q) = {<<RoleId(m, r), r.id>> : r \in ActiveRoles(p)}
  <2>1. RoleMapFile(m) \in DOMAIN files
    BY <1>12, <1>13
  <2>2. files[RoleMapFile(m)] = ProviderRoleMap(m, p)
    BY <1>6, <2>1, FileIsArtifact
  <2>3. RoleMap(root, q) = files[RoleMapFile(m)].roles
    BY <1>2, <1>11, <2>1 DEF RoleMap, Owned
  <2> QED
    BY <2>2, <2>3 DEF ProviderRoleMap
<1> HIDE DEF shown
<1>14. agents = {x \in DOMAIN files : IsPrefix(ClaudeDirectory(m.destination), x) /\ Last(Last(x)) = ".md"}
  BY <1>2, <1>9 DEF AgentPaths
<1>15. ASSUME NEW x \in agents
       PROVE  /\ "claude" \in ToSet(m.providers)
              /\ \E r \in ActiveRoles(p) : shown[x].name = RoleId(m, r)
  <2>1. x \in DOMAIN files /\ IsPrefix(ClaudeDirectory(m.destination), x)
    BY <1>14, <1>15
  <2>2. PICK a \in artifacts : a[1] = x /\ files[x] = a[2]
    BY <2>1, FileIsArtifact
  <2>3. /\ "claude" \in ToSet(m.providers)
        /\ \E r \in ActiveRoles(p) : a[2] = RenderAgent(m, r)
    BY <1>7, <2>1, <2>2
  <2>4. \A r \in ActiveRoles(p) : RenderAgent(m, r).name = RoleId(m, r)
    BY DEF RenderAgent
  <2> QED
    BY <1>9, <2>1, <2>2, <2>3, <2>4
<1>16. ASSUME "claude" \in ToSet(m.providers), NEW r \in ActiveRoles(p)
       PROVE  \E x \in agents : shown[x].name = RoleId(m, r)
  <2> DEFINE a == <<AgentPath(m, r), RenderAgent(m, r)>>
  <2>1. a \in artifacts /\ a[1] = AgentPath(m, r) /\ a[2] = RenderAgent(m, r)
    BY <1>8, <1>16
  <2> HIDE DEF a
  <2>2. a[1] \in DOMAIN files /\ files[a[1]] = a[2]
    BY <1>5, <2>1, ArtifactIsFile
  <2>3. /\ IsPrefix(ClaudeDirectory(m.destination), AgentPath(m, r))
        /\ Last(Last(AgentPath(m, r))) = ".md"
    BY <1>3, <1>10, AgentLies
  <2>4. RenderAgent(m, r).name = RoleId(m, r)
    BY DEF RenderAgent
  <2>5. a[1] \in agents
    BY <1>14, <2>1, <2>2, <2>3
  <2> QED
    BY <1>9, <2>1, <2>2, <2>4, <2>5
<1> HIDE DEF agents
<1>17. ASSUME agents # {}
       PROVE  /\ HasRoleMap(root, q)
              /\ {shown[x].name : x \in agents} = {RoleId(m, r) : r \in ActiveRoles(p)}
  <2>1. "claude" \in ToSet(m.providers)
    BY <1>15, <1>17
  <2>2. HasRoleMap(root, q)
    <3>1. PICK a \in artifacts : a[1] = RoleMapFile(m)
      BY <1>8, <2>1
    <3>2. RoleMapFile(m) \in DOMAIN files
      BY <1>5, <3>1, ArtifactIsFile
    <3> QED
      BY <1>12, <3>2
  <2>3. \A x \in agents : \E r \in ActiveRoles(p) : shown[x].name = RoleId(m, r)
    BY <1>15
  <2>4. \A r \in ActiveRoles(p) : \E x \in agents : shown[x].name = RoleId(m, r)
    BY <1>16, <2>1
  <2> QED
    BY <2>2, <2>3, <2>4
<1>18. shown[RosterPath(id)].document = p
  BY <1>2, <1>4, <1>9
<1>19. /\ id.squad = m.squad /\ m.squad \in AllIds
       /\ \A r \in ActiveRoles(p) : r.id \in AllIds
  BY <1>2, <1>3, <1>10
<1> QED
  BY <1>13, <1>17, <1>18, <1>19 DEF shown, agents, m, p, roster

\* What AgentsResolve says of one receipt.
Resolved(root, q) ==
  LET receipt == tree[root][q].content
      files == [p \in DOMAIN receipt.files |-> receipt.files[p].content]
      agents == {files[p].name :
                   p \in AgentPaths(files, ClaudeDirectory(receipt.destination), ".md")}
      active == {r.id : r \in {r \in ToSet(files[RosterPath(receipt)].document.roles) :
                                 Active(r)}}
  IN  agents # {} =>
        /\ HasRoleMap(root, q)
        /\ Functional(RoleMap(root, q))
        /\ {e[1] : e \in RoleMap(root, q)} = agents
        /\ {e[2] : e \in RoleMap(root, q)} = active
        /\ \A y \in Receipts :
             HasRoleMap(y[1], y[2]) /\ tree[y[1]][y[2]].content.squad # receipt.squad
               => agents \cap {e[1] : e \in RoleMap(y[1], y[2])} = {}

\* AgentsResolve: the installed Claude agents are the active roles of the roster
\* next to them, under the names of the role map, and no other squad's map has them.
THEOREM AgentsAreResolved == Spec => []AgentsResolve
<1>1. ASSUME ExportInv, NEW root \in Roots, NEW q \in Installed(root)
      PROVE  Resolved(root, q)
  <2> DEFINE receipt == tree[root][q].content
             files == [x \in DOMAIN receipt.files |-> receipt.files[x].content]
             paths == AgentPaths(files, ClaudeDirectory(receipt.destination), ".md")
             agents == {files[x].name : x \in paths}
             document == files[RosterPath(receipt)].document
             active == {r.id : r \in {r \in ToSet(document.roles) : Active(r)}}
  <2>1. PICK d \in Drafts :
          LET m == ManifestDict(d.manifest)
              p == PortableRoster(Loaded(d.roster))
          IN  /\ receipt.squad = m.squad /\ m.squad \in AllIds
              /\ \A r \in ActiveRoles(p) : r.id \in AllIds
              /\ document = p
              /\ HasRoleMap(root, q) =>
                   RoleMap(root, q) = {<<RoleId(m, r), r.id>> : r \in ActiveRoles(p)}
              /\ paths # {} =>
                   /\ HasRoleMap(root, q)
                   /\ agents = {RoleId(m, r) : r \in ActiveRoles(p)}
    BY <1>1, InstalledAgents
  <2> DEFINE m == ManifestDict(d.manifest)
             roles == ActiveRoles(PortableRoster(Loaded(d.roster)))
  <2>2. /\ receipt.squad = m.squad /\ m.squad \in AllIds
        /\ \A r \in roles : r.id \in AllIds
        /\ roles = {r \in ToSet(document.roles) : Active(r)}
        /\ HasRoleMap(root, q) => RoleMap(root, q) = {<<RoleId(m, r), r.id>> : r \in roles}
        /\ paths # {} => HasRoleMap(root, q) /\ agents = {RoleId(m, r) : r \in roles}
    BY <2>1 DEF ActiveRoles
  <2> HIDE DEF files, paths, document, m, roles
  <2>3. agents # {} => paths # {}
    OBVIOUS
  <2>4. active = {r.id : r \in roles}
    BY <2>2
  <2> HIDE DEF agents, active
  <2>5. ASSUME agents # {}
        PROVE  /\ HasRoleMap(root, q)
               /\ RoleMap(root, q) = {<<RoleId(m, r), r.id>> : r \in roles}
               /\ agents = {RoleId(m, r) : r \in roles}
    BY <2>2, <2>3, <2>5
  <2>6. ASSUME NEW squad \in AllIds, NEW id \in AllIds, NEW r \in roles, RoleId(m, r) = ProviderRoleId(squad, id)
        PROVE  m.squad = squad /\ r.id = id
    <3>1. ProviderRoleId(m.squad, r.id) = ProviderRoleId(squad, id) /\ m.squad \in AllIds /\ r.id \in AllIds
      BY <2>2, <2>6 DEF RoleId
    <3> QED
      BY <3>1, IdentifiersOfSquads
  <2>7. ASSUME agents # {}
        PROVE  /\ Functional(RoleMap(root, q))
               /\ {e[1] : e \in RoleMap(root, q)} = agents
               /\ {e[2] : e \in RoleMap(root, q)} = active
    <3>1. ASSUME NEW r \in roles, NEW t \in roles, RoleId(m, r) = RoleId(m, t)
          PROVE  r.id = t.id
      BY <2>2, <2>6, <3>1 DEF RoleId
    <3>2. Functional(RoleMap(root, q))
      BY <2>5, <2>7, <3>1 DEF Functional
    <3> DEFINE map == RoleMap(root, q)
    <3>3. map = {<<RoleId(m, r), r.id>> : r \in roles}
      BY <2>5, <2>7
    <3> HIDE DEF map
    <3>4. /\ \A e \in map : \E r \in roles : e[1] = RoleId(m, r) /\ e[2] = r.id
          /\ \A r \in roles : \E e \in map : e[1] = RoleId(m, r) /\ e[2] = r.id
      <4>1. ASSUME NEW e \in map
            PROVE  \E r \in roles : e[1] = RoleId(m, r) /\ e[2] = r.id
        <5>1. PICK r \in roles : e = <<RoleId(m, r), r.id>>
          BY <3>3
        <5> QED
          BY <5>1
      <4>2. ASSUME NEW r \in roles
            PROVE  \E e \in map : e[1] = RoleId(m, r) /\ e[2] = r.id
        <5> DEFINE e == <<RoleId(m, r), r.id>>
        <5>1. e \in map
          BY <3>3
        <5>2. e[1] = RoleId(m, r) /\ e[2] = r.id
          OBVIOUS
        <5> HIDE DEF e
        <5> QED
          BY <5>1, <5>2
      <4> QED
        BY <4>1, <4>2
    <3>5. /\ {e[1] : e \in map} = {RoleId(m, r) : r \in roles}
          /\ {e[2] : e \in map} = {r.id : r \in roles}
      <4> QED
        BY ONLY <3>4
    <3> QED
      BY <2>4, <2>5, <2>7, <3>2, <3>4, <3>5 DEF map
  <2>8. ASSUME agents # {}, NEW y \in Receipts, HasRoleMap(y[1], y[2]),
               tree[y[1]][y[2]].content.squad # receipt.squad
        PROVE  agents \cap {e[1] : e \in RoleMap(y[1], y[2])} = {}
    <3>1. y[1] \in Roots /\ y[2] \in Installed(y[1])
      BY DEF Receipts
    <3>2. PICK d2 \in Drafts :
            LET m2 == ManifestDict(d2.manifest)
                p2 == PortableRoster(Loaded(d2.roster))
            IN  /\ tree[y[1]][y[2]].content.squad = m2.squad /\ m2.squad \in AllIds
                /\ \A r \in ActiveRoles(p2) : r.id \in AllIds
                /\ RoleMap(y[1], y[2]) = {<<RoleId(m2, r), r.id>> : r \in ActiveRoles(p2)}
      BY <1>1, <2>8, <3>1, InstalledAgents
    <3> DEFINE m2 == ManifestDict(d2.manifest)
               roles2 == ActiveRoles(PortableRoster(Loaded(d2.roster)))
    <3> HIDE DEF m2, roles2
    <3>3. /\ m2.squad # m.squad /\ m2.squad \in AllIds
          /\ \A r \in roles2 : r.id \in AllIds
          /\ RoleMap(y[1], y[2]) = {<<RoleId(m2, r), r.id>> : r \in roles2}
      BY <2>2, <2>8, <3>2 DEF m2, roles2
    <3>4. ASSUME NEW r \in roles, NEW t \in roles2
          PROVE  RoleId(m, r) # RoleId(m2, t)
      BY <2>6, <3>3 DEF RoleId
    <3> QED
      BY <2>5, <2>8, <3>3, <3>4
  <2> QED
    BY <2>5, <2>7, <2>8 DEF Resolved, agents, active, paths, document, files
<1>2. \A x \in Receipts : x[1] \in Roots /\ x[2] \in Installed(x[1])
  BY DEF Receipts
<1>3. AgentsResolve <=> \A x \in Receipts : Resolved(x[1], x[2])
  BY Zenon DEF AgentsResolve, Resolved
<1>4. ExportInv => AgentsResolve
  BY <1>1, <1>2, <1>3
<1> QED
  BY <1>4, ExportInvariance, PTL
=============================================================================
