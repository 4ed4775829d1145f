---------------------------- MODULE MCSquadExport ----------------------------
(* Authors' drafts: one squad in many variants, squads whose identifiers are  *)
(* built from each other's or longer than a namespace, all destinations.      *)
EXTENDS SquadExport, TLC

A == <<"a">>
ARole == <<"a", "-", "role">>
LongOne == <<"p", "-", "q", "-", "r">>
LongTwo == <<"p", "-", "q", "-", "s">>
X == <<"x">>
RoleX == <<"role", "-", "x">>
ClaimsX == <<"claims", "-", "x">>

MCDigest(text) == ToString(text)

MCHome == "home"
MCRoots == {"home", "repo"}
MCGitRoots == {"repo"}

Static(path) == path :> [kind |-> "static", text |-> ToString(path)]

MCSourceTree ==
  Static(License) @@ Static(In("hooks", File(<<"permission-request">>, ".sh")))
  @@ Static(In("hooks", File(<<"session-start">>, ".sh")))
  @@ Static(In("hooks", File(<<"user-prompt-submit">>, ".sh")))
  @@ Static(<<Name("skills"), Name("squad-spawn"), <<"spawn", ".sh">>>>)
  @@ Static(<<Name("skills"), Name("secrets"), Name("key")>>)
  @@ Static(<<Name("docs"), Name("guide")>>)

MCExportLicense == Static(License)[License]

Goals(root, squad, role) ==
  [root |-> root,
   text |-> [k \in {<<"goal">>} \cup {<<"role-goal", id>> : id \in {X, RoleX, ClaimsX}} |->
               IF k = <<"goal">> THEN squad ELSE IF k[2] \in {X, ClaimsX} THEN role ELSE {}]]

MCGoalFiles == {Goals(FALSE, {}, {}), Goals(TRUE, {"g"}, {"one"}), Goals(TRUE, {"g"}, {"two"})}

-----------------------------------------------------------------------------
(* Roles and rosters. *)

Reader(id) ==
  [id |-> id, purpose |-> "p", file_ownership |-> [include |-> <<"src">>, exclude |-> <<>>],
   capabilities |-> <<"filesystem.read">>, profile |-> "balanced", effort |-> {},
   active |-> {}, goal_ref |-> {}, environment |-> {},
   provider_overrides |-> {}, onboarded_skills |-> <<>>]

Writer(id) == [Reader(id) EXCEPT !.capabilities = <<"filesystem.read", "filesystem.write">>]
Notebook(id) == [Reader(id) EXCEPT !.capabilities = <<"notebook.edit">>]
Idle(id) == [Reader(id) EXCEPT !.active = {FALSE}, !.goal_ref = {GoalRef(id)}]
WithGoal(id) == [Reader(id) EXCEPT !.goal_ref = {GoalRef(id)}, !.effort = {"high"},
  !.onboarded_skills = <<[name |-> "s", local_path |-> "l", purpose |-> "p",
                          approval_mode |-> "user", kind |-> {}]>>]

LiveEnvironment ==
  [workspace |-> "w", directories |-> <<"d">>, variables |-> [v \in {"VAR"} |-> "value"],
   context |-> <<[source |-> "s", target |-> "t", kind |-> "copy"]>>,
   tools |-> <<[name |-> "n", kind |-> "local", verify |-> {"v"}, install |-> {"i"}]>>]

Provisioned(id) == [Writer(id) EXCEPT !.environment = {LiveEnvironment}]
External(id) == [Reader(id) EXCEPT !.capabilities = <<"external.mcp">>]

Override(r, claude, codex) ==
  [r EXCEPT !.provider_overrides = {[claude |-> claude, codex |-> codex]}]
ClaudeOverride(r, tools, file) ==
  Override(r, {[model |-> {}, tools |-> tools, agent_file |-> file, isolation |-> {}]}, {})
CodexSandbox(r, mode) ==
  Override(r, {}, {[model |-> {}, reasoning_effort |-> {}, sandbox_mode |-> {mode}]})

Roster(roles) ==
  [schema_version |-> {2}, squad_goal_ref |-> SquadGoalRef, execution_mode |-> "multi-use",
   roles |-> roles]

Legacy(tools) ==
  [schema_version |-> {}, squad_goal_ref |-> SquadGoalRef, mode |-> "multi-use",
   roles |-> <<[name |-> X, purpose |-> "p", tools |-> tools, model |-> "sonnet",
                effort |-> {}, active |-> {}, file_scope |-> <<"src">>, role_goal |-> {},
                environment |-> {}, agent_file |-> {}, isolation |-> {}]>>]

Manifest(squad, destination, providers, owner) ==
  [schema_version |-> {2}, squad |-> squad, destination |-> destination,
   execution_mode |-> "multi-use", providers |-> providers, runtime_owner |-> owner,
   export_version |-> "1"]

Both == <<"codex", "claude">>
Draft(manifest, roles) == [manifest |-> manifest, roster |-> Roster(roles)]

-----------------------------------------------------------------------------
(* Drafts. *)

ProjectA == Manifest(A, "project", Both, "claude")

Accepted ==
  {Draft(ProjectA, roles) : roles \in {
     <<WithGoal(X), Idle(RoleX)>>, <<Notebook(RoleX), Provisioned(X)>>,
     <<ClaudeOverride(External(X), <<"mcp__tool">>, {})>>,
     <<ClaudeOverride(Reader(X), <<>>, {"f"})>>, <<CodexSandbox(Writer(X), "workspace-write")>>}}
  \cup {[manifest |-> ProjectA, roster |-> Legacy(<<"Edit", "Read">>)]}

\* Each breaks one rule of the contracts, the adapters or the exporter.
Refused ==
  {Draft(ProjectA, roles) : roles \in {
     <<External(X)>>, <<CodexSandbox(Writer(X), "read-only")>>, <<Idle(X)>>,
     <<WithGoal(ClaimsX)>>, <<[Reader(X) EXCEPT !.goal_ref = {GoalRef(RoleX)}]>>,
     <<Reader(X), Writer(X)>>, <<Override(Reader(X), {}, {})>>,
     <<ClaudeOverride(Reader(X), <<>>, {Unsafe})>>, <<[Reader(X) EXCEPT !.purpose = Blank]>>,
     <<[Reader(X) EXCEPT !.file_ownership.include = <<Unsafe>>]>>}}
  \cup {[manifest |-> ProjectA, roster |-> Legacy(<<"Read", "Read">>)]}
  \cup {Draft(m, <<Reader(X)>>) : m \in {
     Manifest(A, "project", <<"codex">>, "claude"), Manifest(<<"world">>, "user", Both, "claude"),
     [ProjectA EXCEPT !.execution_mode = "evergreen"], [ProjectA EXCEPT !.schema_version = {}]}}

Elsewhere ==
  {Draft(Manifest(A, "user", Both, "codex"), <<WithGoal(X)>>),
   Draft(Manifest(A, "user", <<"claude">>, "claude"), <<Reader(RoleX)>>),
   Draft(Manifest(ARole, "user", Both, "claude"), <<Reader(X)>>),
   Draft(Manifest(ARole, "project", Both, "claude"), <<Reader(X)>>),
   Draft(Manifest(LongOne, "user", Both, "claude"), <<Reader(X)>>),
   Draft(Manifest(LongTwo, "user", Both, "claude"), <<Reader(X)>>)}

Plugins ==
  {Draft(Manifest(A, "plugin", Both, owner), <<Provisioned(X), Idle(RoleX)>>) :
     owner \in {"claude", "codex"}}
  \cup {Draft(Manifest(A, "plugin", <<"codex">>, "codex"), <<Idle(X)>>),
        Draft(Manifest(ARole, "plugin", <<"claude">>, "claude"), <<Writer(X)>>)}

Sessions ==
  {Draft(Manifest(A, "session", <<"codex">>, "codex"), <<Provisioned(X), Idle(RoleX)>>)}

MCDrafts == Accepted \cup Refused \cup Elsewhere \cup Plugins \cup Sessions
=============================================================================
