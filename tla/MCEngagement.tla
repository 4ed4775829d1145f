---------------------------- MODULE MCEngagement ----------------------------
(* Two squads with a role of the same name.  x works in a worktree, with a     *)
(* sandbox; y at the root, with a workspace that reaches for the ledgers.      *)
EXTENDS Engagement

A == <<<<"src">>, <<"a">>>>
Sandbox == <<Squad, <<"workspaces">>, <<"x">>>>
InSandbox == Append(Sandbox, <<"out">>)
Link == Append(Sandbox, <<"link">>)

Role(id, active, workspace, include, exclude) ==
  [id |-> id, active |-> active, workspace |-> workspace,
   include |-> include, exclude |-> exclude]

MCSquads ==
  [s \in {"one", "two"} |->
     IF s = "one"
       THEN {Role("x", TRUE, Sandbox, {A}, {}), Role("y", TRUE, <<Squad, <<"world">>>>, {A}, {A})}
       ELSE {Role("x", TRUE, Sandbox, {A}, {A}), Role("y", FALSE, <<>>, {A}, {})}]

MCOneSquad == [s \in {"one"} |-> MCSquads[s]]

\* One that names x, and one that names y for the same agent and runs elsewhere.
MCSnapshots ==
  {[destination |-> "user", owner |-> "claude",
    roles |-> [agent \in {"p-x"} |-> Role("x", TRUE, Sandbox, {A}, {})]],
   [destination |-> "project", owner |-> "codex",
    roles |-> [agent \in {"p-x"} |-> Role("y", TRUE, <<>>, {}, {})]]}

MCUnprovable == {Link}

MCTargets ==
  {Plan("x"), Claims("x"), Claims("user"), <<Squad, <<"goal.md">>>>, A, InSandbox, Link}
=============================================================================
