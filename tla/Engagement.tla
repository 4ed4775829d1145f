----------------------------- MODULE Engagement -----------------------------
(***************************************************************************)
(* A squad at work in one project: roles write files through the           *)
(* permission hook, at the project root or in a worktree of their own;     *)
(* squad-spawn dispatches them and collects what they published; the human *)
(* rules on beliefs, parks the squad and takes up another.  All of them    *)
(* meet only in the files.                                                 *)
(*                                                                         *)
(* A path is a sequence of names, a name a sequence of tokens.  A file is  *)
(* who wrote it, its modification time, the squads whose beliefs it holds  *)
(* and those of them that are marked superseded.  Times are kept where     *)
(* collect compares them.                                                  *)
(***************************************************************************)
EXTENDS Naturals, Sequences, SequencesExt

CONSTANTS
  Squads,      \* squad -> its roster, a set of roles
  SafeNames,   \* role ids that are lowercase kebab (all but some legacy names)
  Isolated,    \* roles that work in a worktree; the others work at the root
  Agents,      \* agent types that ask
  Snapshots,   \* exported snapshots that may be installed
  Targets,     \* paths that roles ask for
  Unprovable,  \* targets outside the place, with ".." or through a symlink
  NoSquad,
  MaxTime      \* bound on the clock

ASSUME EngagementAssumption ==
  NoSquad \notin DOMAIN Squads /\ "root" \notin Isolated /\ MaxTime \in Nat \ {0}

VARIABLES
  squad,      \* the active squad, or NoSquad
  clock,
  files,      \* place -> path -> file; a place is "root" or a worktree's role
  checkout,   \* worktree's role -> the squad whose roster is checked out there
  head,       \* the last commit: the squad whose roster, and the ledgers, it holds
  installed,  \* installed snapshots
  todo,       \* what a running collect still has to look at: pairs of a role and a path
  brought,    \* history: the last collect ended, without error, and since its
              \* start nobody else wrote
  rulings     \* history: <<s, role, b>>, in squad s's ledger of the role the beliefs
              \* of b were ruled superseded, and no other hand can have undone it

vars == <<squad, clock, files, checkout, head, installed, todo, brought, rulings>>

Roles == (UNION {Squads[s] : s \in DOMAIN Squads})
         \cup (UNION {{s.roles[agent] : agent \in DOMAIN s.roles} : s \in Snapshots})
RoleIds == {r.id : r \in Roles}
Places == {"root"} \cup Isolated

Squad == <<".squad">>
Plan(role) == <<Squad, <<"role-plan", role>>>>
Outbox(role, to) == <<Squad, <<"role-comm", role, to>>>>
Claims(owner) == <<Squad, <<"world">>, <<"claims", owner>>>>
Parked(slug, owner) == <<Squad, <<"squads">>, <<slug>>, <<"world">>, <<"claims", owner>>>>

Ledger(place) == {Claims(owner) : owner \in RoleIds} \cap DOMAIN files[place]
Outboxes(place) == {Outbox(role, to) : role, to \in RoleIds} \cap DOMAIN files[place]

-----------------------------------------------------------------------------
(* The permission hook: which role asks. *)

\* The user's snapshots are visible from everywhere, the project's from the root.
Visible(place) == {s \in installed : s.destination = "user" \/ place = "root"}

Live(place) ==
  LET current == IF place = "root" THEN squad ELSE checkout[place]
  IN  IF current = NoSquad THEN {} ELSE Squads[current]

\* Snapshots whose map names the agent; a map is a function from agents to roles.
Answers(place, agent) == {s \in Visible(place) : agent \in DOMAIN s.roles}

\* consider_role_map counts a match, and does not block.
Sound(s, agent) == s.owner = "claude" /\ s.roles[agent].active

\* Mutant of Bound: any sound map binds the agent.
BoundToAny(place, agent) ==
  IF Answers(place, agent) = {}
    THEN {r \in Live(place) : r.id = agent /\ r.active}
    ELSE {s.roles[agent] : s \in {s \in Answers(place, agent) : Sound(s, agent)}}

\* The role an agent acts as: none if several maps or an unsound one name it.
Bound(place, agent) ==
  LET answers == Answers(place, agent)
  IN  IF answers = {}
        THEN {r \in Live(place) : r.id = agent /\ r.active}
        ELSE {s.roles[agent] : s \in {s \in answers : answers = {s} /\ Sound(s, agent)}}

(* The permission hook: what it approves. *)

UnderSquad(path) == path[1] = Squad

\* has_engagement_record
HasRecord(place, role) == role \in SafeNames /\ Plan(role) \in DOMAIN files[place]

\* squad_grant: a role's record, and once it has one its outbox and its ledger.
OwnGrant(place, role, path) ==
  /\ role \in SafeNames
  /\ \/ path = Plan(role)
     \/ /\ HasRecord(place, role)
        /\ \/ \E to \in RoleIds : path = Outbox(role, to)
           \/ path = Claims(role) /\ role \notin {"user", "research"}

\* Mutant of Reserved: the ledgers are not.
ReservedButLedgers(path) ==
  \/ path[2] \in {<<n>> : n \in {"goal.md", "roster.json", "roster.md", "verification.md",
                                 "partner.md"}}
  \/ path[2][1] \in {"role-goal", "role-comm", "role-plan"}

\* squad_grant: never in reach of a workspace.
Reserved(path) ==
  \/ path[2] \in {<<n>> : n \in {"goal.md", "roster.json", "roster.md", "verification.md",
                                 "partner.md"}}
  \/ path[2][1] \in {"role-goal", "role-comm", "role-plan"}
  \/ path[2] \in {<<"world">>, <<"squads">>} /\ Len(path) > 2

\* An empty workspace is none.
SquadGrant(place, r, path) ==
  \/ OwnGrant(place, r.id, path)
  \/ /\ Len(path) > 1 /\ ~Reserved(path)
     /\ r.workspace \notin {<<>>, <<Squad>>} /\ IsPrefix(r.workspace, path)

\* Mutant of WriteApproved: the scope is enough.
WriteUngated(place, r, path) ==
  /\ path \notin Unprovable
  /\ IF UnderSquad(path) THEN SquadGrant(place, r, path) ELSE path \in r.include \ r.exclude

\* Edit and Write: the scope says nothing about .squad, exclusions win.
WriteApproved(place, r, path) ==
  /\ path \notin Unprovable
  /\ IF UnderSquad(path)
       THEN SquadGrant(place, r, path)
       ELSE HasRecord(place, r.id) /\ path \in r.include \ r.exclude

\* Bash: mkdir, touch, cp or ln with harmless options, every operand contained.
ScaffoldApproved(place, r, operands) ==
  /\ HasRecord(place, r.id) /\ r.workspace # <<>>
  /\ operands # {} /\ operands \cap Unprovable = {}
  /\ \A p \in operands : IF UnderSquad(p) THEN SquadGrant(place, r, p)
                                          ELSE IsPrefix(r.workspace, p)

-----------------------------------------------------------------------------
(* Roles at work. *)

Init ==
  /\ squad = NoSquad /\ clock = 1
  /\ files = [place \in Places |-> [p \in {} |-> {}]]
  /\ checkout = [role \in {} |-> {}]
  /\ head = [squad |-> NoSquad, ledgers |-> [p \in {} |-> {}]]
  /\ installed = {}
  /\ todo = {} /\ brought = FALSE /\ rulings = {}

Home(role) == IF role \in Isolated THEN role ELSE "root"
Standing == {"root"} \cup DOMAIN checkout

\* The roles as which an agent may ask, each from the place it works in.
Asking(agent) ==
  {r \in UNION {Bound(place, agent) : place \in Standing} :
     Home(r.id) \in Standing /\ r \in Bound(Home(r.id), agent)}

Blank == [by |-> "nobody", time |-> 0, beliefs |-> {}, ruled |-> {}]
At(place, path) == IF path \in DOMAIN files[place] THEN files[place][path] ELSE Blank

\* The files of a batch are written, over what is there.
Put(place, batch) ==
  [files EXCEPT ![place] = [p \in DOMAIN files[place] \cup DOMAIN batch |->
     IF p \in DOMAIN batch THEN batch[p] ELSE files[place][p]]]

Collected(role) == {Plan(role), Claims(role)}

\* Mutant of Written: the file's time is ahead of the clock.
WrittenAhead(place, role, path) ==
  {[At(place, path) EXCEPT !.by = role, !.time = clock + 1]}

\* What the file may be: the hook looks at the path and not at what is written, so
\* beliefs may come into a ledger or go, and marks with them.
Written(place, role, path) ==
  IF path = Claims(role)
    THEN {[by |-> role, time |-> clock, beliefs |-> b, ruled |-> b \cap marks] :
            b \in SUBSET (At(place, path).beliefs \cup {squad}), marks \in SUBSET DOMAIN Squads}
    ELSE {[Blank EXCEPT !.by = role, !.time = IF path = Plan(role) THEN clock ELSE 0]}

\* Rulings a role may undo by writing: in its ledger here, and, where collect
\* takes it, in whichever squad's ledger it is collected into.
Undone(role, paths) ==
  {x \in rulings : x[2] = role /\ Claims(role) \in paths /\ (x[1] = squad \/ role \in Isolated)}

RoleWrites(r, path) ==
  /\ squad # NoSquad
  /\ WriteApproved(Home(r.id), r, path)
  /\ \E file \in Written(Home(r.id), r.id, path) :
       files' = Put(Home(r.id), [p \in {path} |-> file])
  /\ brought' = FALSE /\ rulings' = rulings \ Undone(r.id, {path})
  /\ UNCHANGED <<squad, clock, checkout, head, installed, todo>>

\* touch stands for the four verbs: a new file, or an old one with a new time.
RoleScaffolds(r, operands) ==
  /\ squad # NoSquad
  /\ ScaffoldApproved(Home(r.id), r, operands)
  /\ files' = Put(Home(r.id), [p \in operands |-> [At(Home(r.id), p) EXCEPT
       !.by = r.id, !.time = IF p \in Collected(r.id) THEN clock ELSE 0]])
  /\ brought' = FALSE /\ rulings' = rulings \ Undone(r.id, operands)
  /\ UNCHANGED <<squad, clock, checkout, head, installed, todo>>

-----------------------------------------------------------------------------
(* squad-spawn. *)

Active(s) == {r.id : r \in {r \in Squads[s] : r.active}}

\* Rulings a commit does not have, for the ledgers of some worktrees.
Missing(made) ==
  {x \in rulings : /\ x[2] \in made /\ Claims(x[2]) \in DOMAIN head.ledgers
                   /\ x[3] \notin head.ledgers[Claims(x[2])].ruled}

\* Unless it follows on from the last dispatch, clears all outboxes and the records
\* of the roles to dispatch, at the root; then spawn.sh makes the missing worktrees,
\* or some of them, from the last commit, and leaves those that exist.  What is
\* checked out has the time of the checkout.
Dispatch(roles, followOn, made) ==
  LET root == files["root"]
      cleared == IF followOn THEN {} ELSE Outboxes("root") \cup {Plan(r) : r \in roles}
      out(role) == {Claims(role)} \cap DOMAIN head.ledgers
  IN  /\ squad # NoSquad /\ todo = {}
      /\ roles \subseteq Active(squad) /\ roles # {}
      /\ made \subseteq (Active(squad) \cap Isolated) \ DOMAIN checkout
      /\ checkout' = [role \in DOMAIN checkout \cup made |->
                        IF role \in made THEN head.squad ELSE checkout[role]]
      /\ files' = [place \in Places |->
           IF place = "root" THEN [p \in DOMAIN root \ cleared |-> root[p]]
           ELSE IF place \notin made THEN files[place]
           ELSE [p \in out(place) |-> [head.ledgers[p] EXCEPT !.time = clock]]]
      /\ brought' = FALSE /\ rulings' = rulings \ Missing(made)
      /\ UNCHANGED <<squad, clock, head, installed, todo>>

\* collect looks at two artifacts of every active role that has a worktree; they do
\* not depend on each other, and the order in which it does is left open.
StartCollect ==
  /\ squad # NoSquad /\ todo = {}
  /\ todo' = UNION {{role} \X Collected(role) : role \in Active(squad) \cap DOMAIN checkout}
  /\ brought' = TRUE
  /\ UNCHANGED <<squad, clock, files, checkout, head, installed, rulings>>

\* Mutants of Newer: copies whatever is there; only what the root has not.
NewerAlways(role, path) == role \in DOMAIN checkout /\ path \in DOMAIN files[role]

NewerIfMissing(role, path) ==
  role \in DOMAIN checkout /\ path \in DOMAIN files[role] \ DOMAIN files["root"]

Newer(role, path) ==
  /\ role \in DOMAIN checkout /\ path \in DOMAIN files[role]
  /\ path \in DOMAIN files["root"] => files[role][path].time > files["root"][path].time

\* cp -p keeps the time.
CopyArtifact(role, path) ==
  /\ <<role, path>> \in todo /\ Newer(role, path)
  /\ files' = Put("root", [p \in {path} |-> files[role][p]])
  /\ todo' = todo \ {<<role, path>>}
  /\ UNCHANGED <<squad, clock, checkout, head, installed, brought, rulings>>

SkipArtifact(role, path) ==
  /\ <<role, path>> \in todo /\ ~Newer(role, path)
  /\ todo' = todo \ {<<role, path>>}
  /\ UNCHANGED <<squad, clock, files, checkout, head, installed, brought, rulings>>

\* The copy fails and collect goes on to the next artifact.
CopyFails(role, path) ==
  /\ <<role, path>> \in todo /\ Newer(role, path)
  /\ todo' = todo \ {<<role, path>>} /\ brought' = FALSE
  /\ UNCHANGED <<squad, clock, files, checkout, head, installed, rulings>>

CollectDies ==
  /\ todo # {} /\ todo' = {} /\ brought' = FALSE
  /\ UNCHANGED <<squad, clock, files, checkout, head, installed, rulings>>

-----------------------------------------------------------------------------
(* The human, through squad-world, squad-goal and squad-export. *)

Tick ==
  /\ clock < MaxTime /\ clock' = clock + 1
  /\ UNCHANGED <<squad, files, checkout, head, installed, todo, brought, rulings>>

\* Adjudication: a losing block of a role is marked superseded, at the root.
Rules(role) ==
  /\ Claims(role) \in Ledger("root")
  /\ \E loser \in At("root", Claims(role)).beliefs :
       /\ files' = Put("root", [p \in {Claims(role)} |->
                     [At("root", p) EXCEPT !.time = clock, !.ruled = @ \cup {loser}]])
       /\ rulings' = rulings \cup {<<squad, role, loser>>}
  /\ brought' = FALSE
  /\ UNCHANGED <<squad, clock, checkout, head, installed, todo>>

\* The roster and some of the ledgers, as they are at the root; git keeps no times.
Commit(ledgers) ==
  LET root == files["root"]
      kept == DOMAIN head.ledgers \ ledgers
  IN  /\ head' = [squad |-> squad, ledgers |-> [p \in kept \cup (ledgers \cap Ledger("root")) |->
           IF p \in ledgers THEN [root[p] EXCEPT !.time = 0] ELSE head.ledgers[p]]]
      /\ UNCHANGED <<squad, clock, files, checkout, installed, todo, brought, rulings>>

\* Not while a project export is installed.  Outboxes are deleted, the ledger
\* moves; records and worktrees stay.
Park ==
  LET root == files["root"]
      kept == DOMAIN root \ (Ledger("root") \cup Outboxes("root"))
      owners == {role \in RoleIds : Claims(role) \in DOMAIN root}
      archived == {Parked(squad, owner) : owner \in owners}
  IN  /\ squad # NoSquad /\ todo = {}
      /\ \A s \in installed : s.destination # "project"
      /\ files' = [files EXCEPT !["root"] = [p \in kept \cup archived |->
           IF p \in archived THEN root[Claims(p[5][2])] ELSE root[p]]]
      /\ squad' = NoSquad /\ brought' = FALSE
      /\ UNCHANGED <<clock, checkout, head, installed, todo, rulings>>

\* Onboards a squad, or switches back to a parked one.
TakeUp(s) ==
  LET root == files["root"]
      owners == {role \in RoleIds : Parked(s, role) \in DOMAIN root}
      kept == DOMAIN root \ {Parked(s, owner) : owner \in owners}
      restored == {Claims(owner) : owner \in owners}
  IN  /\ squad = NoSquad
      /\ files' = [files EXCEPT !["root"] = [p \in kept \cup restored |->
           IF p \in restored THEN root[Parked(s, p[3][2])] ELSE root[p]]]
      /\ squad' = s /\ brought' = FALSE
      /\ UNCHANGED <<clock, checkout, head, installed, todo, rulings>>

Install(s) ==
  /\ installed' = (installed \cup {s}) \ (installed \cap {s})
  /\ UNCHANGED <<squad, clock, files, checkout, head, todo, brought, rulings>>

\* What one scaffolding command names.
Operands == {{p, q} : p, q \in Targets}

Next ==
  \/ \E r \in UNION {Asking(agent) : agent \in Agents} :
       \/ \E path \in Targets : RoleWrites(r, path)
       \/ \E operands \in Operands : RoleScaffolds(r, operands)
  \/ \E roles \in SUBSET RoleIds, made \in SUBSET Isolated, followOn \in BOOLEAN :
       Dispatch(roles, followOn, made)
  \/ StartCollect
  \/ \E role \in RoleIds : \E path \in Collected(role) :
       CopyArtifact(role, path) \/ SkipArtifact(role, path) \/ CopyFails(role, path)
  \/ CollectDies
  \/ Tick
  \/ \E role \in RoleIds : Rules(role)
  \/ \E roles \in SUBSET RoleIds : Commit({Claims(role) : role \in roles})
  \/ Park
  \/ \E s \in DOMAIN Squads : TakeUp(s)
  \/ \E s \in Snapshots : Install(s)

Spec == Init /\ [][Next]_vars

-----------------------------------------------------------------------------
Files == [by : RoleIds, time : 0..clock,
          beliefs : SUBSET DOMAIN Squads, ruled : SUBSET DOMAIN Squads]

TypeOK ==
  /\ squad \in DOMAIN Squads \cup {NoSquad}
  /\ clock \in 1..MaxTime /\ brought \in BOOLEAN
  /\ DOMAIN files = Places
  /\ \A place \in Places : \A p \in DOMAIN files[place] : files[place][p] \in Files
  /\ DOMAIN checkout \subseteq Isolated
  /\ \A role \in DOMAIN checkout : checkout[role] \in DOMAIN Squads \cup {NoSquad}
  /\ DOMAIN head = {"squad", "ledgers"} /\ head.squad \in DOMAIN Squads \cup {NoSquad}
  /\ \A p \in DOMAIN head.ledgers :
       head.ledgers[p] \in Files /\ \E role \in RoleIds : p = Claims(role)
  /\ \A place \in Places \ Standing : DOMAIN files[place] = {}
  /\ installed \subseteq Snapshots
  /\ \A item \in todo : item[1] \in RoleIds /\ item[2] \in Collected(item[1])
  /\ rulings \subseteq (DOMAIN Squads) \X RoleIds \X (DOMAIN Squads)

\* The files by which a role answers for itself, and those no role writes.
Accountable(role) == {Plan(role), Claims(role)} \cup {Outbox(role, to) : to \in RoleIds}
                     \cup {Parked(s, role) : s \in DOMAIN Squads}
SquadWide == {<<Squad, <<n>>>> : n \in {"goal.md", "roster.json", "verification.md", "partner.md"}}
             \cup UNION {{Claims(owner)} \cup {Parked(s, owner) : s \in DOMAIN Squads} :
                            owner \in {"user", "research"}}

\* Whatever workspace and scope the roster declares, and wherever records and
\* ledgers are collected or parked: a record, an outbox, a ledger is by the role
\* it is named after, and no role wrote the squad's own files.
AuthorsAreOwners ==
  \A place \in Places : \A p \in DOMAIN files[place] :
    /\ p \notin SquadWide
    /\ \A role \in RoleIds : p \in Accountable(role) => files[place][p].by = role

\* No two installed squads, and none that Claude does not run, speak for an agent:
\* what is approved outside .squad lies in the scope of every visible role that is
\* mapped to the agent, whichever is installed in between.
DecisionsWithinMandate ==
  \A place \in Standing, agent \in Agents : \A r \in Bound(place, agent), path \in Targets :
    WriteApproved(place, r, path) /\ ~UnderSquad(path) =>
      \A s \in Answers(place, agent) :
        s.owner = "claude" /\ path \in s.roles[agent].include \ s.roles[agent].exclude

\* After a collect that ended well the root has, of each active role's record and
\* ledger, a copy no older than the worktree's.
CollectBrings ==
  brought /\ todo = {} =>
    \A role \in Active(squad) \cap DOMAIN checkout :
      \A p \in Collected(role) \cap DOMAIN files[role] :
        p \in DOMAIN files["root"] /\ files["root"][p].time >= files[role][p].time

\* Where a squad's ledger of a role lies.
Kept(s, role) == IF s = squad THEN Claims(role) ELSE Parked(s, role)

\* A ruling stands, through dispatches, collects that fail or die, older copies in
\* worktrees, parking and switching, until its role writes the ledger or a worktree is
\* made from a commit that has the ledger without the mark.
RulingsStand ==
  \A x \in rulings :
    Kept(x[1], x[2]) \in DOMAIN files["root"] /\ x[3] \in files["root"][Kept(x[1], x[2])].ruled

\* What lies in a worktree that has no record; its ledger may have been committed.
Unrecorded(role) ==
  IF Plan(role) \in DOMAIN files[role] THEN {} ELSE DOMAIN files[role] \ Ledger(role)

\* In its worktree a role leaves, before its record, nothing outside .squad, and
\* there nothing but files of its workspace.
OnlySandboxUnrecorded ==
  \A role \in Isolated : \A p \in Unrecorded(role) :
    /\ UnderSquad(p)
    /\ \E r \in Roles : r.id = role /\ r.workspace # <<>> /\ IsPrefix(r.workspace, p)

\* squad-goal/SKILL.md:117: nothing merges two squads' belief ledgers.  Violated:
\* a worktree outlives its squad, and collect brings its ledger to the squad that
\* has a role of the same name.
LedgersStayApart ==
  \A p \in Ledger("root") : files["root"][p].beliefs \subseteq {squad}
=============================================================================
