-------------------------- MODULE Engagement_proofs --------------------------
(***************************************************************************)
(* Proofs about Engagement, for every set of squads, rosters, snapshots,   *)
(* agents and targets: what the permission hook approves and collect,      *)
(* parking and taking up carry around keeps every record, outbox and       *)
(* ledger with the role it is named after; collect brings what it should;  *)
(* a ruling stands until its role, or a commit without it, undoes it.      *)
(***************************************************************************)
EXTENDS Engagement, TLAPS

-----------------------------------------------------------------------------
(* Paths. *)

\* The paths of the contract say whose they are.
LEMMA PathsNameOwners ==
  ASSUME NEW a, NEW b
  PROVE  /\ Plan(a) = Plan(b) => a = b
         /\ Claims(a) = Claims(b) => a = b
         /\ \A c, d : Outbox(a, c) = Outbox(b, d) => a = b
         /\ \A s, t : Parked(s, a) = Parked(t, b) => a = b /\ s = t
BY DEF Plan, Claims, Outbox, Parked

\* No path is of two kinds.
LEMMA KindsOfPaths ==
  ASSUME NEW a, NEW b, NEW c, NEW s
  PROVE  /\ Plan(a) # Claims(b) /\ Plan(a) # Outbox(b, c) /\ Plan(a) # Parked(s, b)
         /\ Claims(a) # Outbox(b, c) /\ Claims(a) # Parked(s, b)
         /\ Outbox(a, c) # Parked(s, b)
BY DEF Plan, Claims, Outbox, Parked

\* What no role writes is of no role.
LEMMA SquadWidePaths ==
  ASSUME NEW a, NEW b, NEW s, NEW n \in {"goal.md", "roster.json", "verification.md", "partner.md"}
  PROVE  <<Squad, <<n>>>> \notin {Plan(a), Outbox(a, b), Claims(a), Parked(s, a)}
BY DEF Plan, Claims, Outbox, Parked

\* Ledgers of roles, parked or not, are none of the squad's files.
LEMMA LedgersNotSquadWide ==
  ASSUME NEW owner, owner \notin {"user", "research"}, NEW slug
  PROVE  Claims(owner) \notin SquadWide /\ Parked(slug, owner) \notin SquadWide
<1>1. ASSUME NEW n PROVE <<Squad, <<n>>>> # Claims(owner) /\ <<Squad, <<n>>>> # Parked(slug, owner)
  BY DEF Claims, Parked
<1>2. ASSUME NEW other \in {"user", "research"}, NEW s
      PROVE  /\ Claims(owner) # Claims(other) /\ Claims(owner) # Parked(s, other)
             /\ Parked(slug, owner) # Claims(other) /\ Parked(slug, owner) # Parked(s, other)
  <2>1. owner # other
    OBVIOUS
  <2> QED
    BY <2>1 DEF Claims, Parked
<1> QED
  BY <1>1, <1>2 DEF SquadWide

\* A path is of one role at most.
LEMMA OneAccountable ==
  ASSUME NEW a, NEW b, NEW p \in Accountable(a), p \in Accountable(b)
  PROVE  a = b
BY PathsNameOwners, KindsOfPaths DEF Accountable

\* Parts of a path.
LEMMA PathParts ==
  ASSUME NEW a, NEW b, NEW s
  PROVE  /\ Plan(a)[1] = Squad /\ Plan(a)[2] = <<"role-plan", a>> /\ Len(Plan(a)) = 2
         /\ Outbox(a, b)[1] = Squad /\ Outbox(a, b)[2] = <<"role-comm", a, b>>
         /\ Claims(a)[1] = Squad /\ Claims(a)[2] = <<"world">> /\ Len(Claims(a)) = 3
         /\ Claims(a)[3][2] = a
         /\ Parked(s, a)[1] = Squad /\ Parked(s, a)[2] = <<"squads">>
         /\ Len(Parked(s, a)) = 5 /\ Parked(s, a)[5][2] = a
BY DEF Plan, Claims, Outbox, Parked

-----------------------------------------------------------------------------
(* Grants. *)

\* No workspace reaches a path that names a role.
LEMMA NamedAreReserved ==
  ASSUME NEW a, NEW b, NEW s
  PROVE  Reserved(Plan(a)) /\ Reserved(Outbox(a, b)) /\ Reserved(Claims(a)) /\ Reserved(Parked(s, a))
<1>1. Reserved(Plan(a))
  <2>1. Plan(a)[2][1] = "role-plan"
    BY DEF Plan
  <2> QED
    BY <2>1 DEF Reserved
<1>2. Reserved(Outbox(a, b))
  <2>1. Outbox(a, b)[2][1] = "role-comm"
    BY DEF Outbox
  <2> QED
    BY <2>1 DEF Reserved
<1>3. Reserved(Claims(a))
  <2>1. Claims(a)[2] \in {<<"world">>, <<"squads">>}
    BY PathParts
  <2>2. Len(Claims(a)) > 2
    BY DEF Claims
  <2> QED
    BY <2>1, <2>2, Zenon DEF Reserved
<1>4. Reserved(Parked(s, a))
  <2>1. Parked(s, a)[2] \in {<<"world">>, <<"squads">>}
    BY PathParts
  <2>2. Len(Parked(s, a)) > 2
    BY DEF Parked
  <2> QED
    BY <2>1, <2>2, Zenon DEF Reserved
<1> QED
  BY <1>1, <1>2, <1>3, <1>4

\* Whatever its workspace, a role is granted, of the paths that name a role, only
\* its own, and none of the squad's.
LEMMA GrantsOwn ==
  ASSUME NEW place, NEW r, r.id \in RoleIds, NEW path, UnderSquad(path),
         SquadGrant(place, r, path)
  PROVE  /\ path \notin SquadWide
         /\ \A role \in RoleIds : path \in Accountable(role) => role = r.id
<1>1. CASE OwnGrant(place, r.id, path)
  <2>1. path \in Accountable(r.id)
    BY <1>1 DEF OwnGrant, Accountable
  <2>2. path \notin SquadWide
    BY <1>1, PathsNameOwners, KindsOfPaths, SquadWidePaths DEF OwnGrant, SquadWide
  <2> QED
    BY <2>1, <2>2, OneAccountable
<1>2. CASE Len(path) > 1 /\ ~Reserved(path)
  <2>1. ASSUME NEW role PROVE path \notin Accountable(role)
    BY <1>2, NamedAreReserved DEF Accountable
  <2>2. path \notin SquadWide
    <3>1. ASSUME NEW n \in {"goal.md", "roster.json", "verification.md", "partner.md"}
          PROVE  path # <<Squad, <<n>>>>
      BY <1>2 DEF Reserved
    <3>2. ASSUME NEW owner, NEW s PROVE path # Claims(owner) /\ path # Parked(s, owner)
      BY <1>2, NamedAreReserved
    <3> QED
      BY <3>1, <3>2 DEF SquadWide
  <2> QED
    BY <2>1, <2>2
<1> QED
  BY <1>1, <1>2 DEF SquadGrant

-----------------------------------------------------------------------------
(* The inductive invariant: between squads the root has no ledger and no    *)
(* collect runs, a collect has, of what a worktree holds, brought what it   *)
(* need not look at any more, and what is committed is by its owner.        *)

Unattended == squad = NoSquad => Ledger("root") = {} /\ todo = {}

Brought(role, p) ==
  p \in DOMAIN files["root"] /\ files["root"][p].time >= files[role][p].time

Bringing ==
  brought =>
    /\ squad # NoSquad
    /\ \A role \in Active(squad) \cap DOMAIN checkout :
         \A p \in Collected(role) \cap DOMAIN files[role] :
           <<role, p>> \in todo \/ Brought(role, p)

Committed ==
  \A p \in DOMAIN head.ledgers :
    /\ p \notin SquadWide
    /\ \A role \in RoleIds : p \in Accountable(role) => head.ledgers[p].by = role

EngagementInv ==
  /\ TypeOK /\ AuthorsAreOwners /\ Unattended /\ Bringing /\ Committed
  /\ OnlySandboxUnrecorded

\* A role that asks is one of a roster or a snapshot, and has its place.
LEMMA AskingRole ==
  ASSUME TypeOK, NEW agent, NEW r \in Asking(agent)
  PROVE  /\ r \in Roles /\ r.id \in RoleIds
         /\ Home(r.id) \in Standing /\ Home(r.id) \in Places
         /\ Home(r.id) # "root" => Home(r.id) = r.id
<1>1. Home(r.id) \in Standing /\ r \in Bound(Home(r.id), agent)
  BY DEF Asking
<1> DEFINE place == Home(r.id)
<1>2. r \in Roles
  <2>1. CASE Answers(place, agent) = {}
    <3>1. r \in Live(place)
      BY <1>1, <2>1 DEF Bound
    <3>2. \E s \in DOMAIN Squads : r \in Squads[s]
      BY <1>1, <3>1, EngagementAssumption DEF Live, TypeOK, Standing
    <3> QED
      BY <3>2 DEF Roles
  <2>2. CASE Answers(place, agent) # {}
    <3>1. PICK s \in Answers(place, agent) : r = s.roles[agent]
      BY <1>1, <2>2 DEF Bound
    <3>2. s \in Snapshots /\ agent \in DOMAIN s.roles
      BY <3>1 DEF Answers, Visible, TypeOK
    <3>3. r \in {s.roles[a] : a \in DOMAIN s.roles}
      BY <3>1, <3>2
    <3>4. r \in UNION {{t.roles[a] : a \in DOMAIN t.roles} : t \in Snapshots}
      BY <3>2, <3>3
    <3> QED
      BY <3>4 DEF Roles
  <2> QED
    BY <2>1, <2>2
<1> QED
  BY <1>1, <1>2 DEF RoleIds, Home, Standing, Places, TypeOK

\* Every place that stands is one, and a worktree is not the root.
LEMMA StandingPlaces ==
  ASSUME TypeOK
  PROVE  Standing \subseteq Places /\ DOMAIN checkout \subseteq Isolated /\ "root" \notin Isolated
BY EngagementAssumption DEF Standing, Places, TypeOK

\* What Put leaves alone, and what it stores.
LEMMA PutEffect ==
  ASSUME TypeOK, NEW place \in Places, NEW batch, files' = Put(place, batch)
  PROVE  /\ DOMAIN files' = Places
         /\ \A other \in Places \ {place} : files'[other] = files[other]
         /\ DOMAIN files'[place] = DOMAIN files[place] \cup DOMAIN batch
         /\ \A p \in DOMAIN batch : files'[place][p] = batch[p]
         /\ \A p \in DOMAIN files[place] \ DOMAIN batch : files'[place][p] = files[place][p]
BY DEF Put, TypeOK

\* Where Put changed a file of the root, it stored one.
LEMMA PutAtRoot ==
  ASSUME TypeOK, NEW place \in Places, NEW batch, files' = Put(place, batch),
         NEW p \in DOMAIN files["root"], files'["root"][p] # files["root"][p]
  PROVE  place = "root" /\ p \in DOMAIN batch /\ files'["root"][p] = batch[p]
<1>1. "root" \in Places
  BY DEF Places
<1>2. place = "root"
  BY <1>1, PutEffect
<1> QED
  BY <1>2, PutEffect

\* What is, or is not yet, at a path.
LEMMA AtType ==
  ASSUME TypeOK, NEW place \in Places, NEW p
  PROVE  /\ At(place, p) \in [by : RoleIds \cup {"nobody"}, time : 0..clock,
                               beliefs : SUBSET DOMAIN Squads, ruled : SUBSET DOMAIN Squads]
         /\ p \in DOMAIN files[place] => At(place, p) = files[place][p]
<1>1. CASE p \in DOMAIN files[place]
  BY <1>1 DEF At, TypeOK, Files
<1>2. CASE p \notin DOMAIN files[place]
  BY <1>2, EngagementAssumption DEF At, Blank, TypeOK
<1> QED
  BY <1>1, <1>2

\* Times are numbers.
LEMMA TimesAreNumbers ==
  ASSUME TypeOK, NEW place \in Places, NEW p \in DOMAIN files[place]
  PROVE  files[place][p].time \in Nat
<1>1. files[place][p] \in Files /\ clock \in Nat
  BY EngagementAssumption DEF TypeOK
<1> QED
  BY <1>1 DEF Files

\* The contract's paths lie under .squad, where no scope reaches.
LEMMA ContractUnderSquad ==
  ASSUME NEW p
  PROVE  /\ \A role : p \in Accountable(role) => UnderSquad(p)
         /\ p \in SquadWide => UnderSquad(p)
<1>1. ASSUME NEW role, p \in Accountable(role)
      PROVE  UnderSquad(p)
  BY <1>1 DEF Accountable, UnderSquad, Plan, Claims, Outbox, Parked
<1>2. ASSUME p \in SquadWide
      PROVE  UnderSquad(p)
  BY <1>2 DEF SquadWide, UnderSquad, Claims, Parked
<1> QED
  BY <1>1, <1>2

-----------------------------------------------------------------------------
(* Roles at work. *)

\* What a role may leave without a record: the record itself, and files of its sandbox.
Ungated(r, p) ==
  p = Plan(r.id) \/ (UnderSquad(p) /\ r.workspace # <<>> /\ IsPrefix(r.workspace, p))

\* Approved files of one role, stored in its place, keep the invariant.
LEMMA WorkKeepsInv ==
  ASSUME EngagementInv, squad # NoSquad, NEW agent, NEW r \in Asking(agent), NEW batch,
         files' = Put(Home(r.id), batch),
         \A p \in DOMAIN batch : batch[p] \in Files /\ batch[p].by = r.id,
         \A p \in DOMAIN batch : UnderSquad(p) => SquadGrant(Home(r.id), r, p),
         HasRecord(Home(r.id), r.id) \/ \A p \in DOMAIN batch : Ungated(r, p),
         brought' = FALSE, rulings' \subseteq rulings,
         UNCHANGED <<squad, clock, checkout, head, installed, todo>>
  PROVE  EngagementInv'
<1> DEFINE place == Home(r.id)
<1>1. TypeOK
  BY DEF EngagementInv
<1>2. /\ r \in Roles /\ r.id \in RoleIds /\ place \in Standing /\ place \in Places
      /\ place # "root" => place = r.id
  BY <1>1, AskingRole
<1>3. /\ DOMAIN files' = Places
      /\ \A other \in Places \ {place} : files'[other] = files[other]
      /\ DOMAIN files'[place] = DOMAIN files[place] \cup DOMAIN batch
      /\ \A p \in DOMAIN batch : files'[place][p] = batch[p]
      /\ \A p \in DOMAIN files[place] \ DOMAIN batch : files'[place][p] = files[place][p]
  BY <1>1, <1>2, PutEffect
<1>4. TypeOK'
  <2>1. Files' = Files
    BY DEF Files
  <2>2. \A other \in Places : \A p \in DOMAIN files'[other] : files'[other][p] \in Files
    BY <1>1, <1>3 DEF TypeOK
  <2>3. \A other \in Places \ Standing : DOMAIN files'[other] = {}
    BY <1>1, <1>2, <1>3 DEF TypeOK
  <2> QED
    BY <1>1, <1>3, <2>1, <2>2, <2>3 DEF TypeOK, Standing
<1>5. AuthorsAreOwners'
  <2> SUFFICES ASSUME NEW other \in Places, NEW p \in DOMAIN files'[other]
               PROVE  /\ p \notin SquadWide
                      /\ \A role \in RoleIds : p \in Accountable(role) => files'[other][p].by = role
    BY DEF AuthorsAreOwners
  <2>1. CASE other = place /\ p \in DOMAIN batch
    <3>1. files'[other][p].by = r.id
      BY <1>3, <2>1
    <3>2. CASE UnderSquad(p)
      BY <1>2, <2>1, <3>1, <3>2, GrantsOwn
    <3>3. CASE ~UnderSquad(p)
      BY <3>3, ContractUnderSquad
    <3> QED
      BY <3>2, <3>3
  <2>2. CASE ~(other = place /\ p \in DOMAIN batch)
    <3>1. p \in DOMAIN files[other] /\ files'[other][p] = files[other][p]
      BY <1>3, <2>2
    <3> QED
      BY <3>1 DEF EngagementInv, AuthorsAreOwners
  <2> QED
    BY <2>1, <2>2
<1>6. Unattended' /\ Bringing' /\ Committed'
  BY DEF EngagementInv, Unattended, Bringing, Committed
<1>7. OnlySandboxUnrecorded'
  <2> SUFFICES ASSUME NEW role \in Isolated, NEW p \in Unrecorded(role)'
               PROVE  /\ UnderSquad(p)
                      /\ \E r2 \in Roles : r2.id = role /\ r2.workspace # <<>>
                                           /\ IsPrefix(r2.workspace, p)
    BY DEF OnlySandboxUnrecorded
  <2>1. /\ role \in Places /\ role # "root"
        /\ Plan(role) \notin DOMAIN files'[role] /\ p \in DOMAIN files'[role]
        /\ p \notin {Claims(owner) : owner \in RoleIds}
    BY EngagementAssumption DEF Unrecorded, Ledger, Places
  <2>2. Plan(role) \notin DOMAIN files[role]
    BY <1>3, <2>1
  <2>3. CASE p \in DOMAIN files[role]
    BY <2>1, <2>2, <2>3 DEF EngagementInv, OnlySandboxUnrecorded, Unrecorded, Ledger
  <2>4. CASE p \notin DOMAIN files[role]
    <3>1. role = place /\ place = r.id /\ p \in DOMAIN batch
      BY <1>2, <1>3, <2>1, <2>4
    <3>2. ~HasRecord(place, r.id) /\ p # Plan(r.id)
      BY <2>1, <2>2, <3>1 DEF HasRecord
    <3> QED
      BY <1>2, <3>1, <3>2 DEF Ungated
  <2> QED
    BY <2>3, <2>4
<1> QED
  BY <1>4, <1>5, <1>6, <1>7 DEF EngagementInv

\* What a role may write is a file of its own.
LEMMA WrittenIsFile ==
  ASSUME TypeOK, squad \in DOMAIN Squads, NEW place \in Places, NEW role \in RoleIds, NEW path,
         NEW file \in Written(place, role, path)
  PROVE  file \in Files /\ file.by = role
<1>1. clock \in Nat /\ clock \in 0..clock /\ 0 \in 0..clock
  BY EngagementAssumption DEF TypeOK
<1>2. At(place, path).beliefs \cup {squad} \subseteq DOMAIN Squads
  BY AtType
<1>3. CASE path = Claims(role)
  <2>1. PICK b \in SUBSET (At(place, path).beliefs \cup {squad}), marks \in SUBSET DOMAIN Squads :
          file = [by |-> role, time |-> clock, beliefs |-> b, ruled |-> b \cap marks]
    BY <1>3 DEF Written
  <2> QED
    BY <1>1, <1>2, <2>1 DEF Files
<1>4. CASE path # Claims(role)
  <2>1. file = [Blank EXCEPT !.by = role, !.time = IF path = Plan(role) THEN clock ELSE 0]
    BY <1>4 DEF Written
  <2> QED
    BY <1>1, <2>1 DEF Files, Blank
<1> QED
  BY <1>3, <1>4

LEMMA RoleWritesKeepsInv ==
  ASSUME EngagementInv, NEW agent, NEW r \in Asking(agent), NEW path, RoleWrites(r, path)
  PROVE  EngagementInv'
<1>1. /\ squad # NoSquad /\ WriteApproved(Home(r.id), r, path)
      /\ brought' = FALSE /\ rulings' \subseteq rulings
      /\ UNCHANGED <<squad, clock, checkout, head, installed, todo>>
  BY DEF RoleWrites
<1> DEFINE place == Home(r.id)
<1>2. TypeOK /\ squad \in DOMAIN Squads
  BY <1>1 DEF EngagementInv, TypeOK
<1>3. r.id \in RoleIds /\ place \in Places
  BY <1>2, AskingRole
<1>4. PICK file \in Written(place, r.id, path) : files' = Put(place, [p \in {path} |-> file])
  BY DEF RoleWrites
<1> DEFINE batch == [p \in {path} |-> file]
<1>5. \A p \in DOMAIN batch : batch[p] \in Files /\ batch[p].by = r.id
  BY <1>2, <1>3, <1>4, WrittenIsFile
<1>6. \A p \in DOMAIN batch : UnderSquad(p) => SquadGrant(place, r, p)
  BY <1>1 DEF WriteApproved
<1>7. HasRecord(place, r.id) \/ \A p \in DOMAIN batch : Ungated(r, p)
  BY <1>1 DEF WriteApproved, SquadGrant, OwnGrant, Ungated
<1>8. files' = Put(place, batch)
  BY <1>4
<1> HIDE DEF batch
<1> QED
  BY <1>1, <1>5, <1>6, <1>7, <1>8, WorkKeepsInv

LEMMA RoleScaffoldsKeepsInv ==
  ASSUME EngagementInv, NEW agent, NEW r \in Asking(agent), NEW operands,
         RoleScaffolds(r, operands)
  PROVE  EngagementInv'
<1> DEFINE Touch(place, id, p) ==
             [At(place, p) EXCEPT !.by = id, !.time = IF p \in Collected(id) THEN clock ELSE 0]
           place == Home(r.id)
           batch == [p \in operands |-> Touch(place, r.id, p)]
<1>1. /\ squad # NoSquad /\ ScaffoldApproved(place, r, operands)
      /\ files' = Put(place, batch)
      /\ brought' = FALSE /\ rulings' \subseteq rulings
      /\ UNCHANGED <<squad, clock, checkout, head, installed, todo>>
  BY DEF RoleScaffolds
<1>2. TypeOK
  BY DEF EngagementInv
<1>3. r.id \in RoleIds /\ place \in Places
  BY <1>2, AskingRole
<1>4. \A p \in DOMAIN batch : batch[p] \in Files /\ batch[p].by = r.id
  <2>1. clock \in Nat
    BY <1>2, EngagementAssumption DEF TypeOK
  <2>2. \A p : At(place, p) \in [by : RoleIds \cup {"nobody"}, time : 0..clock,
                                 beliefs : SUBSET DOMAIN Squads, ruled : SUBSET DOMAIN Squads]
    BY <1>2, <1>3, AtType
  <2> SUFFICES ASSUME NEW p \in operands
               PROVE  Touch(place, r.id, p) \in Files /\ Touch(place, r.id, p).by = r.id
    OBVIOUS
  <2>3. (IF p \in Collected(r.id) THEN clock ELSE 0) \in 0..clock
    BY <2>1
  <2> QED
    BY <1>3, <2>2, <2>3 DEF Files
<1>5. \A p \in DOMAIN batch : UnderSquad(p) => SquadGrant(place, r, p)
  BY <1>1 DEF ScaffoldApproved
<1>6. HasRecord(place, r.id)
  BY <1>1 DEF ScaffoldApproved
<1> QED
  BY <1>1, <1>4, <1>5, <1>6, WorkKeepsInv

-----------------------------------------------------------------------------
(* squad-spawn. *)

\* Active roles are roles.
LEMMA ActiveRoles ==
  ASSUME NEW s \in DOMAIN Squads
  PROVE  Active(s) \subseteq RoleIds
<1>1. \A r \in Squads[s] : r \in Roles
  BY DEF Roles
<1> QED
  BY <1>1 DEF Active, RoleIds

LEMMA DispatchKeepsInv ==
  ASSUME EngagementInv, NEW roles, NEW followOn, NEW made, Dispatch(roles, followOn, made)
  PROVE  EngagementInv'
<1> DEFINE root == files["root"]
           cleared == IF followOn THEN {} ELSE Outboxes("root") \cup {Plan(r) : r \in roles}
           out(role) == {Claims(role)} \cap DOMAIN head.ledgers
<1>1. TypeOK /\ squad \in DOMAIN Squads /\ clock \in Nat
  BY EngagementAssumption DEF EngagementInv, TypeOK, Dispatch
<1>2. /\ made \subseteq Isolated /\ made \subseteq RoleIds
      /\ made \cap DOMAIN checkout = {} /\ "root" \notin Isolated /\ "root" \in Places
  BY <1>1, ActiveRoles, EngagementAssumption DEF Dispatch, Places
<1>3. /\ DOMAIN checkout' = DOMAIN checkout \cup made
      /\ \A role \in DOMAIN checkout' : checkout'[role] \in DOMAIN Squads \cup {NoSquad}
  BY <1>1 DEF Dispatch, TypeOK
<1>4. /\ DOMAIN files' = Places
      /\ DOMAIN files'["root"] = DOMAIN root \ cleared
      /\ \A p \in DOMAIN root \ cleared : files'["root"][p] = root[p]
      /\ \A place \in Places \ (made \cup {"root"}) : files'[place] = files[place]
      /\ \A place \in made : /\ DOMAIN files'[place] = out(place)
                             /\ \A p \in out(place) :
                                  files'[place][p] = [head.ledgers[p] EXCEPT !.time = clock]
  BY <1>2 DEF Dispatch, Places
<1>5. /\ UNCHANGED <<squad, clock, head, installed, todo>> /\ brought' = FALSE
      /\ rulings' \subseteq rulings
  BY DEF Dispatch
<1>6. \A p \in DOMAIN head.ledgers :
        /\ [head.ledgers[p] EXCEPT !.time = clock] \in Files
        /\ [head.ledgers[p] EXCEPT !.time = clock].by = head.ledgers[p].by
  <2>1. ASSUME NEW p \in DOMAIN head.ledgers PROVE head.ledgers[p] \in Files
    BY <1>1 DEF TypeOK
  <2>2. clock \in 0..clock
    BY <1>1
  <2> QED
    BY <2>1, <2>2 DEF Files
<1>7. TypeOK'
  <2>1. Files' = Files /\ Standing' = Standing \cup made
    BY <1>3, <1>5 DEF Files, Standing
  <2>2. ASSUME NEW place \in Places, NEW p \in DOMAIN files'[place]
        PROVE  files'[place][p] \in Files
    <3>1. CASE place = "root"
      BY <1>1, <1>2, <1>4, <3>1 DEF TypeOK
    <3>2. CASE place \in made
      <4>1. p \in out(place) /\ files'[place][p] = [head.ledgers[p] EXCEPT !.time = clock]
        BY <1>4, <3>2
      <4>2. p \in DOMAIN head.ledgers
        BY <4>1
      <4> QED
        BY <1>6, <4>1, <4>2
    <3>3. CASE place \notin made \cup {"root"}
      BY <1>1, <1>4, <3>3 DEF TypeOK
    <3> QED
      BY <3>1, <3>2, <3>3
  <2>3. \A place \in Places \ Standing' : DOMAIN files'[place] = {}
    BY <1>1, <1>4, <2>1 DEF TypeOK, Standing
  <2>4. DOMAIN checkout' \subseteq Isolated
    BY <1>1, <1>2, <1>3 DEF TypeOK
  <2> QED
    BY <1>1, <1>3, <1>4, <1>5, <2>1, <2>2, <2>3, <2>4 DEF TypeOK
<1>8. AuthorsAreOwners'
  <2> SUFFICES ASSUME NEW place \in Places, NEW p \in DOMAIN files'[place]
               PROVE  /\ p \notin SquadWide
                      /\ \A role \in RoleIds : p \in Accountable(role) => files'[place][p].by = role
    BY DEF AuthorsAreOwners
  <2>1. \/ p \in DOMAIN files[place] /\ files'[place][p] = files[place][p]
        \/ p \in DOMAIN head.ledgers /\ files'[place][p].by = head.ledgers[p].by
    BY <1>4, <1>6
  <2> QED
    BY <1>2, <2>1 DEF EngagementInv, AuthorsAreOwners, Committed
<1>9. Unattended' /\ Bringing' /\ Committed'
  BY <1>1, <1>5, EngagementAssumption DEF EngagementInv, Unattended, Bringing, Committed
<1>10. OnlySandboxUnrecorded'
  <2>1. ASSUME NEW role \in Isolated PROVE Unrecorded(role)' \subseteq Unrecorded(role)
    <3>1. CASE role \in made
      <4>1. DOMAIN files'[role] \subseteq {Claims(owner) : owner \in RoleIds}
        BY <1>2, <1>4, <3>1
      <4> QED
        BY <4>1 DEF Unrecorded, Ledger
    <3>2. CASE role \notin made
      BY <1>2, <1>4, <2>1, <3>2 DEF Unrecorded, Ledger, Places
    <3> QED
      BY <3>1, <3>2
  <2> QED
    BY <2>1 DEF EngagementInv, OnlySandboxUnrecorded
<1> QED
  BY <1>7, <1>8, <1>9, <1>10 DEF EngagementInv

LEMMA StartCollectKeepsInv ==
  ASSUME EngagementInv, StartCollect
  PROVE  EngagementInv'
<1>1. /\ UNCHANGED <<squad, clock, files, checkout, head, installed, rulings>> /\ squad # NoSquad
      /\ todo' = UNION {{role} \X Collected(role) : role \in Active(squad) \cap DOMAIN checkout}
  BY DEF StartCollect
<1>2. \A role \in Active(squad) \cap DOMAIN checkout : \A p \in Collected(role) :
        <<role, p>> \in todo'
  BY <1>1
<1>3. \A item \in todo' : item[1] \in RoleIds /\ item[2] \in Collected(item[1])
  BY <1>1, ActiveRoles DEF EngagementInv, TypeOK
<1>4. TypeOK'
  BY <1>1, <1>3 DEF EngagementInv, TypeOK, StartCollect, Files, Standing
<1>5. Bringing'
  BY <1>1, <1>2 DEF Bringing
<1>6. AuthorsAreOwners' /\ OnlySandboxUnrecorded' /\ Unattended' /\ Committed'
  BY <1>1 DEF EngagementInv, AuthorsAreOwners, OnlySandboxUnrecorded, Unrecorded, Ledger, Unattended,
             Committed
<1> QED
  BY <1>4, <1>5, <1>6 DEF EngagementInv

\* The copy takes the role's own artifact, and leaves the root's no older than it.
LEMMA CopyKeepsInv ==
  ASSUME EngagementInv, NEW role \in RoleIds, NEW path \in Collected(role),
         CopyArtifact(role, path)
  PROVE  EngagementInv'
<1>1. /\ role \in DOMAIN checkout /\ path \in DOMAIN files[role] /\ <<role, path>> \in todo
      /\ files' = Put("root", [p \in {path} |-> files[role][p]])
      /\ todo' = todo \ {<<role, path>>}
      /\ UNCHANGED <<squad, clock, checkout, head, installed, brought, rulings>>
      /\ path \in DOMAIN files["root"] => files[role][path].time > files["root"][path].time
  BY DEF CopyArtifact, Newer
<1>2. TypeOK /\ role \in Isolated /\ role # "root" /\ role \in Places /\ "root" \in Places
  BY <1>1, EngagementAssumption DEF EngagementInv, TypeOK, Places
<1>3. /\ DOMAIN files' = Places
      /\ \A other \in Places \ {"root"} : files'[other] = files[other]
      /\ DOMAIN files'["root"] = DOMAIN files["root"] \cup {path}
      /\ files'["root"][path] = files[role][path]
      /\ \A p \in DOMAIN files["root"] \ {path} : files'["root"][p] = files["root"][p]
  <2> DEFINE batch == [p \in {path} |-> files[role][p]]
  <2>1. DOMAIN batch = {path} /\ batch[path] = files[role][path] /\ files' = Put("root", batch)
    BY <1>1
  <2> HIDE DEF batch
  <2> QED
    BY <1>2, <2>1, PutEffect
<1>4. \A place \in Places : \A p \in DOMAIN files'[place] :
        \/ p \in DOMAIN files[place] /\ files'[place][p] = files[place][p]
        \/ p \in DOMAIN files[role] /\ files'[place][p] = files[role][p]
  BY <1>1, <1>3
<1>5. TypeOK'
  <2>1. Files' = Files /\ Standing' = Standing /\ "root" \in Standing
    BY <1>1 DEF Files, Standing
  <2>2. \A place \in Places : \A p \in DOMAIN files'[place] : files'[place][p] \in Files
    BY <1>2, <1>4 DEF TypeOK
  <2>3. \A place \in Places \ Standing' : DOMAIN files'[place] = {}
    BY <1>2, <1>3, <2>1 DEF TypeOK
  <2> QED
    BY <1>1, <1>2, <1>3, <2>1, <2>2, <2>3 DEF TypeOK
<1>6. AuthorsAreOwners'
  BY <1>2, <1>4 DEF EngagementInv, AuthorsAreOwners
<1>7. OnlySandboxUnrecorded'
  BY <1>2, <1>3, EngagementAssumption
     DEF EngagementInv, OnlySandboxUnrecorded, Unrecorded, Ledger, Places
<1>8. Unattended' /\ Committed'
  BY <1>1 DEF EngagementInv, Unattended, Committed
<1>9. Bringing'
  <2> SUFFICES ASSUME brought', NEW other \in Active(squad') \cap DOMAIN checkout',
                      NEW p \in Collected(other) \cap DOMAIN files'[other]
               PROVE  <<other, p>> \in todo' \/ Brought(other, p)'
    BY <1>1 DEF EngagementInv, Bringing
  <2>1. other \in Active(squad) \cap DOMAIN checkout /\ other \in Places \ {"root"}
    BY <1>1, <1>2, EngagementAssumption DEF TypeOK, Places
  <2>2. files'[other] = files[other] /\ p \in DOMAIN files[other]
    BY <1>3, <2>1
  <2>3. <<other, p>> \in todo \/ Brought(other, p)
    BY <1>1, <2>1, <2>2 DEF EngagementInv, Bringing
  <2>4. files[other][p].time \in Nat
    BY <1>2, <2>1, <2>2, TimesAreNumbers
  <2>5. CASE p = path
    <3>1. other = role
      BY <2>5, PathsNameOwners, KindsOfPaths DEF Collected
    <3> QED
      BY <1>1, <1>3, <2>2, <2>3, <2>4, <2>5, <3>1 DEF Brought
  <2>6. CASE p # path
    BY <1>1, <1>3, <2>2, <2>3, <2>6 DEF Brought
  <2> QED
    BY <2>5, <2>6
<1> QED
  BY <1>5, <1>6, <1>7, <1>8, <1>9 DEF EngagementInv

\* An artifact is skipped if there is none or the root's is no older.
LEMMA SkipKeepsInv ==
  ASSUME EngagementInv, NEW role, NEW path, SkipArtifact(role, path)
  PROVE  EngagementInv'
<1>1. /\ ~Newer(role, path) /\ todo' = todo \ {<<role, path>>}
      /\ UNCHANGED <<squad, clock, files, checkout, head, installed, brought, rulings>>
  BY DEF SkipArtifact
<1>2. TypeOK'
  BY <1>1 DEF EngagementInv, TypeOK, Files, Standing
<1>3. AuthorsAreOwners' /\ OnlySandboxUnrecorded' /\ Unattended' /\ Committed'
  BY <1>1 DEF EngagementInv, AuthorsAreOwners, OnlySandboxUnrecorded, Unrecorded, Ledger, Unattended,
             Committed
<1>4. Bringing'
  <2> SUFFICES ASSUME brought', NEW other \in Active(squad') \cap DOMAIN checkout',
                      NEW p \in Collected(other) \cap DOMAIN files'[other]
               PROVE  <<other, p>> \in todo' \/ Brought(other, p)'
    BY <1>1 DEF EngagementInv, Bringing
  <2>1. Brought(other, p)' <=> Brought(other, p)
    BY <1>1 DEF Brought
  <2>2. <<other, p>> \in todo \/ Brought(other, p)
    BY <1>1 DEF EngagementInv, Bringing
  <2>3. CASE other = role /\ p = path
    <3>1. p \in DOMAIN files["root"] /\ ~(files[role][p].time > files["root"][p].time)
      BY <1>1, <2>3 DEF Newer
    <3>2. TypeOK /\ role \in Places /\ "root" \in Places /\ p \in DOMAIN files[role]
      BY <1>1, <2>3 DEF EngagementInv, TypeOK, Places
    <3>3. files[role][p].time \in Nat /\ files["root"][p].time \in Nat
      BY <3>1, <3>2, TimesAreNumbers
    <3> QED
      BY <1>1, <2>1, <2>2, <2>3, <3>1, <3>3 DEF Brought
  <2>4. CASE ~(other = role /\ p = path)
    BY <1>1, <2>1, <2>2, <2>4
  <2> QED
    BY <2>3, <2>4
<1> QED
  BY <1>2, <1>3, <1>4 DEF EngagementInv

\* A collect that fails or dies promises nothing.
LEMMA FailuresKeepInv ==
  ASSUME EngagementInv, NEW role, NEW path, CopyFails(role, path) \/ CollectDies
  PROVE  EngagementInv'
<1>1. /\ todo' \subseteq todo /\ brought' = FALSE
      /\ UNCHANGED <<squad, clock, files, checkout, head, installed, rulings>>
  BY DEF CopyFails, CollectDies
<1>2. TypeOK'
  BY <1>1 DEF EngagementInv, TypeOK, Files, Standing
<1> QED
  BY <1>1, <1>2 DEF EngagementInv, AuthorsAreOwners, OnlySandboxUnrecorded, Unrecorded, Ledger,
                    Unattended, Bringing, Committed

-----------------------------------------------------------------------------
(* The clock and the human. *)

LEMMA TickKeepsInv ==
  ASSUME EngagementInv, Tick
  PROVE  EngagementInv'
<1>1. /\ clock < MaxTime /\ clock' = clock + 1
      /\ UNCHANGED <<squad, files, checkout, head, installed, todo, brought, rulings>>
  BY DEF Tick
<1>2. clock \in 1..MaxTime /\ clock' \in 1..MaxTime /\ 0..clock \subseteq 0..(clock')
  BY <1>1, EngagementAssumption DEF EngagementInv, TypeOK
<1>3. Files \subseteq Files'
  BY <1>2 DEF Files
<1>4. TypeOK'
  BY <1>1, <1>2, <1>3 DEF EngagementInv, TypeOK, Standing
<1>5. AuthorsAreOwners' /\ OnlySandboxUnrecorded' /\ Unattended' /\ Committed'
  BY <1>1 DEF EngagementInv, AuthorsAreOwners, OnlySandboxUnrecorded, Unrecorded, Ledger, Unattended,
             Committed
<1>6. Bringing'
  BY <1>1 DEF EngagementInv, Bringing, Brought
<1> QED
  BY <1>4, <1>5, <1>6 DEF EngagementInv

LEMMA InstallKeepsInv ==
  ASSUME EngagementInv, NEW s \in Snapshots, Install(s)
  PROVE  EngagementInv'
<1>1. /\ installed' \subseteq installed \cup {s}
      /\ UNCHANGED <<squad, clock, files, checkout, head, todo, brought, rulings>>
  BY DEF Install
<1>2. TypeOK'
  BY <1>1 DEF EngagementInv, TypeOK, Files, Standing
<1>3. AuthorsAreOwners' /\ OnlySandboxUnrecorded' /\ Unattended' /\ Committed'
  BY <1>1 DEF EngagementInv, AuthorsAreOwners, OnlySandboxUnrecorded, Unrecorded, Ledger, Unattended,
             Committed
<1>4. Bringing'
  BY <1>1 DEF EngagementInv, Bringing, Brought
<1> QED
  BY <1>2, <1>3, <1>4 DEF EngagementInv

\* A step by the human at the root that only stores or moves files whose authors
\* are right keeps the invariant.
LEMMA RootKeepsInv ==
  ASSUME EngagementInv,
         DOMAIN files' = Places, \A place \in Isolated : files'[place] = files[place],
         \A p \in DOMAIN files'["root"] :
           /\ files'["root"][p] \in Files /\ p \notin SquadWide
           /\ \A role \in RoleIds : p \in Accountable(role) => files'["root"][p].by = role,
         squad' \in DOMAIN Squads \cup {NoSquad}, brought' = FALSE, Unattended',
         rulings' \subseteq (DOMAIN Squads) \X RoleIds \X (DOMAIN Squads),
         UNCHANGED <<clock, checkout, head, installed, todo>>
  PROVE  EngagementInv'
<1>1. "root" \notin Isolated /\ Places = {"root"} \cup Isolated
  BY EngagementAssumption DEF Places
<1>2. TypeOK'
  <2>1. Files' = Files /\ Standing' = Standing /\ "root" \in Standing
    BY DEF Files, Standing
  <2>2. ASSUME NEW place \in Places, NEW p \in DOMAIN files'[place]
        PROVE  files'[place][p] \in Files
    BY <1>1, <2>2 DEF EngagementInv, TypeOK
  <2>3. \A place \in Places \ Standing' : DOMAIN files'[place] = {}
    BY <1>1, <2>1 DEF EngagementInv, TypeOK
  <2> QED
    BY <2>1, <2>2, <2>3 DEF EngagementInv, TypeOK
<1>3. AuthorsAreOwners'
  BY <1>1 DEF EngagementInv, AuthorsAreOwners
<1>4. OnlySandboxUnrecorded'
  BY DEF EngagementInv, OnlySandboxUnrecorded, Unrecorded, Ledger
<1>5. Bringing' /\ Committed'
  BY DEF EngagementInv, Bringing, Committed
<1> QED
  BY <1>2, <1>3, <1>4, <1>5 DEF EngagementInv

LEMMA RulesKeepsInv ==
  ASSUME EngagementInv, NEW role \in RoleIds, Rules(role)
  PROVE  EngagementInv'
<1> DEFINE ledger == Claims(role)
<1>1. PICK loser \in At("root", ledger).beliefs :
        /\ files' = Put("root", [p \in {ledger} |->
                      [At("root", p) EXCEPT !.time = clock, !.ruled = @ \cup {loser}]])
        /\ rulings' = rulings \cup {<<squad, role, loser>>}
  BY DEF Rules
<1> DEFINE ruling == [At("root", ledger) EXCEPT !.time = clock, !.ruled = @ \cup {loser}]
           batch == [p \in {ledger} |->
                      [At("root", p) EXCEPT !.time = clock, !.ruled = @ \cup {loser}]]
<1>2. /\ ledger \in DOMAIN files["root"] /\ files' = Put("root", batch) /\ brought' = FALSE
      /\ UNCHANGED <<squad, clock, checkout, head, installed, todo>>
  BY <1>1 DEF Rules, Ledger
<1>3. TypeOK /\ "root" \in Places /\ clock \in Nat
  BY EngagementAssumption DEF EngagementInv, TypeOK, Places
<1>4. At("root", ledger) = files["root"][ledger] /\ files["root"][ledger] \in Files
  BY <1>2, <1>3, AtType DEF TypeOK
<1>5. squad \in DOMAIN Squads /\ loser \in DOMAIN Squads
  BY <1>1, <1>2, <1>3, <1>4 DEF EngagementInv, Unattended, Ledger, TypeOK, Files
<1>6. rulings' \subseteq (DOMAIN Squads) \X RoleIds \X (DOMAIN Squads)
  BY <1>1, <1>3, <1>5 DEF TypeOK
<1>7. DOMAIN batch = {ledger} /\ batch[ledger] = ruling
  OBVIOUS
<1>8. ruling \in Files /\ ruling.by = files["root"][ledger].by
  <2>1. clock \in 0..clock
    BY <1>3
  <2> QED
    BY <1>4, <1>5, <2>1 DEF Files
<1>9. /\ DOMAIN files' = Places
      /\ \A place \in Places \ {"root"} : files'[place] = files[place]
      /\ DOMAIN files'["root"] = DOMAIN files["root"]
      /\ files'["root"][ledger] = ruling
      /\ \A p \in DOMAIN files["root"] \ {ledger} : files'["root"][p] = files["root"][p]
  <2> HIDE DEF batch, ruling
  <2> QED
    BY <1>2, <1>3, <1>7, PutEffect
<1>10. ASSUME NEW p \in DOMAIN files'["root"]
      PROVE  /\ files'["root"][p] \in Files /\ files'["root"][p].by = files["root"][p].by
             /\ p \in DOMAIN files["root"]
  <2> HIDE DEF ruling
  <2>1. CASE p = ledger
    BY <1>2, <1>8, <1>9, <2>1
  <2>2. CASE p # ledger
    BY <1>3, <1>9, <2>2 DEF TypeOK
  <2> QED
    BY <2>1, <2>2
<1>11. \A p \in DOMAIN files'["root"] :
        /\ files'["root"][p] \in Files /\ p \notin SquadWide
        /\ \A other \in RoleIds : p \in Accountable(other) => files'["root"][p].by = other
  BY <1>3, <1>10 DEF EngagementInv, AuthorsAreOwners
<1>12. Unattended' /\ squad' \in DOMAIN Squads \cup {NoSquad}
  BY <1>2, <1>3, <1>9 DEF EngagementInv, Unattended, Ledger, TypeOK
<1>13. \A place \in Isolated : files'[place] = files[place]
  BY <1>9, EngagementAssumption DEF Places
<1> QED
  BY <1>2, <1>6, <1>9, <1>11, <1>12, <1>13, RootKeepsInv

\* A parked ledger is still by the owner in its path.
LEMMA ParkKeepsInv ==
  ASSUME EngagementInv, Park
  PROVE  EngagementInv'
<1> DEFINE root == files["root"]
           kept == DOMAIN root \ (Ledger("root") \cup Outboxes("root"))
           owners == {role \in RoleIds : Claims(role) \in DOMAIN root}
           archived == {Parked(squad, owner) : owner \in owners}
           moved(p) == IF p \in archived THEN root[Claims(p[5][2])] ELSE root[p]
<1>1. TypeOK /\ "root" \in Places /\ "root" \notin Isolated /\ Isolated \subseteq Places
  BY EngagementAssumption DEF EngagementInv, Places
<1>2. /\ squad \in DOMAIN Squads /\ todo = {} /\ squad' = NoSquad /\ brought' = FALSE
      /\ files' = [files EXCEPT !["root"] = [p \in kept \cup archived |-> moved(p)]]
      /\ UNCHANGED <<clock, checkout, head, installed, todo, rulings>>
  BY <1>1 DEF Park, TypeOK
<1>3. /\ DOMAIN files' = Places /\ \A place \in Isolated : files'[place] = files[place]
      /\ files'["root"] = [p \in kept \cup archived |-> moved(p)]
  BY <1>1, <1>2 DEF TypeOK
<1>4. ASSUME NEW p \in DOMAIN files'["root"]
      PROVE  /\ files'["root"][p] \in Files /\ p \notin SquadWide
             /\ \A role \in RoleIds : p \in Accountable(role) => files'["root"][p].by = role
  <2>1. CASE p \in archived
    <3>1. PICK owner \in owners : p = Parked(squad, owner)
      BY <2>1
    <3>2. files'["root"][p] = root[Claims(owner)] /\ Claims(owner) \in DOMAIN root
      <4>1. p[5][2] = owner
        BY <3>1 DEF Parked
      <4>2. files'["root"][p] = root[Claims(p[5][2])]
        BY <1>3, <2>1
      <4> QED
        BY <3>1, <4>1, <4>2
    <3>3. owner \in RoleIds /\ owner \notin {"user", "research"} /\ root[Claims(owner)].by = owner
      BY <1>1, <3>2 DEF EngagementInv, AuthorsAreOwners, Accountable, SquadWide
    <3>4. p \in Accountable(owner)
      BY <1>2, <3>1 DEF Accountable
    <3>5. p \notin SquadWide
      BY <3>1, <3>3, LedgersNotSquadWide
    <3> QED
      BY <1>1, <3>2, <3>3, <3>4, <3>5, OneAccountable DEF TypeOK
  <2>2. CASE p \notin archived
    <3>1. p \in DOMAIN root /\ files'["root"][p] = root[p]
      BY <1>3, <2>2
    <3> QED
      BY <1>1, <3>1 DEF EngagementInv, AuthorsAreOwners, TypeOK
  <2> QED
    BY <2>1, <2>2
<1>5. Unattended'
  <2>1. \A role : Claims(role) \notin archived
    BY KindsOfPaths
  <2>2. \A role \in RoleIds : Claims(role) \notin kept
    BY DEF Ledger
  <2>3. Ledger("root")' = {}
    BY <1>3, <2>1, <2>2 DEF Ledger
  <2> QED
    BY <1>2, <2>3 DEF Unattended
<1>6. rulings' \subseteq (DOMAIN Squads) \X RoleIds \X (DOMAIN Squads)
  BY <1>1, <1>2 DEF TypeOK
<1> QED
  BY <1>2, <1>3, <1>4, <1>5, <1>6, RootKeepsInv

\* So is one that is taken up again.
LEMMA TakeUpKeepsInv ==
  ASSUME EngagementInv, NEW s \in DOMAIN Squads, TakeUp(s)
  PROVE  EngagementInv'
<1> DEFINE root == files["root"]
           owners == {role \in RoleIds : Parked(s, role) \in DOMAIN root}
           kept == DOMAIN root \ {Parked(s, owner) : owner \in owners}
           restored == {Claims(owner) : owner \in owners}
           moved(p) == IF p \in restored THEN root[Parked(s, p[3][2])] ELSE root[p]
<1>1. TypeOK /\ "root" \in Places /\ "root" \notin Isolated /\ Isolated \subseteq Places
  BY EngagementAssumption DEF EngagementInv, Places
<1>2. /\ squad = NoSquad /\ squad' = s /\ brought' = FALSE
      /\ files' = [files EXCEPT !["root"] = [p \in kept \cup restored |-> moved(p)]]
      /\ UNCHANGED <<clock, checkout, head, installed, todo, rulings>>
  BY DEF TakeUp
<1>3. /\ DOMAIN files' = Places /\ \A place \in Isolated : files'[place] = files[place]
      /\ files'["root"] = [p \in kept \cup restored |-> moved(p)]
  BY <1>1, <1>2 DEF TypeOK
<1>4. ASSUME NEW p \in DOMAIN files'["root"]
      PROVE  /\ files'["root"][p] \in Files /\ p \notin SquadWide
             /\ \A role \in RoleIds : p \in Accountable(role) => files'["root"][p].by = role
  <2>1. CASE p \in restored
    <3>1. PICK owner \in owners : p = Claims(owner)
      BY <2>1
    <3>2. files'["root"][p] = root[Parked(s, owner)] /\ Parked(s, owner) \in DOMAIN root
      <4>1. p[3][2] = owner
        BY <3>1 DEF Claims
      <4>2. files'["root"][p] = root[Parked(s, p[3][2])]
        BY <1>3, <2>1
      <4> QED
        BY <3>1, <4>1, <4>2
    <3>3. owner \in RoleIds /\ owner \notin {"user", "research"} /\ root[Parked(s, owner)].by = owner
      BY <1>1, <3>2 DEF EngagementInv, AuthorsAreOwners, Accountable, SquadWide
    <3>4. p \in Accountable(owner)
      BY <3>1 DEF Accountable
    <3>5. p \notin SquadWide
      BY <3>1, <3>3, LedgersNotSquadWide
    <3> QED
      BY <1>1, <3>2, <3>3, <3>4, <3>5, OneAccountable DEF TypeOK
  <2>2. CASE p \notin restored
    <3>1. p \in DOMAIN root /\ files'["root"][p] = root[p]
      BY <1>3, <2>2
    <3> QED
      BY <1>1, <3>1 DEF EngagementInv, AuthorsAreOwners, TypeOK
  <2> QED
    BY <2>1, <2>2
<1>5. Unattended'
  BY <1>2, EngagementAssumption DEF Unattended
<1>6. rulings' \subseteq (DOMAIN Squads) \X RoleIds \X (DOMAIN Squads)
  BY <1>1, <1>2 DEF TypeOK
<1> QED
  BY <1>2, <1>3, <1>4, <1>5, <1>6, RootKeepsInv

\* What is committed is the root's, by whom it is there.
LEMMA CommitKeepsInv ==
  ASSUME EngagementInv, NEW roles \in SUBSET RoleIds, Commit({Claims(role) : role \in roles})
  PROVE  EngagementInv'
<1> DEFINE root == files["root"]
           ledgers == {Claims(role) : role \in roles}
           kept == DOMAIN head.ledgers \ ledgers
           new == ledgers \cap Ledger("root")
<1>1. /\ UNCHANGED <<squad, clock, files, checkout, installed, todo, brought, rulings>>
      /\ head' = [squad |-> squad, ledgers |-> [p \in kept \cup new |->
                   IF p \in ledgers THEN [root[p] EXCEPT !.time = 0] ELSE head.ledgers[p]]]
  BY DEF Commit
<1>2. TypeOK /\ "root" \in Places /\ clock \in Nat
  BY EngagementAssumption DEF EngagementInv, TypeOK, Places
<1>3. ASSUME NEW p \in DOMAIN head'.ledgers
      PROVE  /\ head'.ledgers[p] \in Files /\ (\E role \in RoleIds : p = Claims(role))
             /\ p \notin SquadWide
             /\ \A role \in RoleIds : p \in Accountable(role) => head'.ledgers[p].by = role
  <2>1. CASE p \in ledgers
    <3>1. p \in new /\ head'.ledgers[p] = [root[p] EXCEPT !.time = 0]
      BY <1>1, <1>3, <2>1
    <3>2. p \in DOMAIN root /\ (\E role \in RoleIds : p = Claims(role))
      BY <3>1 DEF Ledger
    <3>3. root[p] \in Files /\ 0 \in 0..clock
      BY <1>2, <3>2 DEF TypeOK
    <3>4. head'.ledgers[p] \in Files /\ head'.ledgers[p].by = root[p].by
      BY <3>1, <3>3 DEF Files
    <3> QED
      BY <1>2, <3>2, <3>4 DEF EngagementInv, AuthorsAreOwners
  <2>2. CASE p \notin ledgers
    <3>1. p \in DOMAIN head.ledgers /\ head'.ledgers[p] = head.ledgers[p]
      BY <1>1, <1>3, <2>2
    <3> QED
      BY <1>2, <3>1 DEF EngagementInv, Committed, TypeOK
  <2> QED
    BY <2>1, <2>2
<1>4. TypeOK'
  <2>1. DOMAIN head' = {"squad", "ledgers"} /\ head'.squad = squad
    BY <1>1
  <2>2. Files' = Files /\ Standing' = Standing
    BY <1>1 DEF Files, Standing
  <2> QED
    BY <1>1, <1>2, <1>3, <2>1, <2>2 DEF TypeOK
<1>5. Committed'
  BY <1>3 DEF Committed
<1>6. AuthorsAreOwners' /\ OnlySandboxUnrecorded' /\ Unattended'
  BY <1>1 DEF EngagementInv, AuthorsAreOwners, OnlySandboxUnrecorded, Unrecorded, Ledger, Unattended
<1>7. Bringing'
  BY <1>1 DEF EngagementInv, Bringing, Brought
<1> QED
  BY <1>4, <1>5, <1>6, <1>7 DEF EngagementInv

-----------------------------------------------------------------------------
(* The invariant and what follows from it. *)

LEMMA InitEngagementInv == Init => EngagementInv
<1> SUFFICES ASSUME Init PROVE EngagementInv
  OBVIOUS
<1>1. \A place \in Places : DOMAIN files[place] = {}
  BY DEF Init
<1>2. DOMAIN checkout = {} /\ DOMAIN files = Places /\ clock \in 1..MaxTime
  BY EngagementAssumption DEF Init
<1>3. TypeOK /\ Committed
  BY <1>1, <1>2 DEF Init, TypeOK, Committed
<1>4. "root" \in Places /\ Isolated \subseteq Places
  BY DEF Places
<1> QED
  BY <1>1, <1>3, <1>4 DEF Init, EngagementInv, AuthorsAreOwners, Unattended, Bringing,
                          OnlySandboxUnrecorded, Unrecorded, Ledger

\* No step of a role, a script, the clock or the human breaks it.
LEMMA NextEngagementInv == EngagementInv /\ [Next]_vars => EngagementInv'
<1> SUFFICES ASSUME EngagementInv, [Next]_vars
             PROVE  EngagementInv'
  OBVIOUS
<1>1. ASSUME NEW agent, NEW r \in Asking(agent), NEW path, RoleWrites(r, path)
      PROVE  EngagementInv'
  BY <1>1, RoleWritesKeepsInv
<1>2. ASSUME NEW agent, NEW r \in Asking(agent), NEW operands, RoleScaffolds(r, operands)
      PROVE  EngagementInv'
  BY <1>2, RoleScaffoldsKeepsInv
<1>3. ASSUME NEW roles, NEW made, NEW followOn, Dispatch(roles, followOn, made)
      PROVE  EngagementInv'
  BY <1>3, DispatchKeepsInv
<1>4. CASE StartCollect
  BY <1>4, StartCollectKeepsInv
<1>5. ASSUME NEW role \in RoleIds, NEW path \in Collected(role),
             CopyArtifact(role, path) \/ SkipArtifact(role, path) \/ CopyFails(role, path)
      PROVE  EngagementInv'
  BY <1>5, CopyKeepsInv, SkipKeepsInv, FailuresKeepInv
<1>6. CASE CollectDies
  BY <1>6, FailuresKeepInv
<1>7. CASE Tick
  BY <1>7, TickKeepsInv
<1>8. ASSUME NEW role \in RoleIds, Rules(role) PROVE EngagementInv'
  BY <1>8, RulesKeepsInv
<1>9. CASE Park
  BY <1>9, ParkKeepsInv
<1>10. ASSUME NEW s \in DOMAIN Squads, TakeUp(s) PROVE EngagementInv'
  BY <1>10, TakeUpKeepsInv
<1>11. ASSUME NEW s \in Snapshots, Install(s) PROVE EngagementInv'
  BY <1>11, InstallKeepsInv
<1>12. ASSUME NEW roles \in SUBSET RoleIds, Commit({Claims(role) : role \in roles})
       PROVE  EngagementInv'
  BY <1>12, CommitKeepsInv
<1>13. CASE UNCHANGED vars
  <2>1. UNCHANGED <<squad, clock, files, checkout, head, installed, todo, brought, rulings>>
    BY <1>13 DEF vars
  <2>2. TypeOK'
    BY <2>1 DEF EngagementInv, TypeOK, Files, Standing
  <2>3. AuthorsAreOwners' /\ OnlySandboxUnrecorded' /\ Unattended' /\ Committed'
    BY <2>1 DEF EngagementInv, AuthorsAreOwners, OnlySandboxUnrecorded, Unrecorded, Ledger,
                Unattended, Committed
  <2>4. Bringing'
    BY <2>1 DEF EngagementInv, Bringing, Brought
  <2> QED
    BY <2>2, <2>3, <2>4 DEF EngagementInv
<1> QED
  BY <1>1, <1>2, <1>3, <1>4, <1>5, <1>6, <1>7, <1>8, <1>9, <1>10, <1>11, <1>12, <1>13 DEF Next

\* The strengthening behind the theorems below holds in every reachable state.
THEOREM EngagementInvariance == Spec => []EngagementInv
<1>1. Init => EngagementInv
  BY InitEngagementInv
<1>2. EngagementInv /\ [Next]_vars => EngagementInv'
  BY NextEngagementInv
<1> QED
  BY <1>1, <1>2, PTL DEF Spec

\* Variables keep their types.
THEOREM EngagementTypes == Spec => []TypeOK
<1>1. EngagementInv => TypeOK
  BY DEF EngagementInv
<1> QED
  BY <1>1, EngagementInvariance, PTL

\* Whatever rosters and snapshots declare, and wherever files are collected, parked
\* or taken up: what a path says about its author is true, and no role wrote the
\* squad's own files.
THEOREM OwnersAreAuthors == Spec => []AuthorsAreOwners
<1>1. EngagementInv => AuthorsAreOwners
  BY DEF EngagementInv
<1> QED
  BY <1>1, EngagementInvariance, PTL

\* Before its record a role leaves nothing in its worktree but, under .squad, files of
\* its workspace.
THEOREM SandboxBeforeRecord == Spec => []OnlySandboxUnrecorded
<1>1. EngagementInv => OnlySandboxUnrecorded
  BY DEF EngagementInv
<1> QED
  BY <1>1, EngagementInvariance, PTL

\* A collect that ended well has brought every record and ledger there was.
THEOREM CollectsBring == Spec => []CollectBrings
<1>1. EngagementInv => CollectBrings
  BY DEF EngagementInv, Bringing, Brought, CollectBrings
<1> QED
  BY <1>1, EngagementInvariance, PTL

\* One installed map decides for an agent, or none.
THEOREM MandatesAgree == Spec => []DecisionsWithinMandate
<1>1. DecisionsWithinMandate
  <2> SUFFICES ASSUME NEW place, NEW agent, NEW path, NEW r \in Bound(place, agent),
                      WriteApproved(place, r, path), ~UnderSquad(path),
                      NEW s \in Answers(place, agent)
               PROVE  /\ s.owner = "claude"
                      /\ path \in s.roles[agent].include \ s.roles[agent].exclude
    BY DEF DecisionsWithinMandate
  <2>1. Sound(s, agent) /\ r = s.roles[agent]
    BY DEF Bound
  <2> QED
    BY <2>1 DEF Sound, WriteApproved
<1> QED
  BY <1>1, PTL

-----------------------------------------------------------------------------
(* A ruling stands: its mark is in the squad's ledger at the root, and what *)
(* the role's worktree holds has it too or is not newer.                    *)

Stands(x) ==
  LET kept == Kept(x[1], x[2])
      ledger == Claims(x[2])
  IN  /\ kept \in DOMAIN files["root"] /\ x[3] \in files["root"][kept].ruled
      /\ x[2] \in DOMAIN checkout /\ ledger \in DOMAIN files[x[2]] =>
           \/ x[3] \in files[x[2]][ledger].ruled
           \/ ~(files[x[2]][ledger].time > files["root"][kept].time)

RulingInv == \A x \in rulings : Stands(x)

LEMMA RulingTypes ==
  ASSUME TypeOK, NEW x \in rulings
  PROVE  /\ x[1] \in DOMAIN Squads /\ x[2] \in RoleIds /\ x[3] \in DOMAIN Squads
         /\ x = <<x[1], x[2], x[3]>> /\ x[1] # NoSquad
BY EngagementAssumption DEF TypeOK

\* A ruling whose ledgers a step leaves alone, or moves, still stands.
LEMMA StaysStanding ==
  ASSUME NEW x, Stands(x),
         Kept(x[1], x[2])' \in DOMAIN files'["root"],
         files'["root"][Kept(x[1], x[2])'] = files["root"][Kept(x[1], x[2])],
         x[2] \in DOMAIN checkout' /\ Claims(x[2]) \in DOMAIN files'[x[2]] =>
           /\ x[2] \in DOMAIN checkout /\ Claims(x[2]) \in DOMAIN files[x[2]]
           /\ files'[x[2]][Claims(x[2])] = files[x[2]][Claims(x[2])]
  PROVE  Stands(x)'
BY DEF Stands

\* No grant reaches a parked ledger, and only its owner's a ledger.
LEMMA GrantsOwnLedger ==
  ASSUME TypeOK, NEW place, NEW r, r.id \in RoleIds, NEW role \in RoleIds, NEW slug,
         NEW path, UnderSquad(path) => SquadGrant(place, r, path)
  PROVE  /\ path # Parked(slug, role)
         /\ path = Claims(role) => role = r.id
<1>1. ASSUME path = Parked(slug, role) PROVE FALSE
  <2>1. SquadGrant(place, r, path)
    BY <1>1, PathParts DEF UnderSquad
  <2>2. Reserved(path)
    BY <1>1, NamedAreReserved
  <2>3. OwnGrant(place, r.id, path)
    BY <2>1, <2>2 DEF SquadGrant
  <2> QED
    BY <1>1, <2>3, KindsOfPaths DEF OwnGrant
<1>2. ASSUME path = Claims(role) PROVE role = r.id
  <2>1. UnderSquad(path) /\ path \in Accountable(role)
    BY <1>2, PathParts DEF UnderSquad, Accountable
  <2> QED
    BY <2>1, GrantsOwn
<1> QED
  BY <1>1, <1>2

\* Files of one role withdraw the rulings they may undo, and leave the others alone.
LEMMA WorkKeepsRulings ==
  ASSUME NEW agent, NEW r \in Asking(agent), NEW batch, EngagementInv, RulingInv,
         files' = Put(Home(r.id), batch),
         \A p \in DOMAIN batch : UnderSquad(p) => SquadGrant(Home(r.id), r, p),
         rulings' = rulings \ Undone(r.id, DOMAIN batch), UNCHANGED <<squad, checkout>>
  PROVE  RulingInv'
<1> DEFINE place == Home(r.id)
<1>1. TypeOK /\ "root" \in Places /\ "root" \notin Isolated
  BY EngagementAssumption DEF EngagementInv, Places
<1>2. /\ r.id \in RoleIds /\ place \in Places /\ (place # "root" => place = r.id)
      /\ (r.id \in Isolated => place = r.id)
  BY <1>1, AskingRole DEF Home
<1>3. /\ DOMAIN files' = Places
      /\ \A other \in Places \ {place} : files'[other] = files[other]
      /\ DOMAIN files'[place] = DOMAIN files[place] \cup DOMAIN batch
      /\ \A p \in DOMAIN batch : files'[place][p] = batch[p]
      /\ \A p \in DOMAIN files[place] \ DOMAIN batch : files'[place][p] = files[place][p]
  BY <1>1, <1>2, PutEffect
<1> HIDE DEF place
<1> SUFFICES ASSUME NEW x \in rulings'
             PROVE  Stands(x)'
  BY DEF RulingInv
<1>4. x \in rulings /\ Stands(x) /\ x \notin Undone(r.id, DOMAIN batch)
  BY DEF RulingInv
<1>5. x[1] \in DOMAIN Squads /\ x[2] \in RoleIds
  BY <1>1, <1>4, RulingTypes
<1> DEFINE kept == Kept(x[1], x[2])
           ledger == Claims(x[2])
<1>6. \A p \in DOMAIN batch : p # Parked(x[1], x[2]) /\ (p = ledger => x[2] = r.id)
  BY <1>1, <1>2, <1>5, GrantsOwnLedger DEF place
<1>7. ledger \in DOMAIN batch => x[2] = r.id /\ x[1] # squad /\ x[2] \notin Isolated
  BY <1>4, <1>6 DEF Undone
<1>8. kept' = kept /\ kept \in DOMAIN files["root"]
  BY <1>4 DEF Kept, Stands
<1>9. kept \notin DOMAIN batch
  BY <1>6, <1>7 DEF Kept
<1>10. kept \in DOMAIN files'["root"] /\ files'["root"][kept] = files["root"][kept]
  BY <1>1, <1>3, <1>8, <1>9
<1>11. ASSUME x[2] \in DOMAIN checkout', ledger \in DOMAIN files'[x[2]]
       PROVE  /\ x[2] \in DOMAIN checkout /\ ledger \in DOMAIN files[x[2]]
              /\ files'[x[2]][ledger] = files[x[2]][ledger]
  <2>1. x[2] \in Isolated /\ x[2] \in DOMAIN checkout /\ x[2] \in Places
    BY <1>1, <1>11 DEF TypeOK, Places
  <2>2. ledger \notin DOMAIN batch
    BY <1>7, <2>1
  <2> QED
    BY <1>3, <1>11, <2>1, <2>2
<1> QED
  BY <1>4, <1>8, <1>10, <1>11, StaysStanding

LEMMA RoleWritesKeepsRulings ==
  ASSUME NEW agent, NEW r \in Asking(agent), NEW path, EngagementInv, RulingInv,
         RoleWrites(r, path)
  PROVE  RulingInv'
<1>1. PICK file : files' = Put(Home(r.id), [p \in {path} |-> file])
  BY DEF RoleWrites
<1> DEFINE batch == [p \in {path} |-> file]
<1>2. DOMAIN batch = {path} /\ files' = Put(Home(r.id), batch)
  BY <1>1
<1>3. \A p \in {path} : UnderSquad(p) => SquadGrant(Home(r.id), r, p)
  BY DEF RoleWrites, WriteApproved
<1>4. rulings' = rulings \ Undone(r.id, {path}) /\ UNCHANGED <<squad, checkout>>
  BY DEF RoleWrites
<1> HIDE DEF batch
<1> QED
  BY <1>2, <1>3, <1>4, WorkKeepsRulings

LEMMA RoleScaffoldsKeepsRulings ==
  ASSUME NEW agent, NEW r \in Asking(agent), NEW operands, EngagementInv, RulingInv,
         RoleScaffolds(r, operands)
  PROVE  RulingInv'
<1> DEFINE batch == [p \in operands |-> [At(Home(r.id), p) EXCEPT
                       !.by = r.id, !.time = IF p \in Collected(r.id) THEN clock ELSE 0]]
<1>1. DOMAIN batch = operands /\ files' = Put(Home(r.id), batch)
  BY DEF RoleScaffolds
<1>2. \A p \in operands : UnderSquad(p) => SquadGrant(Home(r.id), r, p)
  BY DEF RoleScaffolds, ScaffoldApproved
<1>3. rulings' = rulings \ Undone(r.id, operands) /\ UNCHANGED <<squad, checkout>>
  BY DEF RoleScaffolds
<1> HIDE DEF batch
<1> QED
  BY <1>1, <1>2, <1>3, WorkKeepsRulings

\* What is checked out has the mark, or the ruling is withdrawn.
LEMMA DispatchKeepsRulings ==
  ASSUME NEW roles, NEW followOn, NEW made, EngagementInv, RulingInv,
         Dispatch(roles, followOn, made)
  PROVE  RulingInv'
<1> DEFINE root == files["root"]
           cleared == IF followOn THEN {} ELSE Outboxes("root") \cup {Plan(r) : r \in roles}
           out(role) == {Claims(role)} \cap DOMAIN head.ledgers
<1>1. TypeOK /\ "root" \in Places /\ "root" \notin Isolated /\ made \subseteq Isolated
  BY EngagementAssumption DEF EngagementInv, Places, Dispatch
<1>2. /\ squad' = squad /\ DOMAIN checkout' = DOMAIN checkout \cup made
      /\ rulings' = rulings \ Missing(made)
  BY DEF Dispatch
<1>3. /\ DOMAIN files'["root"] = DOMAIN root \ cleared
      /\ \A p \in DOMAIN root \ cleared : files'["root"][p] = root[p]
      /\ \A place \in Places \ (made \cup {"root"}) : files'[place] = files[place]
      /\ \A place \in made : /\ DOMAIN files'[place] = out(place)
                             /\ \A p \in out(place) :
                                  files'[place][p] = [head.ledgers[p] EXCEPT !.time = clock]
  BY <1>1 DEF Dispatch, Places
<1> SUFFICES ASSUME NEW x \in rulings'
             PROVE  Stands(x)'
  BY DEF RulingInv
<1>4. x \in rulings /\ Stands(x) /\ x \notin Missing(made)
  BY <1>2 DEF RulingInv
<1> DEFINE kept == Kept(x[1], x[2])
           ledger == Claims(x[2])
<1>5. kept' = kept /\ kept \in DOMAIN root /\ x[3] \in root[kept].ruled
  BY <1>2, <1>4 DEF Kept, Stands
<1>6. kept \notin cleared
  BY KindsOfPaths DEF Kept, Outboxes
<1>7. kept \in DOMAIN files'["root"] /\ files'["root"][kept] = root[kept]
  BY <1>3, <1>5, <1>6
<1>8. CASE x[2] \in made
  <2>1. ledger \in DOMAIN files'[x[2]] => x[3] \in files'[x[2]][ledger].ruled
    <3>1. ASSUME ledger \in DOMAIN files'[x[2]]
          PROVE  x[3] \in files'[x[2]][ledger].ruled
      <4>1. ledger \in DOMAIN head.ledgers
            /\ files'[x[2]][ledger] = [head.ledgers[ledger] EXCEPT !.time = clock]
        BY <1>3, <1>8, <3>1
      <4>2. x[3] \in head.ledgers[ledger].ruled
        BY <1>4, <1>8, <4>1 DEF Missing
      <4>3. head.ledgers[ledger] \in Files
        BY <1>1, <4>1 DEF TypeOK
      <4> QED
        BY <4>1, <4>2, <4>3 DEF Files
    <3> QED
      BY <3>1
  <2> QED
    BY <1>5, <1>7, <2>1 DEF Stands
<1>9. CASE x[2] \notin made
  <2>1. x[2] \in DOMAIN checkout' => x[2] \in DOMAIN checkout /\ files'[x[2]] = files[x[2]]
    BY <1>1, <1>2, <1>3, <1>9 DEF TypeOK, Places
  <2> QED
    BY <1>4, <1>5, <1>7, <2>1, StaysStanding
<1> QED
  BY <1>8, <1>9

\* What collect takes is newer than the ruling, and so it has the mark.
LEMMA CopyKeepsRulings ==
  ASSUME NEW role \in RoleIds, NEW path \in Collected(role), EngagementInv, RulingInv,
         CopyArtifact(role, path)
  PROVE  RulingInv'
<1>1. /\ role \in DOMAIN checkout /\ path \in DOMAIN files[role]
      /\ files' = Put("root", [p \in {path} |-> files[role][p]])
      /\ UNCHANGED <<squad, checkout, rulings>>
      /\ path \in DOMAIN files["root"] => files[role][path].time > files["root"][path].time
  BY DEF CopyArtifact, Newer
<1>2. TypeOK /\ "root" \in Places /\ "root" \notin Isolated
  BY EngagementAssumption DEF EngagementInv, Places
<1>3. /\ \A other \in Places \ {"root"} : files'[other] = files[other]
      /\ DOMAIN files'["root"] = DOMAIN files["root"] \cup {path}
      /\ files'["root"][path] = files[role][path]
      /\ \A p \in DOMAIN files["root"] \ {path} : files'["root"][p] = files["root"][p]
  <2> DEFINE batch == [p \in {path} |-> files[role][p]]
  <2>1. DOMAIN batch = {path} /\ batch[path] = files[role][path] /\ files' = Put("root", batch)
    BY <1>1
  <2> HIDE DEF batch
  <2> QED
    BY <1>2, <2>1, PutEffect
<1> SUFFICES ASSUME NEW x \in rulings'
             PROVE  Stands(x)'
  BY DEF RulingInv
<1>4. x \in rulings /\ Stands(x)
  BY <1>1 DEF RulingInv
<1> DEFINE kept == Kept(x[1], x[2])
           ledger == Claims(x[2])
<1>5. kept' = kept /\ kept \in DOMAIN files["root"] /\ x[3] \in files["root"][kept].ruled
  BY <1>1, <1>4 DEF Kept, Stands
<1>6. x[2] \in DOMAIN checkout => files'[x[2]] = files[x[2]]
  BY <1>2, <1>3 DEF TypeOK, Places
<1>7. CASE kept = path
  <2>1. path = ledger /\ x[2] = role
    BY <1>7, PathsNameOwners, KindsOfPaths DEF Kept, Collected
  <2>2. files[role][path].time > files["root"][path].time
    BY <1>1, <1>5, <1>7
  <2>3. x[3] \in files[role][path].ruled
    BY <1>1, <1>4, <1>7, <2>1, <2>2 DEF Stands
  <2>4. files'[role][path] = files[role][path]
    BY <1>1, <1>6, <2>1
  <2> QED
    BY <1>3, <1>5, <1>7, <2>1, <2>3, <2>4 DEF Stands
<1>8. CASE kept # path
  <2>1. kept \in DOMAIN files'["root"] /\ files'["root"][kept] = files["root"][kept]
    BY <1>3, <1>5, <1>8
  <2> QED
    BY <1>1, <1>4, <1>5, <1>6, <2>1, StaysStanding
<1> QED
  BY <1>7, <1>8

\* A ruling is as new as anything in a worktree.
LEMMA RulesKeepsRulings ==
  ASSUME NEW role \in RoleIds, EngagementInv, RulingInv, Rules(role)
  PROVE  RulingInv'
<1> DEFINE mark == Claims(role)
<1>1. PICK loser \in At("root", mark).beliefs :
        /\ files' = Put("root", [p \in {mark} |->
                      [At("root", p) EXCEPT !.time = clock, !.ruled = @ \cup {loser}]])
        /\ rulings' = rulings \cup {<<squad, role, loser>>}
  BY DEF Rules
<1> DEFINE ruling == [At("root", mark) EXCEPT !.time = clock, !.ruled = @ \cup {loser}]
           batch == [p \in {mark} |->
                      [At("root", p) EXCEPT !.time = clock, !.ruled = @ \cup {loser}]]
<1>2. mark \in DOMAIN files["root"] /\ UNCHANGED <<squad, clock, checkout>>
  BY DEF Rules, Ledger
<1>3. TypeOK /\ "root" \in Places /\ "root" \notin Isolated /\ clock \in Nat
  BY EngagementAssumption DEF EngagementInv, TypeOK, Places
<1>4. At("root", mark) = files["root"][mark] /\ files["root"][mark] \in Files
  BY <1>2, <1>3, AtType DEF TypeOK
<1>5. ruling.time = clock /\ ruling.ruled = files["root"][mark].ruled \cup {loser}
  BY <1>4 DEF Files
<1>6. DOMAIN batch = {mark} /\ batch[mark] = ruling /\ files' = Put("root", batch)
  BY <1>1
<1>7. /\ \A other \in Places \ {"root"} : files'[other] = files[other]
      /\ DOMAIN files'["root"] = DOMAIN files["root"]
      /\ files'["root"][mark] = ruling
      /\ \A p \in DOMAIN files["root"] \ {mark} : files'["root"][p] = files["root"][p]
  <2> HIDE DEF batch, ruling
  <2>1. /\ \A other \in Places \ {"root"} : files'[other] = files[other]
        /\ DOMAIN files'["root"] = DOMAIN files["root"] \cup DOMAIN batch
        /\ \A p \in DOMAIN batch : files'["root"][p] = batch[p]
        /\ \A p \in DOMAIN files["root"] \ DOMAIN batch : files'["root"][p] = files["root"][p]
    BY <1>3, <1>6, PutEffect
  <2> QED
    BY <1>2, <1>6, <2>1
<1> HIDE DEF batch, ruling
<1> SUFFICES ASSUME NEW x \in rulings'
             PROVE  Stands(x)'
  BY DEF RulingInv
<1> DEFINE kept == Kept(x[1], x[2])
           ledger == Claims(x[2])
<1>8. x[2] \in DOMAIN checkout => files'[x[2]] = files[x[2]] /\ x[2] \in Places
  BY <1>3, <1>7 DEF TypeOK, Places
<1>9. kept' = kept
  BY <1>2 DEF Kept
<1>10. CASE x[1] = squad /\ x[2] = role
  <2>1. kept = mark /\ ledger = mark
    BY <1>10 DEF Kept
  <2>2. x[3] \in ruling.ruled
    <3>1. CASE x \in rulings
      BY <1>5, <2>1, <3>1 DEF RulingInv, Stands
    <3>2. CASE x = <<squad, role, loser>>
      BY <1>5, <3>2
    <3> QED
      BY <1>1, <3>1, <3>2
  <2>3. ASSUME x[2] \in DOMAIN checkout, ledger \in DOMAIN files[x[2]]
        PROVE  ~(files[x[2]][ledger].time > clock)
    <3>1. files[x[2]][ledger] \in Files
      BY <1>3, <1>8, <2>3 DEF TypeOK
    <3> QED
      BY <1>3, <3>1 DEF Files
  <2> QED
    BY <1>2, <1>5, <1>7, <1>8, <1>9, <2>1, <2>2, <2>3 DEF Stands
<1>11. CASE ~(x[1] = squad /\ x[2] = role)
  <2>1. x \in rulings /\ Stands(x)
    BY <1>1, <1>11 DEF RulingInv
  <2>2. kept # mark
    BY <1>11, PathsNameOwners, KindsOfPaths DEF Kept
  <2>3. kept \in DOMAIN files'["root"] /\ files'["root"][kept] = files["root"][kept]
    BY <1>7, <2>1, <2>2 DEF Stands
  <2> QED
    BY <1>2, <1>8, <1>9, <2>1, <2>3, StaysStanding
<1> QED
  BY <1>10, <1>11

\* Parking moves the mark with the ledger.
LEMMA ParkKeepsRulings ==
  ASSUME EngagementInv, RulingInv, Park
  PROVE  RulingInv'
<1> DEFINE root == files["root"]
           rest == DOMAIN root \ (Ledger("root") \cup Outboxes("root"))
           owners == {role \in RoleIds : Claims(role) \in DOMAIN root}
           archived == {Parked(squad, owner) : owner \in owners}
           moved(p) == IF p \in archived THEN root[Claims(p[5][2])] ELSE root[p]
<1>1. TypeOK /\ "root" \in Places /\ "root" \notin Isolated
  BY EngagementAssumption DEF EngagementInv, Places
<1>2. /\ squad' = NoSquad /\ UNCHANGED <<checkout, rulings>>
      /\ files' = [files EXCEPT !["root"] = [p \in rest \cup archived |-> moved(p)]]
  BY DEF Park
<1>3. /\ files'["root"] = [p \in rest \cup archived |-> moved(p)]
      /\ \A other \in Isolated : files'[other] = files[other]
  BY <1>1, <1>2 DEF TypeOK, Places
<1> SUFFICES ASSUME NEW x \in rulings
             PROVE  Stands(x)'
  BY <1>2 DEF RulingInv
<1>4. Stands(x) /\ x[1] \in DOMAIN Squads /\ x[2] \in RoleIds /\ x[1] # NoSquad
  BY <1>1, RulingTypes DEF RulingInv
<1> DEFINE kept == Kept(x[1], x[2])
           parked == Parked(x[1], x[2])
<1>5. kept' = parked /\ kept \in DOMAIN root
  BY <1>2, <1>4 DEF Kept, Stands
<1>6. parked \in DOMAIN files'["root"] /\ files'["root"][parked] = root[kept]
  <2>1. CASE x[1] = squad
    <3>1. kept = Claims(x[2]) /\ x[2] \in owners /\ parked \in archived
      BY <1>4, <1>5, <2>1 DEF Kept
    <3>2. parked[5][2] = x[2]
      BY DEF Parked
    <3> QED
      BY <1>3, <3>1, <3>2
  <2>2. CASE x[1] # squad
    <3>1. kept = parked
      BY <2>2 DEF Kept
    <3>2. parked \notin archived
      BY <2>2, PathsNameOwners
    <3>3. parked \in rest
      BY <1>5, <3>1, KindsOfPaths DEF Ledger, Outboxes
    <3> QED
      BY <1>3, <3>1, <3>2, <3>3
  <2> QED
    BY <2>1, <2>2
<1>7. x[2] \in DOMAIN checkout => files'[x[2]] = files[x[2]]
  BY <1>1, <1>3 DEF TypeOK
<1> QED
  BY <1>2, <1>4, <1>5, <1>6, <1>7, StaysStanding

\* So does taking up.
LEMMA TakeUpKeepsRulings ==
  ASSUME NEW s \in DOMAIN Squads, EngagementInv, RulingInv, TakeUp(s)
  PROVE  RulingInv'
<1> DEFINE root == files["root"]
           owners == {role \in RoleIds : Parked(s, role) \in DOMAIN root}
           rest == DOMAIN root \ {Parked(s, owner) : owner \in owners}
           restored == {Claims(owner) : owner \in owners}
           moved(p) == IF p \in restored THEN root[Parked(s, p[3][2])] ELSE root[p]
<1>1. TypeOK /\ "root" \in Places /\ "root" \notin Isolated
  BY EngagementAssumption DEF EngagementInv, Places
<1>2. /\ squad = NoSquad /\ squad' = s /\ UNCHANGED <<checkout, rulings>>
      /\ files' = [files EXCEPT !["root"] = [p \in rest \cup restored |-> moved(p)]]
  BY DEF TakeUp
<1>3. /\ files'["root"] = [p \in rest \cup restored |-> moved(p)]
      /\ \A other \in Isolated : files'[other] = files[other]
  BY <1>1, <1>2 DEF TypeOK, Places
<1> SUFFICES ASSUME NEW x \in rulings
             PROVE  Stands(x)'
  BY <1>2 DEF RulingInv
<1>4. Stands(x) /\ x[1] \in DOMAIN Squads /\ x[2] \in RoleIds /\ x[1] # NoSquad
  BY <1>1, RulingTypes DEF RulingInv
<1> DEFINE kept == Kept(x[1], x[2])
           parked == Parked(x[1], x[2])
<1>5. kept = parked /\ parked \in DOMAIN root
  BY <1>2, <1>4 DEF Kept, Stands
<1>6. kept' \in DOMAIN files'["root"] /\ files'["root"][kept'] = root[parked]
  <2>1. CASE x[1] = s
    <3>1. kept' = Claims(x[2]) /\ x[2] \in owners /\ Claims(x[2]) \in restored
      BY <1>2, <1>4, <1>5, <2>1 DEF Kept
    <3>2. Claims(x[2])[3][2] = x[2]
      BY DEF Claims
    <3> QED
      BY <1>3, <2>1, <3>1, <3>2
  <2>2. CASE x[1] # s
    <3>1. kept' = parked
      BY <1>2, <2>2 DEF Kept
    <3>2. parked \in rest
      BY <1>5, <2>2, PathsNameOwners
    <3>3. parked \notin restored
      BY KindsOfPaths
    <3> QED
      BY <1>3, <3>1, <3>2, <3>3
  <2> QED
    BY <2>1, <2>2
<1>7. x[2] \in DOMAIN checkout => files'[x[2]] = files[x[2]]
  BY <1>1, <1>3 DEF TypeOK
<1> QED
  BY <1>2, <1>4, <1>5, <1>6, <1>7, StaysStanding

\* Steps that leave files, worktrees and rulings alone.
LEMMA OthersKeepRulings ==
  ASSUME RulingInv, UNCHANGED <<squad, files, checkout, rulings>>
  PROVE  RulingInv'
BY DEF RulingInv, Stands, Kept

LEMMA NextRulingInv == EngagementInv /\ RulingInv /\ [Next]_vars => RulingInv'
<1> SUFFICES ASSUME EngagementInv, RulingInv, [Next]_vars
             PROVE  RulingInv'
  OBVIOUS
<1>1. ASSUME NEW agent, NEW r \in Asking(agent), NEW path, RoleWrites(r, path)
      PROVE  RulingInv'
  BY <1>1, RoleWritesKeepsRulings
<1>2. ASSUME NEW agent, NEW r \in Asking(agent), NEW operands, RoleScaffolds(r, operands)
      PROVE  RulingInv'
  BY <1>2, RoleScaffoldsKeepsRulings
<1>3. ASSUME NEW roles, NEW made, NEW followOn, Dispatch(roles, followOn, made)
      PROVE  RulingInv'
  BY <1>3, DispatchKeepsRulings
<1>4. ASSUME NEW role \in RoleIds, NEW path \in Collected(role), CopyArtifact(role, path)
      PROVE  RulingInv'
  BY <1>4, CopyKeepsRulings
<1>5. ASSUME NEW role \in RoleIds, Rules(role) PROVE RulingInv'
  BY <1>5, RulesKeepsRulings
<1>6. CASE Park
  BY <1>6, ParkKeepsRulings
<1>7. ASSUME NEW s \in DOMAIN Squads, TakeUp(s) PROVE RulingInv'
  BY <1>7, TakeUpKeepsRulings
<1>8. ASSUME UNCHANGED <<squad, files, checkout, rulings>> PROVE RulingInv'
  BY <1>8, OthersKeepRulings
<1>9. /\ StartCollect \/ CollectDies \/ Tick => UNCHANGED <<squad, files, checkout, rulings>>
      /\ \A s : Install(s) => UNCHANGED <<squad, files, checkout, rulings>>
      /\ \A ledgers : Commit(ledgers) => UNCHANGED <<squad, files, checkout, rulings>>
      /\ \A role, path : SkipArtifact(role, path) \/ CopyFails(role, path) =>
           UNCHANGED <<squad, files, checkout, rulings>>
      /\ UNCHANGED vars => UNCHANGED <<squad, files, checkout, rulings>>
  BY DEF StartCollect, CollectDies, Tick, Install, Commit, SkipArtifact, CopyFails, vars
<1> QED
  BY <1>1, <1>2, <1>3, <1>4, <1>5, <1>6, <1>7, <1>8, <1>9 DEF Next

\* A ruling stands, whatever is dispatched, collected, committed, parked and taken up
\* in whatever order, until its role writes the ledger or a worktree is made from a
\* commit that has the ledger without the mark.
THEOREM RulingsOutlive == Spec => []RulingsStand
<1>1. Init => RulingInv
  BY DEF Init, RulingInv
<1>2. EngagementInv /\ RulingInv /\ [Next]_vars => RulingInv'
  BY NextRulingInv
<1>3. RulingInv => RulingsStand
  BY DEF RulingInv, Stands, RulingsStand
<1> QED
  BY <1>1, <1>2, <1>3, EngagementInvariance, PTL DEF Spec
=============================================================================
