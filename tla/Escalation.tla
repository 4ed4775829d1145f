----------------------------- MODULE Escalation -----------------------------
(***************************************************************************)
(* Escalations: a role stops and says so in its engagement record, the     *)
(* human rules, squad-verify notes the role in verification.md.  Two       *)
(* scripts derive from these files what is still open: verify.sh, whose    *)
(* count blocks the verdict "met", and session-start.sh, whose notice      *)
(* tells the human.  Neither keeps a state.                                *)
(*                                                                         *)
(* A record is its frontmatter's status lines, a verification file the     *)
(* frontmatter lines that can bear on its list of resolved escalations.    *)
(* Of a line's spelling we keep the form, as far as a script minds it.     *)
(***************************************************************************)
EXTENDS Naturals, Sequences

CONSTANTS
  Squads,   \* squad -> the roles of its roster
  Records,  \* engagement records that roles publish
  Reports,  \* verification files that get written
  NoSquad

Roles == UNION {Squads[s] : s \in DOMAIN Squads}

RecordForms == {"plain", "commented", "quoted", "spaced"}  \* spaced: blank before the colon
ListForms == {"plain", "flush", "quoted", "commented", "tight", "blank", "open"}

StatusLines == [value : {"escalated", "escalated-later", "active", "amended"}, form : RecordForms]

\* A key that opens a block list, the key with a list in brackets, a dashed
\* item, or another line.  tight: no blank after the dash; blank: nothing after
\* it; open: bracket not closed at the end of the line.
ReportLines == [kind : {"key", "flow", "item", "other"}, form : ListForms, roles : SUBSET Roles]

\* No file at all reads like one without frontmatter.
NoReport == [fenced |-> FALSE, lines |-> <<>>]

ASSUME EscalationAssumption ==
  /\ NoSquad \notin DOMAIN Squads
  /\ \A r \in Records : r.fenced \in BOOLEAN /\ r.status \in Seq(StatusLines)
  /\ \A f \in Reports : f.fenced \in BOOLEAN /\ f.lines \in Seq(ReportLines)

VARIABLES
  squad,    \* the active squad, or NoSquad
  active,   \* squad -> the active roles of its roster
  records,  \* role -> engagement record at the project root
  report,   \* verification.md
  parked,   \* squad -> verification.md of the parked squad
  ruled     \* history: squad and role, if the human ruled on the escalation
            \* that the role's record still shows and the ruling is on file

vars == <<squad, active, records, report, parked, ruled>>

-----------------------------------------------------------------------------
(* verify.sh *)

\* frontmatter_field: the first status line, comment and quotes taken off.
Escalated(record) ==
  record.fenced /\ record.status # <<>> /\ record.status[1].value = "escalated"

\* Line i stands under a key, with only such lines between them.
Under(lines, i, kinds, barred) ==
  \E k \in 1..(i - 1) :
    /\ lines[k].kind = "key" /\ lines[k].form = "plain"
    /\ \A j \in (k + 1)..(i - 1) : lines[j].kind \in kinds /\ lines[j].form \notin barred

Unreadable == {"tight", "blank"}

InBrackets(lines, forms) == {i \in DOMAIN lines : lines[i].kind = "flow" /\ lines[i].form \in forms}

\* Items of a block list, in such forms.
Dashed(lines, forms, kinds, barred) ==
  {i \in DOMAIN lines :
     lines[i].kind = "item" /\ lines[i].form \in forms /\ Under(lines, i, kinds, barred)}

\* What the lines bring, if the file has a frontmatter.
RolesAt(file, lines) == IF file.fenced THEN UNION {file.lines[i].roles : i \in lines} ELSE {}

\* Mutants of Resolved: only a dash in column 0; any line may stand between.
ResolvedFlush(file) ==
  RolesAt(file, InBrackets(file.lines, ListForms \ {"open"})
                \cup Dashed(file.lines, {"flush"}, {"item"}, Unreadable))

ResolvedAnywhere(file) ==
  RolesAt(file, InBrackets(file.lines, ListForms \ {"open"})
                \cup Dashed(file.lines, ListForms \ Unreadable, {"item", "flow", "other"}, {}))

\* resolved_escalation_roles: a dash without blank or text is no item and ends the list.
Resolved(file) ==
  RolesAt(file, InBrackets(file.lines, ListForms \ {"open"})
                \cup Dashed(file.lines, ListForms \ Unreadable, {"item"}, Unreadable))

\* The escalations of active roles that verify.sh counts; without roster it refuses.
Open ==
  IF squad = NoSquad THEN {}
  ELSE {role \in active[squad] \cap DOMAIN records :
          Escalated(records[role]) /\ role \notin Resolved(report)}

-----------------------------------------------------------------------------
(* session-start.sh *)

\* Any status line, if the word follows the colon; a hyphen ends a word.
EscalatedAtStart(record) ==
  /\ record.fenced
  /\ \E i \in DOMAIN record.status :
       /\ record.status[i].value \in {"escalated", "escalated-later"}
       /\ record.status[i].form \in {"plain", "commented"}

\* Mutant of ResolvedAtStart: any line may stand between.
ResolvedAtStartAnywhere(file) ==
  RolesAt(file, InBrackets(file.lines, ListForms)
                \cup Dashed(file.lines, ListForms \ {"commented"}, {"item", "flow", "other"}, {}))

\* role_resolved: comments stay, a dash needs no blank, a list in brackets may lack
\* its end and does not end the one before it.
ResolvedAtStart(file) ==
  RolesAt(file, InBrackets(file.lines, ListForms)
                \cup Dashed(file.lines, ListForms \ {"commented"}, {"item", "flow"}, {}))

\* The records the notice counts: of any role, on the roster or not.
Noticed ==
  {role \in DOMAIN records :
     EscalatedAtStart(records[role]) /\ role \notin ResolvedAtStart(report)}

-----------------------------------------------------------------------------
(* The skills, and the roles. *)

\* The roles a reader finds in the list, however its lines are spelt.
Named(file) ==
  UNION {file.lines[i].roles : i \in {i \in DOMAIN file.lines :
    \/ file.lines[i].kind = "flow"
    \/ /\ file.lines[i].kind = "item"
       /\ \E k \in 1..(i - 1) : file.lines[k].kind = "key"
            /\ \A j \in (k + 1)..(i - 1) : file.lines[j].kind = "item"}}

Init ==
  /\ squad = NoSquad
  /\ active = [s \in DOMAIN Squads |-> Squads[s]]
  /\ records = [role \in {} |-> NoReport]
  /\ report = NoReport
  /\ parked = [s \in DOMAIN Squads |-> NoReport]
  /\ ruled = {}

\* A role writes its record, or collect brings it.  What was ruled on is over
\* when the record no longer shows it.
Publish(role, record) ==
  /\ squad # NoSquad /\ role \in active[squad]
  /\ records' = [r \in DOMAIN records \cup {role} |-> IF r = role THEN record ELSE records[r]]
  /\ ruled' = IF Escalated(record) THEN ruled ELSE {p \in ruled : p[2] # role}
  /\ UNCHANGED <<squad, active, report, parked>>

\* squad-spawn clears the records of the roles it is about to dispatch, and only
\* those; a follow-on stage keeps them.
Dispatch(roles) ==
  /\ squad # NoSquad /\ roles \subseteq active[squad]
  /\ records' = [r \in DOMAIN records \ roles |-> records[r]]
  /\ ruled' = {p \in ruled : p[2] \notin roles}
  /\ UNCHANGED <<squad, active, report, parked>>

\* Escalated records of active roles that the prior file's list does not name.
ToRule == {role \in active[squad] \cap DOMAIN records :
             Escalated(records[role]) /\ role \notin Named(report)}

\* squad-verify: the file is written anew, the prior list carried over, and what
\* the human ruled on now added.
Verify(rulings, file) ==
  /\ squad # NoSquad /\ rulings \subseteq ToRule
  /\ Named(file) = Named(report) \cup rulings
  /\ report' = file
  /\ ruled' = ruled \cup ({squad} \X rulings)
  /\ UNCHANGED <<squad, active, records, parked>>

\* A rewrite that loses part of the list: cut short, or by hand.
Lose(file) ==
  /\ squad # NoSquad /\ Named(file) \subseteq Named(report)
  /\ report' = file
  /\ ruled' = {p \in ruled : p[1] = squad => p[2] \in Named(file)}
  /\ UNCHANGED <<squad, active, records, parked>>

\* squad-roster: a role is deactivated or active again.
Toggle(role) ==
  /\ squad # NoSquad /\ role \in Squads[squad]
  /\ active' = [active EXCEPT ![squad] = IF role \in @ THEN @ \ {role} ELSE @ \cup {role}]
  /\ UNCHANGED <<squad, records, report, parked, ruled>>

\* Mutant of Park: leaves verification.md where it is.
ParkForgets ==
  /\ squad # NoSquad /\ squad' = NoSquad
  /\ UNCHANGED <<active, records, report, parked, ruled>>

\* squad-goal moves roster and verification.md away; records stay.
Park ==
  /\ squad # NoSquad /\ squad' = NoSquad
  /\ parked' = [parked EXCEPT ![squad] = report]
  /\ report' = NoReport
  /\ UNCHANGED <<active, records, ruled>>

\* A new squad, or back to a parked one.
TakeUp(s) ==
  /\ squad = NoSquad /\ squad' = s
  /\ report' = parked[s]
  /\ parked' = [parked EXCEPT ![s] = NoReport]
  /\ UNCHANGED <<active, records, ruled>>

Next ==
  \/ \E role \in Roles, record \in Records : Publish(role, record)
  \/ \E roles \in SUBSET Roles : Dispatch(roles)
  \/ \E rulings \in SUBSET Roles, file \in Reports : Verify(rulings, file)
  \/ \E file \in Reports : Lose(file)
  \/ \E role \in Roles : Toggle(role)
  \/ Park
  \/ \E s \in DOMAIN Squads : TakeUp(s)

Spec == Init /\ [][Next]_vars

-----------------------------------------------------------------------------
ReportOf(s) == IF s = squad THEN report ELSE parked[s]

\* Besides the types: verification.md lies at the root exactly while its squad is
\* active.
TypeOK ==
  /\ squad \in DOMAIN Squads \cup {NoSquad}
  /\ DOMAIN active = DOMAIN Squads /\ \A s \in DOMAIN Squads : active[s] \subseteq Squads[s]
  /\ DOMAIN records \subseteq Roles /\ \A role \in DOMAIN records : records[role] \in Records
  /\ report \in Reports \cup {NoReport}
  /\ parked \in [DOMAIN Squads -> Reports \cup {NoReport}]
  /\ IF squad = NoSquad THEN report = NoReport ELSE parked[squad] = NoReport
  /\ ruled \subseteq (DOMAIN Squads) \X Roles

\* Spelt as the templates have it; comments are welcome in both.
RecordInForm(record) ==
  \A i \in DOMAIN record.status : record.status[i].form \in {"plain", "commented"}

ReportInForm(file) ==
  LET keys == {i \in DOMAIN file.lines : file.lines[i].kind \in {"key", "flow"}}
  IN  /\ file.fenced \/ Named(file) = {}
      /\ \A i \in DOMAIN file.lines :
           file.lines[i].kind # "other" => file.lines[i].form \notin Unreadable \cup {"open"}
      /\ \A i \in keys : keys = {i} /\ (file.lines[i].kind = "key" => file.lines[i].form = "plain")

\* What verify.sh counts, the session's start tells, if the files are in form.
\* It tells more only of a role that is not on the active roster, of a record with
\* a further status line, or if a comment follows a name on the list.
NoticeMatchesCount ==
  \A role \in DOMAIN records :
    RecordInForm(records[role]) /\ ReportInForm(report) =>
      /\ role \in Open => role \in Noticed
      /\ role \in Noticed => \/ role \in Open
                             \/ squad = NoSquad \/ role \notin active[squad]
                             \/ Len(records[role].status) > 1
                             \/ records[role].status[1].value = "escalated-later"
                             \/ \E i \in DOMAIN report.lines : report.lines[i].form = "commented"

\* A ruling counts for as long as the record shows what was ruled on and the file
\* is in form: through re-verifications, parking and switching back.
RulingsCount ==
  \A p \in ruled :
    /\ p[2] \in DOMAIN records /\ Escalated(records[p[2]])
    /\ ReportInForm(ReportOf(p[1])) => p[2] \in Resolved(ReportOf(p[1]))

\* Why an escalation is no longer open: its role wrote the record again, is being
\* dispatched again or deactivated; the human ruled; or the list named the role
\* before, in a line that verify.sh could not read.
Settled(role) ==
  \/ role \notin DOMAIN records' \/ ~Escalated(records'[role])
  \/ role \notin active'[squad]
  \/ <<squad, role>> \in ruled'
  \/ role \in Named(report)

\* Of one squad's open escalations, none is closed but for these reasons: never by
\* what another role or squad does, nor by rewriting the file without a ruling.
ClosedByRuling ==
  squad' = squad => \A role \in Open : role \notin Open' => Settled(role)

OnlyRulingsClose == [][ClosedByRuling]_vars

\* CHANGELOG.md:190: only the human's recorded ruling closes an escalation.
\* Violated: the list holds names for good (verify.sh:577-588), so that an earlier
\* ruling closes what a role escalates in a later dispatch.
EachEscalationRuled ==
  squad # NoSquad =>
    \A role \in active[squad] \cap DOMAIN records :
      Escalated(records[role]) /\ role \notin Open => <<squad, role>> \in ruled
=============================================================================
