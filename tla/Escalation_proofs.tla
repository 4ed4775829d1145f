-------------------------- MODULE Escalation_proofs --------------------------
(***************************************************************************)
(* Escalations, for any squads, records and spellings of the files.  What  *)
(* carries the argument is how the three readings of a list compare: what  *)
(* a script reads is named in it, and in a file in form what is named is   *)
(* read by both, but for names that a comment follows.                     *)
(***************************************************************************)
EXTENDS Escalation, TLAPS

ReportFile(file) == file.fenced \in BOOLEAN /\ file.lines \in Seq(ReportLines)

\* A ruling on file is about a record that still shows it, and named in its
\* squad's list: RulingsCount without the spelling.
RulingsNamed ==
  \A p \in ruled :
    /\ p[2] \in DOMAIN records /\ Escalated(records[p[2]])
    /\ p[2] \in Named(ReportOf(p[1]))

EscalationInv == TypeOK /\ RulingsNamed

-----------------------------------------------------------------------------
(* Readings of a list. *)

LEMMA ReportsAreFiles ==
  ASSUME NEW file \in Reports \cup {NoReport}
  PROVE  ReportFile(file)
<1>1. NoReport.fenced \in BOOLEAN /\ NoReport.lines = <<>>
  BY DEF NoReport
<1>2. <<>> \in Seq(ReportLines)
  OBVIOUS
<1> QED
  BY <1>1, <1>2, EscalationAssumption DEF ReportFile

\* verify.sh reads only what is named, in whatever form the file is.
LEMMA ReadIsNamed ==
  ASSUME NEW file, ReportFile(file)
  PROVE  Resolved(file) \subseteq Named(file)
<1> SUFFICES ASSUME NEW role \in Resolved(file)
             PROVE  role \in Named(file)
  OBVIOUS
<1>1. PICK i \in DOMAIN file.lines :
        /\ role \in file.lines[i].roles
        /\ \/ file.lines[i].kind = "flow"
           \/ file.lines[i].kind = "item" /\ Under(file.lines, i, {"item"}, Unreadable)
  BY DEF Resolved, RolesAt, InBrackets, Dashed
<1>2. CASE file.lines[i].kind = "flow"
  BY <1>1, <1>2 DEF Named
<1>3. CASE file.lines[i].kind = "item" /\ Under(file.lines, i, {"item"}, Unreadable)
  <2>1. \E k \in 1..(i - 1) : file.lines[k].kind = "key"
          /\ \A j \in (k + 1)..(i - 1) : file.lines[j].kind = "item"
    BY <1>3 DEF Under
  <2> QED
    BY <1>1, <1>3, <2>1 DEF Named
<1> QED
  BY <1>1, <1>2, <1>3

\* In form, verify.sh reads all that is named.
LEMMA NamedIsRead ==
  ASSUME NEW file, ReportFile(file), ReportInForm(file)
  PROVE  Named(file) \subseteq Resolved(file)
<1> SUFFICES ASSUME NEW role \in Named(file)
             PROVE  role \in Resolved(file)
  OBVIOUS
<1>1. file.fenced
  BY DEF ReportInForm
<1>2. \A i \in DOMAIN file.lines : file.lines[i].form \in ListForms
  <2>1. \A i \in DOMAIN file.lines : file.lines[i] \in ReportLines
    BY DEF ReportFile
  <2> QED
    BY <2>1 DEF ReportLines
<1>3. \A i \in DOMAIN file.lines :
        file.lines[i].kind # "other" => file.lines[i].form \notin Unreadable \cup {"open"}
  BY DEF ReportInForm
<1>4. PICK i \in DOMAIN file.lines :
        /\ role \in file.lines[i].roles
        /\ \/ file.lines[i].kind = "flow"
           \/ /\ file.lines[i].kind = "item"
              /\ \E k \in 1..(i - 1) : file.lines[k].kind = "key"
                   /\ \A j \in (k + 1)..(i - 1) : file.lines[j].kind = "item"
  BY DEF Named
<1>5. CASE file.lines[i].kind = "flow"
  <2>1. i \in InBrackets(file.lines, ListForms \ {"open"})
    BY <1>2, <1>3, <1>5 DEF InBrackets
  <2> QED
    BY <1>1, <1>4, <2>1 DEF Resolved, RolesAt
<1>6. CASE /\ file.lines[i].kind = "item"
           /\ \E k \in 1..(i - 1) : file.lines[k].kind = "key"
                /\ \A j \in (k + 1)..(i - 1) : file.lines[j].kind = "item"
  <2>1. PICK k \in 1..(i - 1) : /\ file.lines[k].kind = "key"
                                /\ \A j \in (k + 1)..(i - 1) : file.lines[j].kind = "item"
    BY <1>6
  <2>2. 1..(i - 1) \subseteq DOMAIN file.lines /\ (k + 1)..(i - 1) \subseteq DOMAIN file.lines
    BY <1>4, <2>1 DEF ReportFile
  <2>3. file.lines[k].form = "plain"
    BY <2>1, <2>2 DEF ReportInForm
  <2>4. \A j \in (k + 1)..(i - 1) : file.lines[j].form \notin Unreadable
    BY <1>3, <2>1, <2>2
  <2>5. Under(file.lines, i, {"item"}, Unreadable)
    BY <2>1, <2>3, <2>4 DEF Under
  <2>6. i \in Dashed(file.lines, ListForms \ Unreadable, {"item"}, Unreadable)
    BY <1>2, <1>3, <1>6, <2>5 DEF Dashed
  <2> QED
    BY <1>1, <1>4, <2>6 DEF Resolved, RolesAt
<1> QED
  BY <1>4, <1>5, <1>6

\* In form, session-start.sh takes no role for resolved that is not named.
LEMMA StartReadsNamed ==
  ASSUME NEW file, ReportFile(file), ReportInForm(file)
  PROVE  ResolvedAtStart(file) \subseteq Named(file)
<1> SUFFICES ASSUME NEW role \in ResolvedAtStart(file)
             PROVE  role \in Named(file)
  OBVIOUS
<1>1. PICK i \in DOMAIN file.lines :
        /\ role \in file.lines[i].roles
        /\ \/ file.lines[i].kind = "flow"
           \/ file.lines[i].kind = "item" /\ Under(file.lines, i, {"item", "flow"}, {})
  BY DEF ResolvedAtStart, RolesAt, InBrackets, Dashed
<1>2. CASE file.lines[i].kind = "flow"
  BY <1>1, <1>2 DEF Named
<1>3. CASE file.lines[i].kind = "item" /\ Under(file.lines, i, {"item", "flow"}, {})
  <2>1. PICK k \in 1..(i - 1) :
          /\ file.lines[k].kind = "key"
          /\ \A j \in (k + 1)..(i - 1) : file.lines[j].kind \in {"item", "flow"}
    BY <1>3 DEF Under
  <2>2. k \in DOMAIN file.lines /\ (k + 1)..(i - 1) \subseteq DOMAIN file.lines
    BY <1>1, <2>1 DEF ReportFile
  <2>3. ASSUME NEW j \in (k + 1)..(i - 1)
        PROVE  file.lines[j].kind = "item"
    <3>1. CASE file.lines[j].kind = "flow"
      <4>1. j = k
        BY <2>1, <2>2, <3>1 DEF ReportInForm
      <4> QED
        BY <2>1, <4>1, <1>1 DEF ReportFile
    <3> QED
      BY <2>1, <3>1
  <2> QED
    BY <1>1, <1>3, <2>1, <2>3 DEF Named
<1> QED
  BY <1>1, <1>2, <1>3

\* Without comments, session-start.sh reads what verify.sh reads.
LEMMA ReadAtStart ==
  ASSUME NEW file, ReportFile(file),
         \A i \in DOMAIN file.lines : file.lines[i].form # "commented"
  PROVE  Resolved(file) \subseteq ResolvedAtStart(file)
<1>1. InBrackets(file.lines, ListForms \ {"open"}) \subseteq InBrackets(file.lines, ListForms)
  BY DEF InBrackets
<1>2. ASSUME NEW i \in Dashed(file.lines, ListForms \ Unreadable, {"item"}, Unreadable)
      PROVE  i \in Dashed(file.lines, ListForms \ {"commented"}, {"item", "flow"}, {})
  <2>1. Under(file.lines, i, {"item", "flow"}, {})
    BY <1>2 DEF Dashed, Under
  <2> QED
    BY <1>2, <2>1 DEF Dashed
<1> QED
  BY <1>1, <1>2 DEF Resolved, ResolvedAtStart, RolesAt

-----------------------------------------------------------------------------
(* The steps. *)

\* A park and a switch move verification.md, and leave whose it is.
LEMMA FilesMove ==
  ASSUME TypeOK, Park \/ \E s \in DOMAIN Squads : TakeUp(s),
         NEW s \in DOMAIN Squads
  PROVE  ReportOf(s)' = ReportOf(s)
<1>1. s # NoSquad
  BY EscalationAssumption
<1>2. CASE Park
  BY <1>1, <1>2 DEF Park, ReportOf, TypeOK
<1>3. CASE \E t \in DOMAIN Squads : TakeUp(t)
  <2>1. PICK t \in DOMAIN Squads : TakeUp(t)
    BY <1>3
  <2> QED
    BY <1>1, <2>1 DEF TakeUp, ReportOf, TypeOK
<1> QED
  BY <1>2, <1>3

LEMMA TypesKept ==
  ASSUME TypeOK, [Next]_vars
  PROVE  TypeOK'
<1> USE DEF TypeOK, Roles
<1>1. CASE UNCHANGED vars
  BY <1>1 DEF vars
<1>2. ASSUME NEW role \in Roles, NEW record \in Records, Publish(role, record)
      PROVE  TypeOK'
  BY <1>2 DEF Publish
<1>3. ASSUME NEW roles \in SUBSET Roles, Dispatch(roles)
      PROVE  TypeOK'
  BY <1>3 DEF Dispatch
<1>4. ASSUME NEW rulings \in SUBSET Roles, NEW file \in Reports, Verify(rulings, file)
      PROVE  TypeOK'
  BY <1>4 DEF Verify
<1>5. ASSUME NEW file \in Reports, Lose(file)
      PROVE  TypeOK'
  BY <1>5 DEF Lose
<1>6. ASSUME NEW role \in Roles, Toggle(role)
      PROVE  TypeOK'
  BY <1>6 DEF Toggle
<1>7. CASE Park
  BY <1>7 DEF Park
<1>8. ASSUME NEW s \in DOMAIN Squads, TakeUp(s)
      PROVE  TypeOK'
  <2>1. s # NoSquad
    BY EscalationAssumption
  <2> QED
    BY <1>8, <2>1 DEF TakeUp
<1> QED
  BY <1>1, <1>2, <1>3, <1>4, <1>5, <1>6, <1>7, <1>8 DEF Next

LEMMA RulingsKept ==
  ASSUME EscalationInv, [Next]_vars
  PROVE  RulingsNamed'
<1> USE DEF EscalationInv, RulingsNamed
<1>0. TypeOK
  OBVIOUS
<1>1. CASE UNCHANGED vars
  BY <1>1 DEF vars, ReportOf
<1>2. ASSUME NEW role \in Roles, NEW record \in Records, Publish(role, record)
      PROVE  RulingsNamed'
  BY <1>2 DEF Publish, ReportOf
<1>3. ASSUME NEW roles \in SUBSET Roles, Dispatch(roles)
      PROVE  RulingsNamed'
  BY <1>3 DEF Dispatch, ReportOf
<1>4. ASSUME NEW rulings \in SUBSET Roles, NEW file \in Reports, Verify(rulings, file)
      PROVE  RulingsNamed'
  <2>1. ASSUME NEW p \in ruled
        PROVE  p[2] \in Named(ReportOf(p[1])')
    BY <1>4 DEF Verify, ReportOf
  <2>2. ASSUME NEW p \in {squad} \X rulings
        PROVE  /\ p[2] \in DOMAIN records /\ Escalated(records[p[2]])
               /\ p[2] \in Named(ReportOf(p[1])')
    BY <1>4 DEF Verify, ToRule, ReportOf
  <2>3. records' = records /\ ruled' = ruled \cup ({squad} \X rulings)
    BY <1>4 DEF Verify
  <2> QED
    BY <2>1, <2>2, <2>3
<1>5. ASSUME NEW file \in Reports, Lose(file)
      PROVE  RulingsNamed'
  BY <1>5 DEF Lose, ReportOf
<1>6. ASSUME NEW role \in Roles, Toggle(role)
      PROVE  RulingsNamed'
  BY <1>6 DEF Toggle, ReportOf
<1>7. CASE Park \/ \E s \in DOMAIN Squads : TakeUp(s)
  <2>1. records' = records /\ ruled' = ruled
    BY <1>7 DEF Park, TakeUp
  <2>2. \A p \in ruled : p[1] \in DOMAIN Squads
    BY <1>0 DEF TypeOK
  <2>3. \A p \in ruled : ReportOf(p[1])' = ReportOf(p[1])
    BY <1>0, <1>7, <2>2, FilesMove
  <2> QED
    BY <2>1, <2>3
<1> QED
  BY <1>1, <1>2, <1>3, <1>4, <1>5, <1>6, <1>7 DEF Next

\* EscalationInv is inductive.
THEOREM EscalationInvariance == Spec => []EscalationInv
<1>1. Init => EscalationInv
  <2> SUFFICES ASSUME Init
               PROVE  EscalationInv
    OBVIOUS
  <2>1. TypeOK
    BY DEF Init, TypeOK
  <2> QED
    BY <2>1 DEF Init, EscalationInv, RulingsNamed
<1>2. EscalationInv /\ [Next]_vars => EscalationInv'
  BY TypesKept, RulingsKept DEF EscalationInv
<1> QED
  BY <1>1, <1>2, PTL DEF Spec

-----------------------------------------------------------------------------
(* What follows. *)

\* verification.md lies at the root exactly while its squad is active.
THEOREM EscalationTypes == Spec => []TypeOK
<1>1. EscalationInv => TypeOK
  BY DEF EscalationInv
<1> QED
  BY <1>1, EscalationInvariance, PTL

LEMMA FilesOfSquads ==
  ASSUME TypeOK
  PROVE  /\ ReportFile(report)
         /\ \A s \in DOMAIN Squads : ReportFile(ReportOf(s))
<1>1. report \in Reports \cup {NoReport}
  BY DEF TypeOK
<1>2. \A s \in DOMAIN Squads : ReportOf(s) \in Reports \cup {NoReport}
  BY DEF TypeOK, ReportOf
<1> QED
  BY <1>1, <1>2, ReportsAreFiles

\* A ruling counts while the record shows what was ruled on and the list is in form
\* (RulingsCount), however often it is verified again, parked and taken up.
THEOREM RulingsAreCounted == Spec => []RulingsCount
<1>1. EscalationInv => RulingsCount
  <2> SUFFICES ASSUME EscalationInv, NEW p \in ruled, ReportInForm(ReportOf(p[1]))
               PROVE  p[2] \in Resolved(ReportOf(p[1]))
    BY DEF EscalationInv, RulingsNamed, RulingsCount
  <2>1. p[1] \in DOMAIN Squads
    BY DEF EscalationInv, TypeOK
  <2>2. ReportFile(ReportOf(p[1]))
    BY <2>1, FilesOfSquads DEF EscalationInv
  <2>3. p[2] \in Named(ReportOf(p[1]))
    BY DEF EscalationInv, RulingsNamed
  <2> QED
    BY <2>2, <2>3, NamedIsRead
<1> QED
  BY <1>1, EscalationInvariance, PTL

\* The session's start tells what verify.sh counts (NoticeMatchesCount), for files
\* in form.
THEOREM NoticesMatch == Spec => []NoticeMatchesCount
<1>1. TypeOK => NoticeMatchesCount
  <2> SUFFICES ASSUME TypeOK, NEW role \in DOMAIN records,
                      RecordInForm(records[role]), ReportInForm(report)
               PROVE  /\ role \in Open => role \in Noticed
                      /\ role \in Noticed =>
                           \/ role \in Open
                           \/ squad = NoSquad \/ role \notin active[squad]
                           \/ Len(records[role].status) > 1
                           \/ records[role].status[1].value = "escalated-later"
                           \/ \E i \in DOMAIN report.lines : report.lines[i].form = "commented"
    BY DEF NoticeMatchesCount
  <2>1. ReportFile(report)
    BY FilesOfSquads
  <2>2. records[role].status \in Seq(StatusLines)
    BY EscalationAssumption DEF TypeOK
  <2>3. ASSUME role \in Open
        PROVE  role \in Noticed
    <3>1. Escalated(records[role]) /\ role \notin Resolved(report)
      BY <2>3 DEF Open
    <3>2. 1 \in DOMAIN records[role].status
      BY <2>2, <3>1 DEF Escalated
    <3>3. EscalatedAtStart(records[role])
      BY <3>1, <3>2 DEF Escalated, EscalatedAtStart, RecordInForm
    <3>4. role \notin ResolvedAtStart(report)
      BY <2>1, <3>1, StartReadsNamed, NamedIsRead
    <3> QED
      BY <3>3, <3>4 DEF Noticed
  <2>4. ASSUME role \in Noticed,
               squad # NoSquad, role \in active[squad],
               ~(Len(records[role].status) > 1),
               records[role].status[1].value # "escalated-later",
               \A i \in DOMAIN report.lines : report.lines[i].form # "commented"
        PROVE  role \in Open
    <3>1. EscalatedAtStart(records[role]) /\ role \notin ResolvedAtStart(report)
      BY <2>4 DEF Noticed
    <3>2. PICK i \in DOMAIN records[role].status :
            records[role].status[i].value \in {"escalated", "escalated-later"}
      BY <3>1 DEF EscalatedAtStart
    <3>3. i = 1
      BY <2>2, <2>4, <3>2
    <3>4. Escalated(records[role])
      BY <2>2, <2>4, <3>1, <3>2, <3>3 DEF Escalated, EscalatedAtStart
    <3>5. role \notin Resolved(report)
      BY <2>1, <2>4, <3>1, ReadAtStart
    <3> QED
      BY <2>4, <3>4, <3>5 DEF Open
  <2> QED
    BY <2>3, <2>4
<1> QED
  BY <1>1, EscalationTypes, PTL

\* Within a squad an open escalation is closed by its role, its dispatch or
\* deactivation, or the human, only (OnlyRulingsClose).
THEOREM OnlyRulings == Spec => OnlyRulingsClose
<1>1. TypeOK /\ TypeOK' /\ [Next]_vars => [ClosedByRuling]_vars
  <2> SUFFICES ASSUME TypeOK, TypeOK', Next, squad' = squad,
                      NEW role \in Open, role \notin Open', ~Settled(role)
               PROVE  FALSE
    BY DEF ClosedByRuling
  <2>1. squad # NoSquad /\ role \notin Resolved(report)
    BY DEF Open
  <2>2. role \in Resolved(report')
    BY <2>1 DEF Open, Settled
  <2>3. role \in Named(report')
    <3>1. ReportFile(report')
      BY ReportsAreFiles DEF TypeOK
    <3> QED
      BY <2>2, <3>1, ReadIsNamed
  <2>4. report' # report
    BY <2>1, <2>2
  <2>5. ASSUME NEW rulings \in SUBSET Roles, NEW file \in Reports, Verify(rulings, file)
        PROVE  FALSE
    BY <2>3, <2>5 DEF Verify, Settled
  <2>6. ASSUME NEW file \in Reports, Lose(file)
        PROVE  FALSE
    BY <2>3, <2>6 DEF Lose, Settled
  <2>7. ~Park /\ \A s \in DOMAIN Squads : ~TakeUp(s)
    BY <2>1 DEF Park, TakeUp
  <2> QED
    BY <2>4, <2>5, <2>6, <2>7 DEF Next, Publish, Dispatch, Toggle
<1> QED
  BY <1>1, EscalationTypes, PTL DEF Spec, OnlyRulingsClose
=============================================================================
