---------------------------- MODULE MCEscalation ----------------------------
(* Two squads with a role of the same name; each spelling of a record and of   *)
(* a list that one of the scripts treats apart.                                *)
EXTENDS Escalation

MCSquads == [s \in {"one", "two"} |-> IF s = "one" THEN {"x", "y"} ELSE {"x"}]

Status(value, form) == [value |-> value, form |-> form]
Record(status) == [fenced |-> TRUE, status |-> status]

MCRecords ==
  {Record(<<Status(v, "plain")>>) : v \in {"active", "escalated", "escalated-later"}}
  \cup {Record(<<Status("escalated", f)>>) : f \in {"commented", "quoted"}}
  \cup {Record(<<Status("active", "plain"), Status("escalated", "plain")>>)}

Key == [kind |-> "key", form |-> "plain", roles |-> {}]
KeyNoted == [Key EXCEPT !.form = "commented"]
Other == [kind |-> "other", form |-> "plain", roles |-> {}]
Item(form, role) == [kind |-> "item", form |-> form, roles |-> {role}]
Bare == [kind |-> "item", form |-> "blank", roles |-> {}]
Brackets(form, roles) == [kind |-> "flow", form |-> form, roles |-> roles]
File(lines) == [fenced |-> TRUE, lines |-> lines]

MCReports ==
  {File(<<Brackets("plain", roles)>>) : roles \in SUBSET {"x", "y"}}
  \cup {File(lines) : lines \in
    {<<Key, Item("plain", "x"), Other>>,
     <<Key, Item("plain", "x"), Item("plain", "y")>>,
     <<Key, Item("quoted", "y"), Item("commented", "x")>>,
     <<Key, Other, Item("plain", "x")>>,
     <<Key, Bare, Item("flush", "y")>>,
     <<Key, Item("tight", "x"), Item("plain", "y")>>,
     <<KeyNoted, Item("plain", "x")>>,
     <<Brackets("open", {"x"})>>}}

MCFewRecords == {Record(<<Status(v, "plain")>>) : v \in {"active", "escalated"}}
MCFewReports == {File(<<Brackets("plain", roles)>>) : roles \in SUBSET {"x", "y"}}
=============================================================================
