SPECIFICATION Spec
CONSTANTS
  Squads <- MCSquads
  Records <- MCFewRecords
  Reports <- MCFewReports
  NoSquad = NoSquad
INVARIANT EachEscalationRuled
