SPECIFICATION Spec
CONSTANTS
  Squads <- MCSquads
  Records <- MCRecords
  Reports <- MCReports
  NoSquad = NoSquad
INVARIANTS TypeOK NoticeMatchesCount RulingsCount
PROPERTY OnlyRulingsClose
