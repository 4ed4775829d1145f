SPECIFICATION Spec
CONSTANTS
  Squads <- MCSquads
  SafeNames = {"x", "y"}
  Isolated = {"x"}
  Agents = {"x", "y", "p-x"}
  Snapshots <- MCSnapshots
  Targets <- MCTargets
  Unprovable <- MCUnprovable
  NoSquad = NoSquad
  MaxTime = 2
INVARIANT LedgersStayApart
