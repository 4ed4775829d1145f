SPECIFICATION Spec
CONSTANTS
  Squads <- MCOneSquad
  SafeNames = {"x", "y"}
  Isolated = {"x"}
  Agents = {"x", "y", "p-x"}
  Snapshots <- MCSnapshots
  Targets <- MCTargets
  Unprovable <- MCUnprovable
  NoSquad = NoSquad
  MaxTime = 2
INVARIANTS TypeOK AuthorsAreOwners DecisionsWithinMandate CollectBrings OnlySandboxUnrecorded
  RulingsStand
