SPECIFICATION Spec
CONSTANTS
  v1 = v1
  v2 = v2
  Paths <- ThreePaths
  Contents = {v1, v2, own}
  Absent = Absent
  Blocked = Blocked
  Keep = Keep
  Remove = Remove
  Manifest = 1
  Snapshots <- ThreeSnapshots
  NoReceipt = NoReceipt
  NoPlan = NoPlan
INVARIANTS
  TypeOK
  LedgerListsOnlyOwnBytes
PROPERTIES
  OnlyMatchingOwnedTaken
  ExportSettles
  UninstallReleases
