SPECIFICATION Spec
CONSTANTS
  Paths <- TwoPaths
  Contents = {a, b}
  Absent = Absent
  Blocked = Blocked
  Keep = Keep
  Remove = Remove
  Self = txn
  NoPreview = NoPreview
  GapFaults = FALSE
INVARIANTS
  TypeOK
  Recoverable
PROPERTIES
  OutcomeTruthful
  ImplementsAtomicExport
