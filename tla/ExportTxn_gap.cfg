SPECIFICATION FairSpec
CONSTANTS
  Paths <- TwoPaths
  Contents = {a, b}
  Absent = Absent
  Blocked = Blocked
  Keep = Keep
  Remove = Remove
  Self = txn
  NoPreview = NoPreview
  GapFaults = TRUE
INVARIANTS
  Recoverable
  TxnInv
PROPERTIES
  OutcomeTruthful
  ApplyReturns
