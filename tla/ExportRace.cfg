SPECIFICATION Spec
CONSTANTS
  Paths <- OnePath
  Contents = {a, b}
  Absent = Absent
  Blocked = Blocked
  Keep = Keep
  Remove = Remove
  NoPreview = NoPreview
  Rival = TRUE
PROPERTIES
  CheckedEditsSurvive
  NothingLeftInRemovedBackup
