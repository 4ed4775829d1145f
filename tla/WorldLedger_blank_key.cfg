SPECIFICATION Spec
CONSTANTS
  Owners <- TidyOwners
  Research = "research"
  Keys <- BlankKeys
  Word <- FirstWord
  Blank = Blank
  Chunks <- BlankKeyChunks
  MaxLines = 18
  Cap = 1
  DisputedCap = 1
  Rulings <- Superseded
  OwnerRank <- Alphabetical
  KeyRank <- KeyOrder
INVARIANT OnlyContradictionsRefused
