SPECIFICATION Spec
CONSTANTS
  Owners <- TidyOwners
  Research = "research"
  Keys <- TwoKeys
  Word <- SameWord
  Blank = Blank
  Chunks <- TidyChunks
  MaxLines = 12
  Cap = 1
  DisputedCap = 1
  Rulings <- Superseded
  OwnerRank <- Alphabetical
  KeyRank <- KeyOrder
INVARIANTS
  TypeOK
  ScriptsAgree
  OnlyContradictionsRefused
  ProjectionComplete
PROPERTY MalformedHidesNothing
