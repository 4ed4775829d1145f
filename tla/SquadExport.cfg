SPECIFICATION Spec
CONSTANTS
  Blank = Blank
  Unsafe = Unsafe
  NamespaceLimit = 5
  IdentifierLimit = 14
  Digest <- MCDigest
  Drafts <- MCDrafts
  GoalFiles <- MCGoalFiles
  SourceTree <- MCSourceTree
  ExportLicense <- MCExportLicense
  Roots <- MCRoots
  Home <- MCHome
  GitRoots <- MCGitRoots
  MaxReceipts = 2
INVARIANTS
  TypeOK
  InstalledValidates
  OneOwnerEach
  Unhindered
  AgentsResolve
  NothingLive
  ReproducesItself
  RegisteredHooksRunnable
  ContextTruthful
  AdaptersAgree
