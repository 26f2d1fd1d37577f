SPECIFICATION FairSpec
CONSTANTS
  Url <- PortalUrl
  EntryUrl = "root"
  NoUrl = NoUrl
  Cond = {"found"}
  Year = {}
  NoYear = NoYear
  CondYear <- NoYears
  Mentions <- NoMentions
  Score <- EqualScores
  BranchingFactor = 3
  ScanBudget = 12
  Links <- PortalLinks
  Revealed <- PortalRevealed
  Visual <- NoTargets
  Landing <- PortalLanding
  Pdf = {}
  DotPdf = {"doc"}
  Opaque = {}
  Direct = {}
  Readable = {"doc"}
  SearchTo <- PortalSearch
  Query = {"q"}
  Verdicts <- AnyVerdict
  Evidence <- PortalEvidence
  MinCount <- OnePiece
  ReturnHints <- BackHints
  Decisions <- Dithering
  AllowDownload = TRUE
  MaxSteps = 40
INVARIANTS
  TypeOK
  OneNodePerUrl
  PendingSound
PROPERTIES
  AcceptedIsRecorded
  Termination
