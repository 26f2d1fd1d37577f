SPECIFICATION Spec
CONSTANTS
  Url <- DatedUrl
  EntryUrl = "root"
  NoUrl = NoUrl
  Cond = {"in23", "in24"}
  Year = {2023, 2024}
  NoYear = NoYear
  CondYear <- DatedCondYear
  Mentions <- DatedMentions
  Score <- DatedScore
  BranchingFactor = 3
  ScanBudget = 12
  Links <- DatedLinks
  Revealed <- NoTargets
  Visual <- NoTargets
  Landing <- SelfLanding
  Pdf = {"y23", "y24"}
  DotPdf = {"y23", "y24"}
  Opaque = {}
  Direct = {"y23", "y24"}
  Readable = {"page"}
  SearchTo <- NoTargets
  Query = {}
  Verdicts <- Judged
  Evidence <- DatedEvidence
  MinCount <- DatedPieces
  ReturnHints = {}
  Decisions <- Filing
  AllowDownload = TRUE
  MaxSteps = 256
INVARIANTS
  PrioritiesCurrent
  VerdictMatchesGoals
  StepBudget
PROPERTIES
  PendingYearFirst
