\* Four contents of a node, two searches, files of up to four pages.
CONSTANTS
  MaxPages = 4
  Configs <- MCConfigs
  PromptLimit = 1
  Searches = 2
  Sites <- MCSites
SPECIFICATION Spec
CHECK_DEADLOCK FALSE
INVARIANTS TypeOK BudgetKept PassesEscalate ResultCurrent JudgesWhatItSaw ScreenshotDropped AdviceSound
PROPERTIES PerceptionEnds
