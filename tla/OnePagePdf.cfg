\* One content of a node, no search, files of up to four pages.
CONSTANTS
  MaxPages = 4
  Configs <- MCConfigs
  PromptLimit = 1
  Searches = 0
  Sites <- MCLeaf
SPECIFICATION Spec
CHECK_DEADLOCK FALSE
INVARIANTS ValidationAnswers
