SPECIFICATION Spec
CONSTANTS
  Uploads = {"old1", "old2", "merge"}
  Compactions = {"c"}
  Keys <- MCKeys
  Values <- MCValues
  Mode <- MCMode
  Content <- MCContent
  Initially <- TwoActive
  Removable = {}
  MaxFaults = 0
PROPERTIES MergeWins
CHECK_DEADLOCK FALSE
