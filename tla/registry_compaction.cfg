SPECIFICATION CompactionSpec
CONSTANTS
  Uploads = {"old1", "old2", "append", "merge", "replace"}
  Compactions = {"c", "d"}
  Keys <- MCKeys
  Values <- MCValues
  Mode <- MCMode
  Content <- MCContent
  Initially <- TwoActive
  Removable = {"old2", "merge", "c"}
  MaxFaults = 1
INVARIANTS BytesRetained
PROPERTIES CutoverPreservesData NoResurrection ActivationsEnd
CHECK_DEADLOCK FALSE
