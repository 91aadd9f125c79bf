SPECIFICATION Spec
CONSTANTS
  Uploads = {"append", "merge", "late"}
  Compactions = {}
  Keys <- MCKeys
  Values <- MCValues
  Mode <- MCMode
  Content <- MCContent
  Initially <- NoneActive
  Removable = {}
  MaxFaults = 0
PROPERTIES AppendNeverConflicts
CHECK_DEADLOCK FALSE
