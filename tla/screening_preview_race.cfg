SPECIFICATION ScreeningSpec
CONSTANTS
  workflow = workflow
  web = web
  Workflow = workflow
  Webs = {web}
  Browsers = {}
  Registered <- FinalThenPreview
  DriveFiles <- ConfirmingFile
  CodeOf <- OneCode
  MaxBuilds = 2
  MaxRegistrations = 1
PROPERTIES ReplacedMarksAreKept
CHECK_DEADLOCK FALSE
