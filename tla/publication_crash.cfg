SPECIFICATION FairSpec
CONSTANTS
  replayA = replayA
  continuation = continuation
  BookCount = 2
  MaxDate = 2
  MaxVersion = 1
  Replays = {replayA}
  Continuations = {}
  MaxFaults = 1
PROPERTIES
  PreparedCompletes
