SPECIFICATION FairSpec
CONSTANTS
  replayA = replayA
  continuation = continuation
  BookCount = 2
  MaxDate = 2
  MaxVersion = 2
  Replays = {replayA}
  Continuations = {continuation}
  MaxFaults = 1
INVARIANTS
  TypeOK
  OneDecision
  ProcessedIsRecorded
PROPERTIES
  ImplementsShadowBooks
  PreparedCompletes
