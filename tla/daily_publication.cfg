SPECIFICATION PipelinesSpec
CONSTANTS
  workflow = workflow
  web = web
  page1 = page1
  job1 = job1
  job2 = job2
  reader1 = reader1
  traded = traded
  rival = rival
  x = x
  y = y
  run1 = run1
  run2 = run2
  stock = stock
  etf = etf
  share = share
  Workflow = workflow
  Webs = {web}
  Browsers = {page1}
  Registered <- FinalThenPreview
  DriveFiles <- ConfirmingFile
  CodeOf <- OneCode
  MaxBuilds = 2
  MaxRegistrations = 1
  JournalRuns = {job1, job2}
  Setups <- ThreeSetups
  LastSession = 2
  MaxReconstructions = 1
  MaxJournalStarts = 2
  KospiReaders = {reader1}
  LastKospiDay = 4
  Correction = 3
  SourceSets <- TwoSourceSets
  CorrectedSources = 2
  CodeVersions = {1, 2}
  MaxKospiRuns = 4
  Stocks = {traded, rival}
  SectorOf <- OneSector
  RowsOf <- TwoStocks
  Slots = 2
  MaxPerSector = 1
  MaxHoldingSessions = 2
  LastBookDay = 6
  UsReaders = {reader1}
  LastUsDay = 3
  Hashes = {x, y}
  LastRevision = 2
  MaxUsRuns = 4
  NoEvidence = NoEvidence
  AllocationRuns = {run1, run2}
  MarketsDue <- TwoUsDays
  EvidenceOf <- UsDiffers
  MaxAllocationStarts = 3
  ListedIn <- OneEach
  QuotesOf <- AllocationQuotes
  OriginLag <- UsOnTheDay
  Capital = 60
  BudgetParts <- WholeEtf
  FeeParts = 10
  MonthLength = 2
  LastAllocationDay = 4
INVARIANTS
  PipelinesTypeOK
  PublicationRecordsAgree
  NoOlderGeneration
  JournalIsFaithful
  KospiSeriesReplay
  ReaderSeesWholeSeries
  KospiBookIsSound
  UsPublicationAgrees
  BooksUseStoredEvidence
  AllocationBookIsSound
PROPERTIES
  PreviewKeepsMarks
  CoverageNeverOverclaims
  OlderSessionsKeepTheirRule
  PipelinesImplement
CHECK_DEADLOCK FALSE
