SPECIFICATION Spec
CONSTANTS
  Books <- MCBooks
  Proposals = {"buyKR", "sellKR"}
  WebIds = {"web"}
  OldIds = {"old"}
  Symbols <- MCSymbols
  Markets <- MCMarkets
  Listing <- MCListing
  Trade <- MCTrade
  OtherRef = "other"
  Handlers = {h1, h2}
  Writers = {w1}
  WebEdits <- RaceEdits
  OldFills <- OldHolding
  LegacySaved = {}
  NoToken = NoToken
  LostToken = LostToken
  MaxRevision = 4
  MaxFaults = 1
SYMMETRY HandlerSymmetry
INVARIANTS TypeOK RevisionNamesContent RecordedWithJournal HeadsMatchDocument NewSliceProjects
PROPERTIES OnlyHolderResolves OnlyRemovalDrops ImplementsInbox
CHECK_DEADLOCK FALSE
