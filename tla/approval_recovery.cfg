SPECIFICATION Spec
CONSTANTS
  Books <- MCBooks
  Proposals = {"buyKR", "buyUS"}
  WebIds = {"web"}
  OldIds = {"old"}
  Symbols <- MCSymbols
  Markets <- MCMarkets
  Listing <- MCListing
  Trade <- MCTrade
  OtherRef = "other"
  Handlers = {h1, h2}
  Writers = {w1}
  WebEdits <- RecoveryEdits
  OldFills <- SavedBuy
  LegacySaved = {"buyKR"}
  NoToken = NoToken
  LostToken = LostToken
  MaxRevision = 4
  MaxFaults = 2
SYMMETRY HandlerSymmetry
INVARIANTS AnswersAreTrue
PROPERTIES JournalOnlyGrows
CHECK_DEADLOCK FALSE
