SPECIFICATION FairSpec
CONSTANTS
  Books <- MCBooks
  Proposals = {"buyKR", "buyUS"}
  WebIds = {"web"}
  OldIds = {"old"}
  Symbols <- MCSymbols
  Markets <- MCMarkets
  Listing <- MCListing
  Trade <- MCTrade
  OtherRef = "other"
  Handlers = {h1, h2}
  Writers = {w1}
  WebEdits <- EvidenceEdits
  OldFills <- NoOldFills
  LegacySaved = {}
  NoToken = NoToken
  LostToken = LostToken
  MaxRevision = 3
  MaxFaults = 1
INVARIANTS OnePageOneExecution
PROPERTIES ClaimsResolve
CHECK_DEADLOCK FALSE
