SPECIFICATION FairSpec
CONSTANTS
  Books <- MCBooks
  Proposals = {"buyKR", "earlySellKR"}
  WebIds = {"web"}
  OldIds = {"old"}
  Symbols <- MCSymbols
  Markets <- MCMarkets
  Listing <- MCListing
  Trade <- MCTrade
  OtherRef = "other"
  Handlers = {h1}
  Writers = {w1}
  WebEdits <- NoEdits
  OldFills <- NoOldFills
  LegacySaved = {}
  NoToken = NoToken
  LostToken = LostToken
  MaxRevision = 3
  MaxFaults = 0
PROPERTIES ClaimsResolve
CHECK_DEADLOCK FALSE
