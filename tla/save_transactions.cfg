SPECIFICATION FairTSpec
CONSTANTS
  Txns <- MCTxns
  Approvals <- MCApprovals
  Cancels <- MCCancels
  Books <- MCBooks
  Pages <- MCPages
  BookOf <- MCBookOf
  PageOf <- MCPageOf
  Nobody = "nobody"
  Recorded = "recorded"
INVARIANTS LocksProtect EvidenceDisjoint
PROPERTIES TransactionsEnd SavesAreAtomic
CHECK_DEADLOCK FALSE
