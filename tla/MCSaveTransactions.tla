------------------------- MODULE MCSaveTransactions -------------------------
(***************************************************************************)
(* Two approvals of one KR proposal (the second takes the claim over), one *)
(* US approval, and website saves that cite the same pages from the other  *)
(* book or cancel an execution.                                            *)
(***************************************************************************)
EXTENDS SaveTransactions

MCBooks == {"KR", "US"}
MCPages == {"p", "q"}
MCTxns == {"approve", "retry", "approveUS", "cancelUS", "fillKR"}
MCApprovals == {"approve", "retry", "approveUS"}
MCCancels == {"cancelUS"}
MCBookOf == [t \in Txns |-> IF t \in {"approveUS", "cancelUS"} THEN "US" ELSE "KR"]
MCPageOf == [t \in Txns |-> IF t \in {"approve", "retry"} THEN "p" ELSE "q"]
=============================================================================
