------------------------ MODULE SaveTransactionsProofs ------------------------
(***************************************************************************)
(* The statement-level save transactions implement atomic saves, for any   *)
(* number of transactions, books and pages.                                *)
(***************************************************************************)
EXTENDS SaveTransactions, TLAPS

\* Ends of a transaction touch the locks in the same way.
LEMMA ReleaseFrees ==
  ASSUME NEW t \in Txns, Release(t), TTypeOK
  PROVE  /\ evidenceLock' \in Txns \cup {Nobody}
         /\ rowLock' \in [Books -> Txns \cup {Nobody}]
         /\ claimLock' \in [Pages -> Txns \cup {Nobody}]
         /\ \A u \in Txns \ {t} :
              /\ evidenceLock = u => evidenceLock' = u
              /\ \A b \in Books : rowLock[b] = u => rowLock'[b] = u
              /\ \A p \in Pages : claimLock[p] = u => claimLock'[p] = u
  BY DEF Release, FreedBy, TTypeOK

LEMMA PayloadIsPages ==
  ASSUME NEW t \in Txns, TTypeOK
  PROVE  Payload(t) \subseteq Pages
  BY TxnAssumption DEF Payload, TTypeOK, Document

-----------------------------------------------------------------------------
LEMMA TypeInit == TInit => TTypeOK
  BY TxnAssumption DEF TInit, Init, TTypeOK, Document, Labels

LEMMA TypeStep == TTypeOK /\ [TNext]_tvars => TTypeOK'
<1> SUFFICES ASSUME TTypeOK, [TNext]_tvars PROVE TTypeOK'
  OBVIOUS
<1>1. CASE UNCHANGED tvars
  BY <1>1 DEF TTypeOK, tvars
<1>2. ASSUME NEW t \in Txns, Rollback(t) PROVE TTypeOK'
  BY <1>2, ReleaseFrees DEF TTypeOK, Rollback, Refuse, GoTo, Labels
<1>3. ASSUME NEW t \in Txns, Begin(t) PROVE TTypeOK'
  BY <1>3, TxnAssumption DEF TTypeOK, Begin, Open, GoTo, Labels, locks
<1>4. ASSUME NEW t \in Txns, LockEvidence(t) PROVE TTypeOK'
  BY <1>4 DEF TTypeOK, LockEvidence, GoTo, Labels, avars
<1>5. ASSUME NEW t \in Txns, CheckClaim(t) PROVE TTypeOK'
  BY <1>2, <1>5 DEF TTypeOK, CheckClaim, GoTo, Labels, avars, locks
<1>6. ASSUME NEW t \in Txns, UpdateRow(t) PROVE TTypeOK'
  BY <1>2, <1>6 DEF TTypeOK, UpdateRow, GoTo, Labels, avars
<1>7. ASSUME NEW t \in Txns, GuardLock(t) PROVE TTypeOK'
  BY <1>7 DEF TTypeOK, GuardLock, GoTo, Labels, avars
<1>8. ASSUME NEW t \in Txns, GuardRead(t) PROVE TTypeOK'
  BY <1>2, <1>8 DEF TTypeOK, GuardRead, GoTo, Labels, avars, locks
<1>9. ASSUME NEW t \in Txns, RecordProposal(t) PROVE TTypeOK'
  BY <1>2, <1>9 DEF TTypeOK, RecordProposal, GoTo, Labels, avars
<1>10. ASSUME NEW t \in Txns, CommitTxn(t) PROVE TTypeOK'
  <2>1. [revision |-> copy[t].revision + 1, pages |-> Payload(t)] \in Document
    BY PayloadIsPages DEF TTypeOK, Document
  <2>2. books' \in [Books -> Document]
    BY <1>10, <2>1 DEF CommitTxn, TTypeOK
  <2>3. claim' \in [Pages -> Txns \cup {Nobody, Recorded}]
    BY <1>10 DEF CommitTxn, TTypeOK
  <2> QED
    BY <1>10, <2>2, <2>3, ReleaseFrees DEF CommitTxn, TTypeOK, GoTo, Labels
<1> QED
  BY <1>1, <1>2, <1>3, <1>4, <1>5, <1>6, <1>7, <1>8, <1>9, <1>10
  DEF TNext, Step, DeadlockAbort, Interrupt

\* Every reachable state of the transactions is well typed.
THEOREM TypeCorrect == TSpec => []TTypeOK
  BY TypeInit, TypeStep, PTL DEF TSpec

-----------------------------------------------------------------------------
LEMMA LocksInit == TInit => LocksProtect
  BY DEF TInit, Init, LocksProtect, Serialised, At

\* One conjunct of LocksProtect, for one transaction.
Protected(t) ==
  /\ Serialised(t) => evidenceLock = t
  /\ outcome[t] = "open" /\ pc[t] \in {"lock", "guard", "record", "commit"} =>
       rowLock[BookOf[t]] = t /\ books[BookOf[t]].revision = copy[t].revision
  /\ outcome[t] = "open" /\ pc[t] \in {"record", "commit"} => EvidenceFree(t)
  /\ At(t, "record") => t \in Approvals
  /\ At(t, "commit") /\ t \in Approvals =>
       claimLock[PageOf[t]] = t /\ claim[PageOf[t]] = t

LEMMA ProtectedAll == LocksProtect <=> \A t \in Txns : Protected(t)
  BY DEF LocksProtect, Protected

LEMMA LocksStep == TTypeOK /\ LocksProtect /\ [TNext]_tvars => LocksProtect'
<1> SUFFICES ASSUME TTypeOK, \A t \in Txns : Protected(t), [TNext]_tvars, NEW u \in Txns
             PROVE  Protected(u)'
  BY ProtectedAll DEF Protected, LocksProtect
<1> USE DEF Protected, Serialised, At
<1>1. CASE UNCHANGED tvars
  BY <1>1 DEF tvars, EvidenceFree, Payload
<1>2. ASSUME NEW t \in Txns, Rollback(t) PROVE Protected(u)'
  <2>1. CASE u = t
    BY <1>2, <2>1 DEF Rollback, Refuse, TTypeOK
  <2>2. CASE u # t
    <3>1. /\ outcome'[u] = outcome[u] /\ pc'[u] = pc[u]
          /\ books' = books /\ claim' = claim /\ copy' = copy
      BY <1>2, <2>2 DEF Rollback, Refuse, GoTo, TTypeOK
    <3>2. /\ evidenceLock = u => evidenceLock' = u
          /\ \A b \in Books : rowLock[b] = u => rowLock'[b] = u
          /\ \A p \in Pages : claimLock[p] = u => claimLock'[p] = u
      BY <1>2, <2>2, ReleaseFrees DEF Rollback
    <3>3. EvidenceFree(u)' <=> EvidenceFree(u)
      BY <3>1 DEF EvidenceFree, Payload
    <3> QED
      BY <3>1, <3>2, <3>3, TxnAssumption
  <2> QED
    BY <2>1, <2>2
<1>3. ASSUME NEW t \in Txns, Begin(t) PROVE Protected(u)'
  BY <1>3, TxnAssumption DEF Begin, Open, GoTo, TTypeOK, locks, EvidenceFree, Payload
<1>4. ASSUME NEW t \in Txns, LockEvidence(t) PROVE Protected(u)'
  BY <1>4, TxnAssumption DEF LockEvidence, GoTo, TTypeOK, avars, EvidenceFree, Payload
<1>5. ASSUME NEW t \in Txns, CheckClaim(t) PROVE Protected(u)'
  BY <1>2, <1>5 DEF CheckClaim, GoTo, TTypeOK, avars, locks, EvidenceFree, Payload
<1>6. ASSUME NEW t \in Txns, UpdateRow(t) PROVE Protected(u)'
  BY <1>2, <1>6, TxnAssumption DEF UpdateRow, GoTo, TTypeOK, avars, EvidenceFree, Payload
<1>7. ASSUME NEW t \in Txns, GuardLock(t) PROVE Protected(u)'
  BY <1>7, TxnAssumption DEF GuardLock, GoTo, TTypeOK, avars, EvidenceFree, Payload
<1>8. ASSUME NEW t \in Txns, GuardRead(t) PROVE Protected(u)'
  BY <1>2, <1>8 DEF GuardRead, GoTo, TTypeOK, avars, locks, EvidenceFree, Payload
<1>9. ASSUME NEW t \in Txns, RecordProposal(t) PROVE Protected(u)'
  BY <1>2, <1>9, TxnAssumption DEF RecordProposal, GoTo, TTypeOK, avars, EvidenceFree, Payload
<1>10. ASSUME NEW t \in Txns, CommitTxn(t) PROVE Protected(u)'
  <2>1. evidenceLock = t /\ rowLock[BookOf[t]] = t
    BY <1>10 DEF CommitTxn
  <2>2. CASE u = t
    BY <1>10, <2>2 DEF CommitTxn, GoTo, TTypeOK
  <2>3. CASE u # t
    <3>1. /\ outcome'[u] = outcome[u] /\ pc'[u] = pc[u] /\ copy' = copy
          /\ \A o \in Books \ {BookOf[t]} : books'[o] = books[o]
      BY <1>10, <2>3 DEF CommitTxn, GoTo, TTypeOK
    <3>2. ~Serialised(u)
      BY <2>1, <2>3
    <3>3. ~(outcome[u] = "open" /\ pc[u] \in {"lock", "guard", "record", "commit"}
              /\ BookOf[u] = BookOf[t])
      BY <2>1, <2>3
    <3>4. \A b \in Books : rowLock[b] = u => rowLock'[b] = u
      BY <1>10, <2>3, ReleaseFrees DEF CommitTxn
    <3> QED
      BY <3>1, <3>2, <3>3, <3>4, TxnAssumption
  <2> QED
    BY <2>2, <2>3
<1> QED
  BY <1>1, <1>2, <1>3, <1>4, <1>5, <1>6, <1>7, <1>8, <1>9, <1>10
  DEF TNext, Step, DeadlockAbort, Interrupt

\* What a save has checked about revision, evidence and claim still holds when
\* it commits, whatever other transactions do in between.
THEOREM ChecksHoldAtCommit == TSpec => []LocksProtect
  BY TypeCorrect, LocksInit, LocksStep, PTL DEF TSpec

-----------------------------------------------------------------------------
LEMMA DisjointStep ==
  TTypeOK /\ LocksProtect /\ EvidenceDisjoint /\ [TNext]_tvars => EvidenceDisjoint'
<1> SUFFICES ASSUME TTypeOK, LocksProtect, EvidenceDisjoint, [TNext]_tvars,
                    NEW b \in Books, NEW o \in Books, b # o
             PROVE  books'[b].pages \cap books'[o].pages = {}
  BY DEF EvidenceDisjoint
<1>1. CASE books' = books
  BY <1>1 DEF EvidenceDisjoint
<1>2. ASSUME NEW t \in Txns, CommitTxn(t)
      PROVE  books'[b].pages \cap books'[o].pages = {}
  <2>1. EvidenceFree(t)
    BY <1>2 DEF CommitTxn, LocksProtect, At
  <2>2. \A c \in Books :
          books'[c] = IF c = BookOf[t]
                      THEN [revision |-> copy[t].revision + 1, pages |-> Payload(t)]
                      ELSE books[c]
    BY <1>2 DEF CommitTxn, TTypeOK
  <2> QED
    BY <2>1, <2>2 DEF EvidenceFree, EvidenceDisjoint
<1> QED
  BY <1>1, <1>2
  DEF TNext, Step, Begin, Open, LockEvidence, CheckClaim, UpdateRow, GuardLock, GuardRead,
      RecordProposal, DeadlockAbort, Interrupt, Rollback, Refuse, tvars, avars

\* No page is evidence in both currency books.
THEOREM NoSharedEvidence == TSpec => []EvidenceDisjoint
<1>1. TInit => EvidenceDisjoint
  BY DEF TInit, Init, EvidenceDisjoint
<1> QED
  BY <1>1, DisjointStep, TypeCorrect, ChecksHoldAtCommit, PTL DEF TSpec

-----------------------------------------------------------------------------
LEMMA StepIsAtomic == TTypeOK /\ LocksProtect /\ [TNext]_tvars => [Next]_avars
<1> SUFFICES ASSUME TTypeOK, LocksProtect, [TNext]_tvars PROVE [Next]_avars
  OBVIOUS
<1>1. ASSUME NEW t \in Txns, Begin(t) PROVE Next
  BY <1>1 DEF Begin, Next
<1>2. ASSUME NEW t \in Txns, Rollback(t) PROVE Next
  BY <1>2 DEF Rollback, Next
<1>3. ASSUME NEW t \in Txns, CommitTxn(t) PROVE Next
  <2>1. Save(t)
    BY <1>3 DEF CommitTxn, Save, LocksProtect, At
  <2> QED
    BY <2>1 DEF Next
<1> QED
  BY <1>1, <1>2, <1>3
  DEF TNext, Step, LockEvidence, CheckClaim, UpdateRow, GuardLock, GuardRead, RecordProposal,
      DeadlockAbort, Interrupt, tvars, avars

\* The transactions implement atomic saves: opening, saving or refusing in one
\* step is all an observer of documents, claims and answers can see.
THEOREM TransactionsImplementSaves == TSpec => SavesAreAtomic
<1>1. TInit => Init
  BY DEF TInit
<1> QED
  BY <1>1, StepIsAtomic, TypeCorrect, ChecksHoldAtCommit, PTL DEF TSpec, SavesAreAtomic, Spec
=============================================================================
