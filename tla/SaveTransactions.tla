--------------------------- MODULE SaveTransactions ---------------------------
(***************************************************************************)
(* The transactions that save a ledger document, statement by statement,   *)
(* at READ COMMITTED: assistant_trade_commit takes the owner's evidence    *)
(* lock and then the document row; a direct website UPDATE takes the row   *)
(* and only then, in the BEFORE trigger, the evidence lock.  Locks are     *)
(* held to the end of the transaction; uncommitted writes are invisible.   *)
(***************************************************************************)
EXTENDS AtomicSaves

VARIABLES
  pc,
  evidenceLock,   \* advisory lock 'actual-evidence:<owner>'
  rowLock,        \* row lock of each document
  claimLock       \* row lock of each proposal

tvars == <<books, claim, copy, outcome, pc, evidenceLock, rowLock, claimLock>>
locks == <<evidenceLock, rowLock, claimLock>>

TInit ==
  /\ Init
  /\ pc = [t \in Txns |-> "start"]
  /\ evidenceLock = Nobody
  /\ rowLock = [b \in Books |-> Nobody]
  /\ claimLock = [p \in Pages |-> Nobody]

At(t, label) == outcome[t] = "open" /\ pc[t] = label
GoTo(t, label) == pc' = [pc EXCEPT ![t] = label]

FreedBy(t, lock) == IF lock = t THEN Nobody ELSE lock

\* Commit or rollback: every lock of the transaction is released.
Release(t) ==
  /\ evidenceLock' = FreedBy(t, evidenceLock)
  /\ rowLock' = [b \in Books |-> FreedBy(t, rowLock[b])]
  /\ claimLock' = [p \in Pages |-> FreedBy(t, claimLock[p])]

Rollback(t) == Refuse(t) /\ Release(t) /\ GoTo(t, "start")

-----------------------------------------------------------------------------
\* assistant_trade_claim is an UPDATE: it waits for the proposal's row.
Begin(t) ==
  /\ Open(t)
  /\ t \in Approvals => claimLock[PageOf[t]] = Nobody
  /\ GoTo(t, IF t \in Approvals THEN "evidence" ELSE "update")
  /\ UNCHANGED locks

LockEvidence(t) ==
  /\ At(t, "evidence") /\ evidenceLock = Nobody
  /\ evidenceLock' = t
  /\ GoTo(t, "claim")
  /\ UNCHANGED <<avars, rowLock, claimLock>>

\* The proposal is read without a lock.
CheckClaim(t) ==
  /\ At(t, "claim")
  /\ IF claim[PageOf[t]] = t
     THEN GoTo(t, "update") /\ UNCHANGED <<avars, locks>>
     ELSE Rollback(t)

\* UPDATE ... WHERE revision = p_revision: a row that no longer matches is
\* skipped without waiting; a matching row is locked, once its holder is done.
UpdateRow(t) ==
  LET b == BookOf[t] IN
  /\ At(t, "update")
  /\ \/ /\ books[b].revision # copy[t].revision
        /\ Rollback(t)
     \/ /\ books[b].revision = copy[t].revision /\ rowLock[b] = Nobody
        /\ rowLock' = [rowLock EXCEPT ![b] = t]
        /\ GoTo(t, "lock")
        /\ UNCHANGED <<avars, evidenceLock, claimLock>>

\* Mutant: the trigger compares the books before it serialises the writers.
GuardLockUnserialised(t) ==
  /\ At(t, "lock") /\ GoTo(t, "guard") /\ UNCHANGED <<avars, locks>>

\* The trigger's advisory lock; the approval holds it already.
GuardLock(t) ==
  /\ At(t, "lock") /\ evidenceLock \in {Nobody, t}
  /\ evidenceLock' = t
  /\ GoTo(t, "guard")
  /\ UNCHANGED <<avars, rowLock, claimLock>>

GuardRead(t) ==
  /\ At(t, "guard")
  /\ IF EvidenceFree(t)
     THEN GoTo(t, IF t \in Approvals THEN "record" ELSE "commit") /\ UNCHANGED <<avars, locks>>
     ELSE Rollback(t)

\* Mutant: the claim was checked at the start, so it is not checked again.
RecordUnchecked(t) ==
  /\ At(t, "record") /\ claimLock[PageOf[t]] = Nobody
  /\ claimLock' = [claimLock EXCEPT ![PageOf[t]] = t]
  /\ GoTo(t, "commit")
  /\ UNCHANGED <<avars, evidenceLock, rowLock>>

\* assistant_trade_record: UPDATE ... WHERE processing_token = p_token.
RecordProposal(t) ==
  LET p == PageOf[t] IN
  /\ At(t, "record") /\ claimLock[p] = Nobody
  /\ IF claim[p] = t
     THEN /\ claimLock' = [claimLock EXCEPT ![p] = t]
          /\ GoTo(t, "commit")
          /\ UNCHANGED <<avars, evidenceLock, rowLock>>
     ELSE Rollback(t)

CommitTxn(t) ==
  /\ At(t, "commit")
  /\ books' = [books EXCEPT ![BookOf[t]] =
                 [revision |-> copy[t].revision + 1, pages |-> Payload(t)]]
  /\ claim' = IF t \in Approvals THEN [claim EXCEPT ![PageOf[t]] = Recorded] ELSE claim
  /\ outcome' = [outcome EXCEPT ![t] = "saved"]
  /\ Release(t)
  /\ GoTo(t, "start")
  /\ UNCHANGED copy

-----------------------------------------------------------------------------
\* The lock t is waiting for is held by u.
WaitsFor(t, u) ==
  /\ t # u /\ u # Nobody
  /\ \/ (At(t, "evidence") \/ At(t, "lock")) /\ evidenceLock = u
     \/ At(t, "update") /\ rowLock[BookOf[t]] = u

\* Mutant: nobody looks for deadlocks.
NeverAborted(t) == FALSE /\ Rollback(t)

\* PostgreSQL aborts one transaction of a cycle of waits.
DeadlockAbort(t) ==
  /\ \E u \in Txns : WaitsFor(t, u) /\ WaitsFor(u, t)
  /\ Rollback(t)

\* The client disconnects or the server dies before the commit.
Interrupt(t) == outcome[t] = "open" /\ Rollback(t)

Step(t) ==
  \/ LockEvidence(t) \/ CheckClaim(t) \/ UpdateRow(t) \/ GuardLock(t) \/ GuardRead(t)
  \/ RecordProposal(t) \/ CommitTxn(t) \/ DeadlockAbort(t)

TNext == \E t \in Txns : Begin(t) \/ Step(t) \/ Interrupt(t)

TSpec == TInit /\ [][TNext]_tvars

\* The database runs every statement it can run and resolves deadlocks; it is
\* not obliged to start or to interrupt anything.
FairTSpec == TSpec /\ \A t \in Txns : WF_tvars(Step(t))

-----------------------------------------------------------------------------
(* Properties.                                                             *)

Labels == {"start", "evidence", "claim", "update", "lock", "guard", "record", "commit"}

\* The type invariant of the transactions.
TTypeOK ==
  /\ books \in [Books -> Document] /\ copy \in [Txns -> Document]
  /\ claim \in [Pages -> Txns \cup {Nobody, Recorded}]
  /\ outcome \in [Txns -> {"idle", "open", "saved", "refused"}]
  /\ pc \in [Txns -> Labels]
  /\ evidenceLock \in Txns \cup {Nobody}
  /\ rowLock \in [Books -> Txns \cup {Nobody}]
  /\ claimLock \in [Pages -> Txns \cup {Nobody}]

\* The transaction is past the point where it owns the evidence lock.
Serialised(t) ==
  /\ outcome[t] = "open"
  /\ \/ pc[t] \in {"claim", "guard", "record", "commit"}
     \/ t \in Approvals /\ pc[t] \in {"update", "lock"}

\* What a transaction has checked stays true until it commits, because it holds
\* the lock that anyone who could falsify it needs: the row for the revision,
\* the evidence lock for the evidence, the proposal's row for the claim.
LocksProtect ==
  \A t \in Txns :
    /\ Serialised(t) => evidenceLock = t
    /\ outcome[t] = "open" /\ pc[t] \in {"lock", "guard", "record", "commit"} =>
         rowLock[BookOf[t]] = t /\ books[BookOf[t]].revision = copy[t].revision
    /\ outcome[t] = "open" /\ pc[t] \in {"record", "commit"} => EvidenceFree(t)
    /\ At(t, "record") => t \in Approvals
    /\ At(t, "commit") /\ t \in Approvals =>
         claimLock[PageOf[t]] = t /\ claim[PageOf[t]] = t

\* "Simultaneous KR/US approvals cannot each observe the other currency's old
\* document and both commit": no page is evidence in two books, in whatever
\* order the transactions take their locks and their reads.
EvidenceDisjoint ==
  \A b, o \in Books : b # o => books[b].pages \cap books[o].pages = {}

\* The statement-level transactions behave as single atomic steps: no update is
\* lost, no evidence booked twice, no approval recorded under a lost claim.
SavesAreAtomic == Spec

\* Every transaction that began ends, although the two lock orders deadlock.
TransactionsEnd == \A t \in Txns : outcome[t] = "open" ~> outcome[t] \in {"saved", "refused"}
=============================================================================
