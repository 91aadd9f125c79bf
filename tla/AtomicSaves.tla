----------------------------- MODULE AtomicSaves -----------------------------
(***************************************************************************)
(* What one database transaction of a ledger save promises: it takes       *)
(* effect in a single step or not at all.  The step finds the document at  *)
(* the revision that was read, its evidence in no other book and, for an   *)
(* approval, the caller's claim still current.                             *)
(***************************************************************************)
EXTENDS Naturals

CONSTANTS
  Txns,       \* save transactions; each runs at most once
  Approvals,  \* those that run assistant_trade_commit
  Cancels,    \* website saves that remove the execution on a page
  Books,
  Pages,      \* Notion pages; an approval's proposal is named by its page
  BookOf, PageOf,
  Nobody, Recorded

ASSUME TxnAssumption ==
  /\ Approvals \subseteq Txns /\ Cancels \subseteq Txns /\ Approvals \cap Cancels = {}
  /\ BookOf \in [Txns -> Books] /\ PageOf \in [Txns -> Pages]
  /\ Nobody \notin Txns /\ Recorded \notin Txns /\ Nobody # Recorded

VARIABLES
  books,    \* committed revision and evidence of each document
  claim,    \* whose approval claim on a proposal is current, or Recorded
  copy,     \* the document a transaction's payload is built from
  outcome

avars == <<books, claim, copy, outcome>>

Document == [revision : Nat, pages : SUBSET Pages]

Payload(t) ==
  IF t \in Cancels THEN copy[t].pages \ {PageOf[t]} ELSE copy[t].pages \cup {PageOf[t]}

\* guard_cross_book_evidence: the payload shares no page with another book and
\* puts no second execution on a page of its own.
EvidenceFree(t) ==
  /\ t \notin Cancels => PageOf[t] \notin copy[t].pages
  /\ \A o \in Books \ {BookOf[t]} : Payload(t) \cap books[o].pages = {}

Init ==
  /\ books \in [Books -> {[revision |-> 1, pages |-> S] : S \in SUBSET Pages}]
  /\ \A b, o \in Books : b # o => books[b].pages \cap books[o].pages = {}
  /\ claim = [p \in Pages |-> Nobody]
  /\ copy = [t \in Txns |-> [revision |-> 0, pages |-> {}]]
  /\ outcome = [t \in Txns |-> "idle"]

\* The request reads its document; an approval first claims the proposal, and
\* takes the claim over from a request whose lease ran out.
Open(t) ==
  /\ outcome[t] = "idle"
  /\ t \in Approvals => claim[PageOf[t]] # Recorded
  /\ claim' = IF t \in Approvals THEN [claim EXCEPT ![PageOf[t]] = t] ELSE claim
  /\ copy' = [copy EXCEPT ![t] = books[BookOf[t]]]
  /\ outcome' = [outcome EXCEPT ![t] = "open"]
  /\ UNCHANGED books

Save(t) ==
  /\ outcome[t] = "open"
  /\ books[BookOf[t]].revision = copy[t].revision
  /\ EvidenceFree(t)
  /\ t \in Approvals => claim[PageOf[t]] = t
  /\ books' = [books EXCEPT ![BookOf[t]] =
                 [revision |-> copy[t].revision + 1, pages |-> Payload(t)]]
  /\ claim' = IF t \in Approvals THEN [claim EXCEPT ![PageOf[t]] = Recorded] ELSE claim
  /\ outcome' = [outcome EXCEPT ![t] = "saved"]
  /\ UNCHANGED copy

Refuse(t) ==
  /\ outcome[t] = "open"
  /\ outcome' = [outcome EXCEPT ![t] = "refused"]
  /\ UNCHANGED <<books, claim, copy>>

Next == \E t \in Txns : Open(t) \/ Save(t) \/ Refuse(t)

Spec == Init /\ [][Next]_avars
=============================================================================
