---------------------------- MODULE TradeApproval ----------------------------
(***************************************************************************)
(* Approval of proposed trades into the actual ledgers.                    *)
(*                                                                         *)
(* An assistant stages a proposal; the owner confirms or rejects it.  Each *)
(* confirmation runs in a server handler whose steps are its awaits: it    *)
(* claims the proposal for 120 s, reads both currency books, decides,      *)
(* re-reads its book and commits document, journal and proposal status in  *)
(* one transaction.  Any number of handlers and website writers interleave *)
(* at those awaits; a handler may die at any of them and a lease may run   *)
(* out under a handler that is merely slow.                                *)
(***************************************************************************)
EXTENDS WebsiteEdits

CONSTANTS
  Handlers,      \* concurrent invocations of POST /api/assistant-trades
  Writers,       \* concurrent website save requests
  WebEdits,      \* the edits the owner may ask for
  OldFills,      \* [Books -> executions a document starts with]
  LegacySaved,   \* proposals whose fill the older two-step protocol saved
                 \* before it could mark the proposal RECORDED
  NoToken, LostToken,
  MaxRevision,   \* bound: website writes stop at this document revision
  MaxFaults      \* bound: handler deaths and leases outrun by a live handler

ASSUME ApprovalAssumption ==
  /\ Handlers # {} /\ Proposals # {}
  /\ NoToken \notin Handlers /\ LostToken \notin Handlers /\ NoToken # LostToken
  /\ WebEdits \subseteq Edit
  /\ LegacySaved \subseteq Proposals
  /\ MaxRevision \in Nat /\ MaxFaults \in Nat

ASSUME OldFillsAssumption ==
  /\ OldFills \in [Books -> SUBSET Fill]
  /\ \A b \in Books : IsFiniteSet(OldFills[b])
  /\ \A b \in Books : \A e \in OldFills[b] :
       e.id \in OldIds \/ (e.id \in LegacySaved /\ Trade[e.id].book = b)
  /\ \A b \in Books : \A e, f \in OldFills[b] : e.id = f.id => e = f
  /\ \A p \in LegacySaved : \E e \in OldFills[Trade[p].book] : e.id = p

VARIABLES
  proposal,   \* assistant_trade_proposals: status, processing_token and
              \* whether processing_started_at is more than 120 s old
  docs,       \* the two website documents
  journal,    \* heads of the canonical event chains, per source system
  handler,    \* progress and locals of each approval request
  writer,     \* progress and locals of each website save
  faults

vars == <<proposal, docs, journal, handler, writer, faults>>

Statuses == {"ABSENT", "PENDING", "PROCESSING", "RECORDED", "REJECTED"}

BookOf(p) == Trade[p].book

-----------------------------------------------------------------------------
(* Handlers.                                                               *)

\* A finished request keeps only its answer.
Answered(p, reply) ==
  [pc |-> "idle", proposal |-> p, target |-> "unread", other |-> "unread",
   expected |-> 0, row |-> NoDocument, reply |-> reply]

Answer(h, reply) == handler' = [handler EXCEPT ![h] = Answered(@.proposal, reply)]

GoTo(h, pc) == handler' = [handler EXCEPT ![h].pc = pc]

\* The processing token is a fresh uuid that only the claiming invocation
\* knows, so the invocation itself stands for it.
Holds(h) == proposal[handler[h].proposal].token = h

Release(p) == [proposal EXCEPT ![p] = [status |-> "PENDING", token |-> NoToken, expired |-> FALSE]]

Finish(p, status) == [proposal EXCEPT ![p] = [status |-> status, token |-> NoToken, expired |-> FALSE]]

\* No invocation is still working under the claim on p.
Abandoned(p) ==
  LET t == proposal[p].token
  IN  ~(/\ t \in Handlers /\ handler[t].proposal = p
        /\ handler[t].pc \notin {"idle", "claim", "reject"})

InitialDocument(b) ==
  LET saved == {p \in LegacySaved : BookOf(p) = b}
  IN  [revision |-> 1, executions |-> OldFills[b],
       assignments |-> {[id |-> p, ref |-> p] : p \in saved}, audit |-> saved]

EmptyJournal == [id \in {} |-> id]

\* The triggers of an INSERT or UPDATE let the payload become book b.
Storable(b, payload) ==
  /\ EvidenceFree(payload, {docs[o] : o \in Books \ {b}})
  /\ ValidDocument(payload)

Init ==
  /\ proposal = [p \in Proposals |->
       IF p \in LegacySaved
       THEN [status |-> "PROCESSING", token |-> LostToken, expired |-> FALSE]
       ELSE [status |-> "ABSENT", token |-> NoToken, expired |-> FALSE]]
  /\ \E present \in SUBSET Books :
       /\ \A p \in LegacySaved : BookOf(p) \in present
       /\ docs = [b \in Books |-> IF b \in present THEN InitialDocument(b) ELSE NoDocument]
  /\ \A b \in Books : Storable(b, docs[b])
  /\ journal = [b \in Books |-> Synced(EmptyJournal, NoDocument, docs[b])]
  /\ handler = [h \in Handlers |-> Answered(CHOOSE p \in Proposals : TRUE, "none")]
  /\ writer = [w \in Writers |-> [pc |-> "idle"]]
  /\ faults = 0

-----------------------------------------------------------------------------
(* One document UPDATE with its BEFORE and AFTER triggers.                 *)

\* Mutant: UPDATE ... WHERE user_id = ... without the revision.
UpdateAcceptedBlindly(b, row, payload) ==
  Storable(b, payload) /\ SyncAccepts(journal[b], docs[b], payload)

UpdateAccepted(b, row, payload) ==
  /\ docs[b].revision = row.revision
  /\ Storable(b, payload)
  /\ SyncAccepts(journal[b], docs[b], payload)

\* Mutant: the UPDATE leaves the revision alone.
UpdateSameRevision(b, payload) ==
  /\ docs' = [docs EXCEPT ![b] = payload]
  /\ journal' = [journal EXCEPT ![b] = Synced(@, docs[b], payload)]

Update(b, payload) ==
  /\ docs' = [docs EXCEPT ![b] = [payload EXCEPT !.revision = @ + 1]]
  /\ journal' = [journal EXCEPT ![b] = Synced(@, docs[b], payload)]

\* First load of a book inserts revision 1; the losing insert re-reads.
Initialise(b) ==
  /\ docs[b].revision = 0 /\ Storable(b, InitialDocument(b))
  /\ docs' = [docs EXCEPT ![b] = InitialDocument(b)]
  /\ journal' = [journal EXCEPT ![b] = Synced(@, NoDocument, InitialDocument(b))]
  /\ UNCHANGED <<proposal, handler, writer, faults>>

-----------------------------------------------------------------------------
(* Proposals and requests.                                                 *)

\* Racing proposals of one page meet in the unique key: one insert wins, the
\* others read the winner's row and change nothing.  A registered security
\* decides the market that is stored, so an ETF is never staged as a stock.
Propose(p) ==
  LET terms == Trade[p].terms
      jrnl == journal[BookOf(p)] IN
  /\ proposal[p].status = "ABSENT"
  /\ SecurityFits(jrnl, terms.symbol, terms.market)
  /\ EtfRegistered(jrnl, terms.symbol) => IsEtf(terms.market)
  /\ proposal' = Finish(p, "PENDING")
  /\ UNCHANGED <<docs, journal, handler, writer, faults>>

Start(h, p, pc) ==
  /\ handler[h].pc = "idle"
  /\ handler' = [handler EXCEPT ![h] = [Answered(p, "none") EXCEPT !.pc = pc]]
  /\ UNCHANGED <<proposal, docs, journal, writer, faults>>

StartConfirm(h, p) ==
  /\ proposal[p].status \in {"PENDING", "PROCESSING"}
  /\ Start(h, p, "claim")

StartReject(h, p) ==
  /\ proposal[p].status = "PENDING"
  /\ Start(h, p, "reject")

\* The row that was read already answers the request.
AnswerFromRow(h, p) ==
  /\ handler[h].pc = "idle"
  /\ \/ /\ proposal[p].status = "RECORDED"
        /\ \E reply \in {"RECORDED", "REFUSED"} :
             handler' = [handler EXCEPT ![h] = Answered(p, reply)]
     \/ /\ proposal[p].status \in {"PROCESSING", "REJECTED"}
        /\ handler' = [handler EXCEPT ![h] = Answered(p, "REFUSED")]
  /\ UNCHANGED <<proposal, docs, journal, writer, faults>>

\* Mutant: the UPDATE trusts the status the request read before.
RejectUnchecked(h) ==
  /\ handler[h].pc = "reject"
  /\ proposal' = Finish(handler[h].proposal, "REJECTED")
  /\ Answer(h, "REJECTED")
  /\ UNCHANGED <<docs, journal, writer, faults>>

Reject(h) ==
  LET p == handler[h].proposal IN
  /\ handler[h].pc = "reject"
  /\ IF proposal[p].status = "PENDING"
     THEN proposal' = Finish(p, "REJECTED") /\ Answer(h, "REJECTED")
     ELSE UNCHANGED proposal /\ Answer(h, "REFUSED")
  /\ UNCHANGED <<docs, journal, writer, faults>>

\* Mutant: a claim is never taken over.
ClaimPendingOnly(h) ==
  LET p == handler[h].proposal IN
  /\ handler[h].pc = "claim"
  /\ IF proposal[p].status = "PENDING"
     THEN /\ proposal' = [proposal EXCEPT ![p] =
                            [status |-> "PROCESSING", token |-> h, expired |-> FALSE]]
          /\ GoTo(h, "read")
     ELSE UNCHANGED proposal /\ Answer(h, "REFUSED")
  /\ UNCHANGED <<docs, journal, writer, faults>>

Claim(h) ==
  LET p == handler[h].proposal IN
  /\ handler[h].pc = "claim"
  /\ IF \/ proposal[p].status = "PENDING"
        \/ proposal[p].status = "PROCESSING" /\ proposal[p].expired
     THEN /\ proposal' = [proposal EXCEPT ![p] =
                            [status |-> "PROCESSING", token |-> h, expired |-> FALSE]]
          /\ GoTo(h, "read")
     ELSE UNCHANGED proposal /\ Answer(h, "REFUSED")
  /\ UNCHANGED <<docs, journal, writer, faults>>

-----------------------------------------------------------------------------
(* The two reads of Promise.all, and the decision once both are back.      *)

Decided(local, target, other) ==
  [local EXCEPT !.target = target, !.other = other,
                !.pc = IF target = "unread" \/ other = "unread" THEN "read"
                       ELSE IF other = "taken" THEN "release" ELSE target]

TargetVerdict(doc, p) ==
  LET terms == Trade[p].terms IN
  CASE doc.revision = 0 -> "release"
    [] doc.revision > 0 /\ p \in FillIds(doc) ->
         IF MatchesProposal(doc, p) THEN "record" ELSE "release"
    [] doc.revision > 0 /\ p \notin FillIds(doc) ->
         IF \/ \E e \in doc.executions : e.symbol = terms.symbol /\ e.market # terms.market
            \/ HasEvidence(doc, p)
            \/ /\ terms.side = "SELL"
               /\ ~Projects(doc) \/ terms.shares > Available(doc, terms)
         THEN "release" ELSE "save"

ReadTarget(h) ==
  LET p == handler[h].proposal
      doc == docs[BookOf(p)] IN
  /\ handler[h].pc = "read" /\ handler[h].target = "unread"
  /\ handler' = [handler EXCEPT ![h] =
       [Decided(@, TargetVerdict(doc, p), @.other) EXCEPT !.expected = doc.revision]]
  /\ UNCHANGED <<proposal, docs, journal, writer, faults>>

ReadOther(h) ==
  LET p == handler[h].proposal
      taken == \E o \in Books \ {BookOf(p)} : HasEvidence(docs[o], p) IN
  /\ handler[h].pc = "read" /\ handler[h].other = "unread"
  /\ handler' = [handler EXCEPT ![h] =
       Decided(@, @.target, IF taken THEN "taken" ELSE "clear")]
  /\ UNCHANGED <<proposal, docs, journal, writer, faults>>

-----------------------------------------------------------------------------
(* The writes a handler may end in.                                        *)

\* Mutant: the release is not tied to the caller's token.
ReleaseAnyClaim(h) ==
  LET p == handler[h].proposal IN
  /\ handler[h].pc = "release" /\ proposal[p].status = "PROCESSING"
  /\ proposal' = Release(p) /\ Answer(h, "REFUSED")
  /\ UNCHANGED <<docs, journal, writer, faults>>

ReleaseClaim(h) ==
  LET p == handler[h].proposal IN
  /\ handler[h].pc = "release"
  /\ IF proposal[p].status = "PROCESSING" /\ Holds(h)
     THEN proposal' = Release(p) /\ Answer(h, "REFUSED")
     ELSE UNCHANGED proposal /\ Answer(h, "FAILED")
  /\ UNCHANGED <<docs, journal, writer, faults>>

\* assistant_trade_record: token, canonical event of the right kind, and the
\* document's execution all have to agree with the proposal.
RecordAccepts(h, p, jrnl, doc) ==
  /\ proposal[p].status = "PROCESSING" /\ proposal[p].token = h
  /\ p \in DOMAIN jrnl /\ jrnl[p].fill.side = Trade[p].terms.side
  /\ MatchesProposal(doc, p)

Record(h) ==
  LET p == handler[h].proposal IN
  /\ handler[h].pc = "record"
  /\ IF RecordAccepts(h, p, journal[BookOf(p)], docs[BookOf(p)])
     THEN proposal' = Finish(p, "RECORDED") /\ Answer(h, "RECORDED")
     ELSE UNCHANGED proposal /\ Answer(h, "FAILED")
  /\ UNCHANGED <<docs, journal, writer, faults>>

\* saveNewActualPortfolio up to its write.
SaveRead(h) ==
  LET p == handler[h].proposal
      doc == docs[BookOf(p)] IN
  /\ handler[h].pc = "save"
  /\ IF p \in doc.audit THEN GoTo(h, "record")
     ELSE IF \/ doc.revision # handler[h].expected
             \/ p \in FillIds(doc)
             \/ ~Projects(ApprovedDocument(doc, p))
     THEN Answer(h, "FAILED")
     ELSE handler' = [handler EXCEPT ![h].pc = "commit", ![h].row = doc]
  /\ UNCHANGED <<proposal, docs, journal, writer, faults>>

\* assistant_trade_commit: all of it or nothing.
Commit(h) ==
  LET p == handler[h].proposal
      b == BookOf(p)
      payload == ApprovedDocument(handler[h].row, p) IN
  /\ handler[h].pc = "commit"
  /\ IF /\ UpdateAccepted(b, handler[h].row, payload)
        /\ RecordAccepts(h, p, Synced(journal[b], docs[b], payload), payload)
     THEN /\ Update(b, payload)
          /\ proposal' = Finish(p, "RECORDED")
          /\ GoTo(h, "readback")
     ELSE UNCHANGED <<docs, journal, proposal>> /\ Answer(h, "FAILED")
  /\ UNCHANGED <<writer, faults>>

ReadBack(h) ==
  LET p == handler[h].proposal
      row == handler[h].row
      saved == [ApprovedDocument(row, p) EXCEPT !.revision = row.revision + 1] IN
  /\ handler[h].pc = "readback"
  /\ Answer(h, IF docs[BookOf(p)] = saved THEN "RECORDED" ELSE "FAILED")
  /\ UNCHANGED <<proposal, docs, journal, writer, faults>>

-----------------------------------------------------------------------------
(* Faults and time.                                                        *)

\* The invocation dies or its connection breaks; the owner sees an error.
Crash(h) ==
  /\ handler[h].pc # "idle" /\ faults < MaxFaults
  /\ Answer(h, "FAILED")
  /\ faults' = faults + 1
  /\ UNCHANGED <<proposal, docs, journal, writer>>

\* 120 s pass over a claim nobody works under any more.
LeaseEnds(p) ==
  /\ proposal[p].status = "PROCESSING" /\ ~proposal[p].expired
  /\ Abandoned(p)
  /\ proposal' = [proposal EXCEPT ![p].expired = TRUE]
  /\ UNCHANGED <<docs, journal, handler, writer, faults>>

\* 120 s pass over a handler that is still running.
LeaseOutrun(p) ==
  /\ proposal[p].status = "PROCESSING" /\ ~proposal[p].expired
  /\ ~Abandoned(p) /\ faults < MaxFaults
  /\ proposal' = [proposal EXCEPT ![p].expired = TRUE]
  /\ faults' = faults + 1
  /\ UNCHANGED <<docs, journal, handler, writer>>

-----------------------------------------------------------------------------
(* The owner's website saves: read, edit, UPDATE ... WHERE revision = read.*)

WebRead(w, c) ==
  /\ writer[w].pc = "idle"
  /\ docs[c.book].revision \in 1 .. MaxRevision - 1
  /\ Accepts(docs[c.book], c)
  /\ writer' = [writer EXCEPT ![w] = [pc |-> "write", edit |-> c, row |-> docs[c.book]]]
  /\ UNCHANGED <<proposal, docs, journal, handler, faults>>

WebWrite(w) ==
  /\ writer[w].pc = "write"
  /\ LET c == writer[w].edit
         row == writer[w].row IN
     IF UpdateAccepted(c.book, row, Edited(row, c))
     THEN Update(c.book, Edited(row, c))
     ELSE UNCHANGED <<docs, journal>>
  /\ writer' = [writer EXCEPT ![w] = [pc |-> "idle"]]
  /\ UNCHANGED <<proposal, handler, faults>>

-----------------------------------------------------------------------------
HandlerStep(h) ==
  \/ Reject(h) \/ Claim(h) \/ ReadTarget(h) \/ ReadOther(h) \/ ReleaseClaim(h)
  \/ Record(h) \/ SaveRead(h) \/ Commit(h) \/ ReadBack(h)

Next ==
  \/ \E p \in Proposals : Propose(p) \/ LeaseEnds(p) \/ LeaseOutrun(p)
  \/ \E h \in Handlers : HandlerStep(h) \/ Crash(h)
  \/ \E h \in Handlers, p \in Proposals :
       StartConfirm(h, p) \/ StartReject(h, p) \/ AnswerFromRow(h, p)
  \/ \E b \in Books : Initialise(b)
  \/ \E w \in Writers : WebWrite(w) \/ \E c \in WebEdits : WebRead(w, c)

Spec == Init /\ [][Next]_vars

\* The owner confirms again a proposal the inbox shows as PROCESSING.
Retry(h, p) == proposal[p].status = "PROCESSING" /\ StartConfirm(h, p)

\* Requests run to their answer, leases end, and the owner keeps retrying.
Fairness ==
  /\ \A h \in Handlers : WF_vars(HandlerStep(h))
  /\ \A p \in Proposals :
       WF_vars(LeaseEnds(p)) /\ SF_vars(\E h \in Handlers : Retry(h, p))

FairSpec == Spec /\ Fairness

-----------------------------------------------------------------------------
(* Types.                                                                  *)

HandlerLocals ==
  [pc : {"idle", "claim", "reject", "read", "release", "record", "save", "commit", "readback"},
   proposal : Proposals,
   target : {"unread", "release", "record", "save"},
   other : {"unread", "clear", "taken"},
   expected : Nat, row : Document,
   reply : {"none", "RECORDED", "REJECTED", "REFUSED", "FAILED"}]

WriterLocals ==
  [pc : {"idle"}] \cup [pc : {"write"}, edit : WebEdits, row : Document]

\* The type invariant of the approval system.
TypeOK ==
  /\ proposal \in [Proposals -> [status : Statuses,
                                 token : Handlers \cup {NoToken, LostToken},
                                 expired : BOOLEAN]]
  /\ docs \in [Books -> Document]
  /\ DOMAIN journal = Books /\ \A b \in Books : IsJournal(journal[b])
  /\ handler \in [Handlers -> HandlerLocals]
  /\ writer \in [Writers -> WriterLocals]
  /\ faults \in 0 .. MaxFaults

-----------------------------------------------------------------------------
(* Safety.                                                                 *)

\* A revision number names one content: a copy of a book that some request
\* still holds is the book itself while the revision has not moved.  This is
\* what makes the compare-and-set on the revision a compare on the content.
RevisionNamesContent ==
  /\ \A h \in Handlers :
       LET b == BookOf(handler[h].proposal)
           row == handler[h].row
       IN  handler[h].pc = "commit" =>
             row.revision <= docs[b].revision /\ (row.revision = docs[b].revision => row = docs[b])
  /\ \A w \in Writers : writer[w].pc = "write" =>
       LET b == writer[w].edit.book
           row == writer[w].row
       IN  row.revision <= docs[b].revision /\ (row.revision = docs[b].revision => row = docs[b])

\* A proposal is RECORDED exactly when its own execution has entered the
\* canonical journal of its market's book, and it never enters another book:
\* approval, document and journal commit together, whatever is interrupted.
\* (A fill the two-step protocol saved is in the journal before it is RECORDED.)
RecordedWithJournal ==
  \A p \in Proposals :
    /\ proposal[p].status = "RECORDED" => p \in DOMAIN journal[BookOf(p)]
    /\ p \in DOMAIN journal[BookOf(p)] => proposal[p].status = "RECORDED" \/ p \in LegacySaved
    /\ \A b \in Books \ {BookOf(p)} : p \notin DOMAIN journal[b]

\* The live heads of the canonical journal are exactly the executions of the
\* website document, field for field, after any mix of fills, corrections,
\* cancellations and approvals.
HeadsMatchDocument ==
  \A b \in Books :
    docs[b].executions = {journal[b][id].fill : id \in LiveIds(journal[b])}

\* One Notion page stands behind at most one execution of the two books.
OnePageOneExecution ==
  \A b, o \in Books : \A e \in docs[b].executions, f \in docs[o].executions :
    FillPages(docs[b], e) \cap FillPages(docs[o], f) # {} => b = o /\ e = f

\* The new slice of every book can be projected: no orphan assignment, no
\* broker reference twice, and no sell of shares only the old holdings cover.
NewSliceProjects == \A b \in Books : Projects(docs[b])

\* What an owner is told is so: after the answer RECORDED (REJECTED) the
\* proposal is RECORDED (REJECTED) and stays it.
AnswersAreTrue ==
  \A h \in Handlers :
    handler[h].reply \in {"RECORDED", "REJECTED"} =>
      proposal[handler[h].proposal].status = handler[h].reply

-----------------------------------------------------------------------------
(* Action properties.                                                      *)

\* RECORDED and REJECTED are final.
FinalStatus ==
  [][\A p \in Proposals : proposal[p].status \in {"RECORDED", "REJECTED"} =>
       proposal'[p].status = proposal[p].status]_vars

\* A claimed proposal is released or recorded only by the request whose claim
\* is current: a request that lost its lease changes nothing any more.
OnlyHolderResolves ==
  [][\A p \in Proposals :
       proposal[p].status = "PROCESSING" /\ proposal'[p].status # "PROCESSING" =>
         \E h \in Handlers :
           /\ proposal[p].token = h /\ handler[h].proposal = p
           /\ handler[h].pc \in {"release", "record", "commit"}
           /\ handler'[h] # handler[h]]_vars

\* No write drops an execution it did not mean to drop: an execution leaves a
\* book only when a website save that cancels or removes that very execution
\* is written.  A stale document never overwrites a newer one.
OnlyRemovalDrops ==
  [][\A b \in Books : \A id \in FillIds(docs[b]) \ FillIds(docs'[b]) :
       \E w \in Writers : /\ writer[w].pc = "write" /\ writer'[w].pc = "idle"
                          /\ writer[w].edit.book = b
                          /\ Removes(writer[w].edit, id)]_vars

\* The journal is append-only: chains are never dropped or shortened, and an
\* identity that was voided is never live again.
JournalOnlyGrows ==
  [][\A b \in Books : \A id \in DOMAIN journal[b] :
       /\ id \in DOMAIN journal'[b]
       /\ journal'[b][id].revision >= journal[b][id].revision
       /\ id \notin LiveIds(journal[b]) => journal'[b][id] = journal[b][id]]_vars

-----------------------------------------------------------------------------
(* Refinement.                                                             *)

Inbox == INSTANCE TradeInbox WITH
  inbox <- [p \in Proposals |->
    IF proposal[p].status \in {"PENDING", "PROCESSING"} THEN "OPEN" ELSE proposal[p].status],
  booked <- {p \in Proposals : \E b \in Books : p \in DOMAIN journal[b]}

\* Claims, leases, races, retries and crashes are invisible to the owner:
\* every step stages, approves-and-books or declines one proposal, or leaves
\* the inbox and the books of proposals alone.
ImplementsInbox == Inbox!Spec

-----------------------------------------------------------------------------
(* Liveness.                                                               *)

\* "Deterministic pre-write conflicts must not leave the proposal locked
\* forever": a claimed proposal is eventually recorded or released, although
\* handlers die and leases are outrun, as long as the owner retries it.
ClaimsResolve ==
  \A p \in Proposals :
    proposal[p].status = "PROCESSING" ~> proposal[p].status # "PROCESSING"
=============================================================================
