--------------------------- MODULE ActualDocument ---------------------------
(***************************************************************************)
(* The website document of one actual ledger (portfolio_ledgers for KRW,   *)
(* us_actual_portfolio_ledgers for USD), its canonical journal, and the    *)
(* checks every writer of a document has to pass.                          *)
(*                                                                         *)
(* Data abstraction.  Price, fee, gross, name and memo of a fill never     *)
(* decide a branch on their own: a fill keeps what the checks compare, its *)
(* identity, symbol, market, side, share count, date, order and the Notion *)
(* pages it links to.  An assignment always covers its whole fill (mixed   *)
(* legacy/new fills are not modelled).  A Notion page is named by the      *)
(* proposal that cites it: (user_id, source_page_id) is unique.            *)
(***************************************************************************)
EXTENDS Integers, FiniteSets, FiniteSetsExt

CONSTANTS
  Books,        \* the two website documents
  Proposals,    \* assistant_trade_proposals.id; also the Notion page each cites
  WebIds,       \* execution ids the website itself creates
  OldIds,       \* execution ids imported when a document is initialised
  Symbols, Markets,
  Listing,      \* [Markets -> Markets]: an ETF is listed on KOSPI, else identity
  Trade,        \* [Proposals -> the evidenced trade]
  OtherRef      \* a broker reference that names no Notion page

Ids == Proposals \cup WebIds \cup OldIds
Sides == {"BUY", "SELL"}

Terms == [symbol : Symbols, market : Markets, side : Sides,
          shares : Nat \ {0}, date : Nat]

Fill == [id : Ids, symbol : Symbols, market : Markets, side : Sides,
         shares : Nat \ {0}, date : Nat, order : Nat, links : SUBSET Proposals]

Assignment == [id : Ids, ref : Proposals \cup {OtherRef}]

\* revision 0 is a row that does not exist yet.
DocumentFields == [revision : Nat, executions : SUBSET Fill,
                   assignments : SUBSET Assignment, audit : SUBSET Ids]

Document == {d \in DocumentFields : IsFiniteSet(d.executions)}

\* The head of one event chain of ledger_event_versions.
JournalHead == [revision : Nat \ {0}, state : {"LIVE", "VOIDED"}, fill : Fill]
IsJournal(j) == DOMAIN j \subseteq Ids /\ j \in [DOMAIN j -> JournalHead]

\* The chains whose head is not a void.
LiveIds(j) == {id \in DOMAIN j : j[id].state = "LIVE"}

NoDocument == [revision |-> 0, executions |-> {}, assignments |-> {}, audit |-> {}]

ASSUME TradeAssumption ==
  Trade \in [Proposals -> [book : Books, terms : Terms]]

ASSUME ListingAssumption == Listing \in [Markets -> Markets]

ASSUME IdAssumption ==
  /\ Proposals \cap WebIds = {} /\ Proposals \cap OldIds = {}
  /\ WebIds \cap OldIds = {} /\ OtherRef \notin Proposals

-----------------------------------------------------------------------------
(* Evidence: which Notion pages a present execution stands on.             *)

FillIds(doc) == {e.id : e \in doc.executions}

FillPages(doc, e) ==
  (e.links \cup {a.ref : a \in {b \in doc.assignments : b.id = e.id}}) \ {OtherRef}

HasEvidence(doc, page) == \E e \in doc.executions : page \in FillPages(doc, e)

\* Mutant: a guard per table never looks at the other currency's book.
EvidenceFreeInOwnBook(new, others) ==
  \A e, f \in new.executions :
    e.id # f.id => FillPages(new, e) \cap FillPages(new, f) = {}

\* What the BEFORE trigger accepts: no page shared with the other currency's
\* book, and no page under two executions of this one.
EvidenceFree(new, others) ==
  /\ \A other \in others, page \in Proposals :
       ~(HasEvidence(new, page) /\ HasEvidence(other, page))
  /\ \A e, f \in new.executions :
       e.id # f.id => FillPages(new, e) \cap FillPages(new, f) = {}

-----------------------------------------------------------------------------
(* Holdings.                                                               *)

Signed(e) == IF e.side = "BUY" THEN e.shares ELSE -e.shares

UpTo(x, e) == x.date < e.date \/ (x.date = e.date /\ x.order <= e.order)

\* The running holding of e's symbol just after e, over the executions S.
HoldingAfter(S, e) ==
  MapThenSumSet(Signed, {x \in S : x.symbol = e.symbol /\ x.market = e.market /\ UpTo(x, e)})

\* validate_document: identities, one market per symbol, unambiguous order,
\* and no oversell of the whole book.
ValidDocument(doc) ==
  /\ \A e, f \in doc.executions :
       /\ e.id = f.id => e = f
       /\ e.symbol = f.symbol => e.market = f.market
       /\ (e.symbol = f.symbol /\ e.date = f.date /\ e.order = f.order) => e = f
  /\ \A e \in doc.executions : HoldingAfter(doc.executions, e) >= 0

Assigned(doc) == {e \in doc.executions : \E a \in doc.assignments : a.id = e.id}

\* projectNewActualPool returns instead of throwing: no assignment without its
\* execution, no broker reference used twice, no sell beyond the new slice.
Projects(doc) ==
  /\ \A a \in doc.assignments : a.id \in FillIds(doc)
  /\ \A a, b \in doc.assignments : a.ref = b.ref /\ a.ref # OtherRef => a = b
  /\ \A e \in Assigned(doc) : e.side = "SELL" => HoldingAfter(Assigned(doc), e) >= 0

\* The position the approval route finds in that projection.
Available(doc, terms) ==
  MapThenSumSet(Signed, {x \in Assigned(doc) : x.symbol = terms.symbol /\ x.market = terms.market})

-----------------------------------------------------------------------------
(* New and matching fills.                                                 *)

NextOrder(doc) ==
  IF doc.executions = {} THEN 0 ELSE Max({e.order : e \in doc.executions}) + 1

NewFill(id, terms, order, links) ==
  [id |-> id, symbol |-> terms.symbol, market |-> terms.market, side |-> terms.side,
   shares |-> terms.shares, date |-> terms.date, order |-> order, links |-> links]

\* saveNewActualPortfolio, action "execution" with a fresh id: the fill, its
\* assignment and its audit entry enter one document.
WithFill(doc, id, terms, ref) ==
  [doc EXCEPT !.executions = @ \cup {NewFill(id, terms, NextOrder(doc), {})},
              !.assignments = @ \cup {[id |-> id, ref |-> ref]},
              !.audit = @ \cup {id}]

ApprovedDocument(doc, p) == WithFill(doc, p, Trade[p].terms, p)

\* sameSource and the document half of assistant_trade_record: the execution
\* under the proposal's id carries the proposal's terms and its page.
MatchesProposal(doc, p) ==
  /\ \E e \in doc.executions :
       /\ e.id = p
       /\ e.symbol = Trade[p].terms.symbol /\ e.market = Trade[p].terms.market
       /\ e.side = Trade[p].terms.side /\ e.shares = Trade[p].terms.shares
       /\ e.date = Trade[p].terms.date
  /\ [id |-> p, ref |-> p] \in doc.assignments

-----------------------------------------------------------------------------
(* The canonical journal, kept by the AFTER trigger.                       *)

IsEtf(market) == Listing[market] # market

\* The first event of a symbol registers its security; the registration
\* outlives every fill, so the chains of the journal tell it.
SecurityFills(jrnl, symbol) ==
  {f \in {jrnl[id].fill : id \in DOMAIN jrnl} : f.symbol = symbol}

EtfRegistered(jrnl, symbol) == \E f \in SecurityFills(jrnl, symbol) : IsEtf(f.market)

\* "Source security market conflict": the listing market must agree, and an
\* ETF fill needs a security registered as an ETF.
SecurityFits(jrnl, symbol, market) ==
  SecurityFills(jrnl, symbol) # {} =>
    /\ \A f \in SecurityFills(jrnl, symbol) : Listing[f.market] = Listing[market]
    /\ IsEtf(market) => EtfRegistered(jrnl, symbol)

\* A source identity is permanent: an id that is new to the document has no
\* chain yet, and a correction keeps symbol and market.
SyncAccepts(jrnl, old, new) ==
  \A e \in new.executions :
    /\ e.id \notin FillIds(old) =>
         e.id \notin DOMAIN jrnl /\ SecurityFits(jrnl, e.symbol, e.market)
    /\ \A o \in old.executions :
         o.id = e.id => o.symbol = e.symbol /\ o.market = e.market

FillOf(doc, id) == CHOOSE e \in doc.executions : e.id = id

\* Mutant: the first event of a chain is numbered 0.
SyncedHeadFromZero(jrnl, old, new, id) ==
  IF id \in DOMAIN jrnl THEN jrnl[id]
  ELSE [revision |-> 0, state |-> "LIVE", fill |-> FillOf(new, id)]

\* Mutant: an execution that left the document is not voided.
SyncedHeadWithoutVoid(jrnl, old, new, id) ==
  IF id \notin FillIds(new) THEN jrnl[id]
  ELSE [revision |-> IF id \in DOMAIN jrnl THEN jrnl[id].revision + 1 ELSE 1,
        state |-> "LIVE", fill |-> FillOf(new, id)]

SyncedHead(jrnl, old, new, id) ==
  CASE id \notin DOMAIN jrnl ->
         [revision |-> 1, state |-> "LIVE", fill |-> FillOf(new, id)]
    [] id \in DOMAIN jrnl /\ id \in FillIds(new) ->
         IF FillOf(old, id) = FillOf(new, id) THEN jrnl[id]
         ELSE [revision |-> jrnl[id].revision + 1, state |-> "LIVE", fill |-> FillOf(new, id)]
    [] id \in DOMAIN jrnl /\ id \in FillIds(old) \ FillIds(new) ->
         [revision |-> jrnl[id].revision + 1, state |-> "VOIDED", fill |-> jrnl[id].fill]
    [] OTHER -> jrnl[id]

\* Mutant: the journal is rebuilt from the document.
SyncedAfresh(jrnl, old, new) == [id \in FillIds(new) |-> SyncedHead(jrnl, old, new, id)]

Synced(jrnl, old, new) ==
  [id \in DOMAIN jrnl \cup FillIds(new) |-> SyncedHead(jrnl, old, new, id)]
=============================================================================
