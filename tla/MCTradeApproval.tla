--------------------------- MODULE MCTradeApproval ---------------------------
(***************************************************************************)
(* Instances of TradeApproval for TLC: proposals on one KR symbol and one  *)
(* US symbol, so that a sell needs the shares a buy brings in and evidence *)
(* can collide across currencies.                                          *)
(***************************************************************************)
EXTENDS TradeApproval, TLC

KR == "portfolio_ledgers"
US == "us_actual_portfolio_ledgers"
MCBooks == {KR, US}
MCSymbols == {"K", "U"}
MCMarkets == {"KOSPI", "ETF", "US"}
MCListing == [m \in MCMarkets |-> IF m = "ETF" THEN "KOSPI" ELSE m]

KRTerms(side, shares, date) ==
  [symbol |-> "K", market |-> "KOSPI", side |-> side, shares |-> shares, date |-> date]
USTerms(side, shares, date) ==
  [symbol |-> "U", market |-> "US", side |-> side, shares |-> shares, date |-> date]

AllTrades ==
  [buyKR |-> [book |-> KR, terms |-> KRTerms("BUY", 1, 2)],
   sellKR |-> [book |-> KR, terms |-> KRTerms("SELL", 1, 3)],
   earlySellKR |-> [book |-> KR, terms |-> KRTerms("SELL", 1, 1)],
   buyUS |-> [book |-> US, terms |-> USTerms("BUY", 1, 2)]]
MCTrade == [p \in Proposals |-> AllTrades[p]]

\* One share held since before the new slice began.
Holding == NewFill("old", KRTerms("BUY", 1, 0), 0, {})
NoOldFills == [b \in MCBooks |-> {}]
OldHolding == [b \in MCBooks |-> IF b = KR THEN {Holding} ELSE {}]
SavedBuy == [b \in MCBooks |->
  IF b = KR THEN {NewFill("buyKR", KRTerms("BUY", 1, 2), 0, {})} ELSE {}]

EditOf(kind, book, id, terms, ref, links) ==
  [kind |-> kind, book |-> book, id |-> id, terms |-> terms, ref |-> ref, links |-> links]

CancelBuy == EditOf("cancel", KR, "buyKR", KRTerms("BUY", 1, 2), "other", {})
RefreshKR == EditOf("refresh", KR, "buyKR", KRTerms("BUY", 1, 2), "other", {})
RedateBuy == EditOf("correct", KR, "buyKR", KRTerms("BUY", 1, 4), "buyKR", {})
FillUSOnPage == EditOf("fill", US, "web", USTerms("BUY", 1, 2), "buyKR", {})
FillKR == EditOf("fill", KR, "web", KRTerms("BUY", 1, 2), "other", {})
PageFillUS == EditOf("pageFill", US, "web", USTerms("BUY", 1, 2), "other", {"buyKR"})
PageEditBuy == EditOf("pageEdit", KR, "buyKR", KRTerms("BUY", 1, 4), "other", {})
PageRemoveBuy == EditOf("pageRemove", KR, "buyKR", KRTerms("BUY", 1, 2), "other", {})

RaceEdits == {CancelBuy, FillKR, RefreshKR}
RecoveryEdits == {CancelBuy, RedateBuy}
OldPageEdits == {PageFillUS, PageEditBuy, PageRemoveBuy}
EvidenceEdits == OldPageEdits \cup {FillUSOnPage}
NoEdits == {}

HandlerSymmetry == Permutations(Handlers)
=============================================================================
