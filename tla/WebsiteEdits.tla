---------------------------- MODULE WebsiteEdits ----------------------------
(***************************************************************************)
(* The edits the owner makes to a document on the website, as functions    *)
(* from the document that was read to the document that will be written.   *)
(* "fill", "correct" and "cancel" are saveNewActualPortfolio without an    *)
(* approval (the new-actual page); "pageFill", "pageEdit" and "pageRemove" *)
(* are operateLedgers / operateUsActual (the older ledger pages), which    *)
(* change executions and never look at newActualPortfolio; "refresh" is    *)
(* any write that leaves executions alone (sync, capital, cash).           *)
(***************************************************************************)
EXTENDS ActualDocument

NewPageKinds == {"fill", "correct", "cancel"}
OldPageKinds == {"pageFill", "pageEdit", "pageRemove"}

Edit == [kind : NewPageKinds \cup OldPageKinds \cup {"refresh"}, book : Books,
         id : Ids, terms : Terms, ref : Proposals \cup {OtherRef},
         links : SUBSET Proposals]

Without(S, id) == {x \in S : x.id # id}

\* A correction keeps identity, order and every source link of the fill.
Corrected(doc, c) ==
  LET old == FillOf(doc, c.id)
  IN  NewFill(c.id, c.terms, old.order, old.links \cup c.links)

Edited(doc, c) ==
  CASE c.kind = "fill" -> WithFill(doc, c.id, c.terms, c.ref)
    [] c.kind = "correct" ->
         [doc EXCEPT !.executions = Without(@, c.id) \cup {Corrected(doc, c)},
                     !.assignments = Without(@, c.id) \cup {[id |-> c.id, ref |-> c.ref]}]
    [] c.kind = "cancel" ->
         [doc EXCEPT !.executions = Without(@, c.id), !.assignments = Without(@, c.id)]
    [] c.kind = "pageFill" ->
         [doc EXCEPT !.executions = @ \cup {NewFill(c.id, c.terms, NextOrder(doc), c.links)}]
    [] c.kind = "pageEdit" ->
         [doc EXCEPT !.executions = Without(@, c.id) \cup {Corrected(doc, c)}]
    [] c.kind = "pageRemove" -> [doc EXCEPT !.executions = Without(@, c.id)]
    [] OTHER -> doc

SameSecurity(doc, c) ==
  /\ c.id \in FillIds(doc)
  /\ FillOf(doc, c.id).symbol = c.terms.symbol
  /\ FillOf(doc, c.id).market = c.terms.market

IsAssigned(doc, id) == \E a \in doc.assignments : a.id = id

\* Mutant: the new-actual page forgets to project before it writes.
AcceptsUnprojected(doc, c) ==
  /\ c.kind = "fill" => c.id \in WebIds /\ c.id \notin doc.audit /\ c.id \notin FillIds(doc)
  /\ c.kind \in {"cancel", "correct"} => c.id \in FillIds(doc) /\ IsAssigned(doc, c.id)

\* The server accepts the edit of the document it read.  Only the new-actual
\* page projects the new slice before it writes.
Accepts(doc, c) ==
  /\ c.kind = "fill" => c.id \in WebIds /\ c.id \notin doc.audit /\ c.id \notin FillIds(doc)
  /\ c.kind = "correct" => SameSecurity(doc, c) /\ IsAssigned(doc, c.id)
  /\ c.kind = "cancel" => c.id \in FillIds(doc) /\ IsAssigned(doc, c.id)
  /\ c.kind = "pageFill" => c.id \in WebIds /\ c.id \notin FillIds(doc)
  /\ c.kind = "pageEdit" => SameSecurity(doc, c)
  /\ c.kind = "pageRemove" => c.id \in FillIds(doc)
  /\ c.kind \in NewPageKinds => Projects(Edited(doc, c))

\* The edit takes the execution id out of the document.
Removes(c, id) == c.kind \in {"cancel", "pageRemove"} /\ c.id = id
=============================================================================
