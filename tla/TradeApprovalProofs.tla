------------------------- MODULE TradeApprovalProofs -------------------------
(***************************************************************************)
(* Proofs about TradeApproval: what edits and the journal do to documents, *)
(* the base invariant (types, and journals that mirror their documents),   *)
(* and on top of it that revisions name contents, answers are true and     *)
(* final, nothing is lost, approval and journal agree, evidence is used    *)
(* once, the new slice stays whole, and the system implements the inbox.   *)
(***************************************************************************)
EXTENDS TradeApproval, FiniteSetTheorems, WellFoundedInduction, TLAPS

-----------------------------------------------------------------------------
(* The order of a new fill.                                                *)

\* Finitely many fills have a largest order: a minimal finite set without a
\* bound would lose one fill, gain a bound, and so have one.
LEMMA OrdersBounded ==
  ASSUME NEW S \in SUBSET Fill, IsFiniteSet(S)
  PROVE  \E k \in Nat : \A x \in S : x.order <= k
<1> DEFINE Unbounded ==
      {T \in FiniteSubsetsOf(Fill) : ~ \E k \in Nat : \A x \in T : x.order <= k}
<1> SUFFICES ASSUME Unbounded # {} PROVE FALSE
  BY DEF FiniteSubsetsOf
<1>1. PICK T \in Unbounded : \A U \in Unbounded : ~(<<U, T>> \in StrictSubsetOrdering(Fill))
  BY FS_StrictSubsetOrderingWellFounded, WFMin, Zenon
<1>2. PICK y \in T : TRUE
  OBVIOUS
<1>3. T \subseteq Fill /\ IsFiniteSet(T) /\ y.order \in Nat
  BY <1>2 DEF FiniteSubsetsOf, Fill
<1>4. IsFiniteSet(T \ {y})
  BY <1>3, FS_RemoveElement
<1>5. T \ {y} \notin Unbounded
  BY <1>1, <1>2, <1>3 DEF StrictSubsetOrdering
<1>6. PICK k \in Nat : \A x \in T \ {y} : x.order <= k
  BY <1>3, <1>4, <1>5 DEF FiniteSubsetsOf
<1>7. \A x \in T : x.order <= k + y.order
  BY <1>3, <1>6 DEF Fill
<1> QED
  BY <1>3, <1>6, <1>7

\* A bounded, non-empty set of naturals has a maximum: its least upper bound.
LEMMA MaxInSet ==
  ASSUME NEW S \in SUBSET Nat, S # {}, NEW k \in Nat, \A x \in S : x <= k
  PROVE  Max(S) \in S
<1> DEFINE Above == {m \in Nat : \A x \in S : x <= m}
<1>1. PICK m \in Above : \A n \in Above : ~(<<n, m>> \in OpToRel(<, Nat))
  BY WFMin, NatLessThanWellFounded, Zenon
<1>2. \A n \in Above : n >= m
  <2> SUFFICES ASSUME NEW n \in Above PROVE n >= m
    OBVIOUS
  <2>1. n \in Nat /\ m \in Nat
    OBVIOUS
  <2>2. ~(n < m)
    BY <1>1, <2>1, Zenon DEF OpToRel
  <2> QED
    BY <2>1, <2>2
<1>3. m \in S
  <2> SUFFICES ASSUME m \notin S PROVE FALSE
    OBVIOUS
  <2>1. m \in Nat /\ \A z \in S : z \in Nat /\ z # m /\ z <= m
    OBVIOUS
  <2>2. PICK x \in S : TRUE
    OBVIOUS
  <2>3. m - 1 \in Nat /\ \A z \in S : z <= m - 1
    BY <2>1, <2>2
  <2> QED
    BY <1>2, <2>1, <2>3
<1> QED
  BY <1>3 DEF Max

\* The order of a new fill is a natural number.
LEMMA NextOrderIsNat ==
  ASSUME NEW doc \in Document
  PROVE  NextOrder(doc) \in Nat
<1> DEFINE orders == {e.order : e \in doc.executions}
<1>1. CASE doc.executions = {}
  BY <1>1 DEF NextOrder
<1>2. CASE doc.executions # {}
  <2>1. PICK k \in Nat : \A e \in doc.executions : e.order <= k
    BY OrdersBounded DEF Document, DocumentFields
  <2>2. orders \in SUBSET Nat /\ orders # {} /\ \A x \in orders : x <= k
    BY <1>2, <2>1 DEF Document, DocumentFields, Fill
  <2>3. Max(orders) \in orders
    BY <2>2, MaxInSet
  <2> QED
    BY <1>2, <2>2, <2>3 DEF NextOrder
<1> QED
  BY <1>1, <1>2

-----------------------------------------------------------------------------
(* Edited documents are documents.                                         *)

LEMMA NewFillIsFill ==
  ASSUME NEW id \in Ids, NEW terms \in Terms, NEW order \in Nat,
         NEW links \in SUBSET Proposals
  PROVE  NewFill(id, terms, order, links) \in Fill
  BY DEF NewFill, Fill, Terms

\* A save of a fresh fill writes a well-formed document.
LEMMA WithFillIsDocument ==
  ASSUME NEW doc \in Document, NEW id \in Ids, NEW terms \in Terms,
         NEW ref \in Proposals \cup {OtherRef}
  PROVE  /\ WithFill(doc, id, terms, ref) \in Document
         /\ WithFill(doc, id, terms, ref).revision = doc.revision
         /\ FillIds(WithFill(doc, id, terms, ref)) = FillIds(doc) \cup {id}
<1> DEFINE f == NewFill(id, terms, NextOrder(doc), {})
           E == doc.executions \cup {f}
           A == doc.assignments \cup {[id |-> id, ref |-> ref]}
           U == doc.audit \cup {id}
           new == WithFill(doc, id, terms, ref)
<1>1. f \in Fill /\ f.id = id
  BY NewFillIsFill, NextOrderIsNat DEF NewFill
<1>2. E \in SUBSET Fill /\ IsFiniteSet(E)
  BY <1>1, FS_AddElement DEF Document, DocumentFields
<1>3. A \in SUBSET Assignment /\ U \in SUBSET Ids
  BY DEF Document, DocumentFields, Assignment
<1>4. new = [doc EXCEPT !.executions = E, !.assignments = A, !.audit = U]
  BY DEF WithFill
<1>5. new \in Document /\ new.revision = doc.revision /\ new.executions = E
  <2>1. doc \in DocumentFields
    BY DEF Document
  <2> HIDE DEF E, A, U, new
  <2>2. new \in DocumentFields /\ new.revision = doc.revision /\ new.executions = E
    BY <1>2, <1>3, <1>4, <2>1 DEF DocumentFields
  <2> QED
    BY <1>2, <2>2 DEF Document
<1>6. FillIds(new) = FillIds(doc) \cup {id}
  BY <1>1, <1>5 DEF FillIds
<1> QED
  BY <1>5, <1>6 DEF new

LEMMA FillOfIsFill ==
  ASSUME NEW doc \in Document, NEW id \in FillIds(doc)
  PROVE  /\ FillOf(doc, id) \in doc.executions
         /\ FillOf(doc, id) \in Fill
         /\ FillOf(doc, id).id = id
<1>1. \E e \in doc.executions : e.id = id
  BY DEF FillIds
<1>2. FillOf(doc, id) \in doc.executions /\ FillOf(doc, id).id = id
  BY <1>1 DEF FillOf
<1> QED
  BY <1>2 DEF Document, DocumentFields

LEMMA CorrectedIsFill ==
  ASSUME NEW doc \in Document, NEW c \in Edit, c.id \in FillIds(doc)
  PROVE  Corrected(doc, c) \in Fill /\ Corrected(doc, c).id = c.id
<1>1. FillOf(doc, c.id) \in Fill
  BY FillOfIsFill
<1>2. /\ c.id \in Ids /\ c.terms \in Terms /\ FillOf(doc, c.id).order \in Nat
      /\ FillOf(doc, c.id).links \cup c.links \in SUBSET Proposals
  BY <1>1 DEF Edit, Fill
<1> QED
  BY <1>2, NewFillIsFill DEF Corrected, NewFill

\* An accepted edit writes a well-formed document of the same revision, whose
\* only new identity is one the website creates.
LEMMA EditedIsDocument ==
  ASSUME NEW doc \in Document, NEW c \in Edit, Accepts(doc, c)
  PROVE  /\ Edited(doc, c) \in Document
         /\ Edited(doc, c).revision = doc.revision
         /\ FillIds(Edited(doc, c)) \subseteq FillIds(doc) \cup WebIds
         /\ \A id \in FillIds(doc) \ FillIds(Edited(doc, c)) : Removes(c, id)
<1> DEFINE kept == Without(doc.executions, c.id)
           left == Without(doc.assignments, c.id)
           new == Edited(doc, c)
<1>1. /\ c.id \in Ids /\ c.terms \in Terms /\ c.links \in SUBSET Proposals
      /\ c.ref \in Proposals \cup {OtherRef}
      /\ c.kind \in NewPageKinds \cup OldPageKinds \cup {"refresh"}
      /\ doc.executions \subseteq Fill /\ IsFiniteSet(doc.executions)
      /\ doc.assignments \subseteq Assignment /\ doc.audit \subseteq Ids
  BY DEF Edit, Document, DocumentFields
<1>2. /\ kept \subseteq Fill /\ IsFiniteSet(kept) /\ kept \subseteq doc.executions
      /\ \A id \in FillIds(doc) \ {c.id} : \E e \in kept : e.id = id
      /\ left \subseteq Assignment
  <2>1. kept \subseteq doc.executions
    BY DEF Without
  <2> QED
    BY <1>1, <2>1, FS_Subset DEF Without, FillIds
<1>3. CASE c.kind = "fill"
  <2>1. new = WithFill(doc, c.id, c.terms, c.ref) /\ c.id \in WebIds
    BY <1>3 DEF Edited, Accepts
  <2> QED
    BY <1>1, <2>1, WithFillIsDocument
<1>4. CASE c.kind \in {"correct", "pageEdit"}
  <2> DEFINE f == Corrected(doc, c)
             E == kept \cup {f}
             A == left \cup {[id |-> c.id, ref |-> c.ref]}
  <2>1. c.id \in FillIds(doc)
    BY <1>4 DEF Accepts, SameSecurity
  <2>2. f \in Fill /\ f.id = c.id
    BY <2>1, CorrectedIsFill
  <2>3. \/ new = [doc EXCEPT !.executions = E, !.assignments = A]
        \/ new = [doc EXCEPT !.executions = E]
    BY <1>4 DEF Edited
  <2>4. E \in SUBSET Fill /\ IsFiniteSet(E)
    BY <1>2, <2>2, FS_AddElement
  <2>5. A \in SUBSET Assignment
    BY <1>1, <1>2 DEF Assignment
  <2>6. new \in Document /\ new.revision = doc.revision
          /\ new.executions = E
    <3>1. doc \in DocumentFields
      BY DEF Document
    <3> HIDE DEF new, E, A
    <3>2. new \in DocumentFields /\ new.revision = doc.revision /\ new.executions = E
      BY <2>3, <2>4, <2>5, <3>1 DEF DocumentFields
    <3>3. new \in Document
      BY <2>4, <3>2 DEF Document
    <3> QED
      BY <3>2, <3>3
  <2>7. FillIds(new) = FillIds(doc)
    BY <1>2, <2>1, <2>2, <2>6 DEF FillIds
  <2> QED
    BY <2>6, <2>7
<1>5. CASE c.kind \in {"cancel", "pageRemove"}
  <2>1. \/ new = [doc EXCEPT !.executions = kept, !.assignments = left]
        \/ new = [doc EXCEPT !.executions = kept]
    BY <1>5 DEF Edited
  <2>2. new \in Document /\ new.revision = doc.revision
          /\ new.executions = kept
    <3>1. doc \in DocumentFields
      BY DEF Document
    <3> HIDE DEF new, kept, left
    <3>2. new \in DocumentFields /\ new.revision = doc.revision /\ new.executions = kept
      BY <1>2, <2>1, <3>1 DEF DocumentFields
    <3>3. new \in Document
      BY <1>2, <3>2 DEF Document
    <3> QED
      BY <3>2, <3>3
  <2>3. /\ FillIds(new) \subseteq FillIds(doc)
        /\ FillIds(doc) \ {c.id} \subseteq FillIds(new)
    BY <1>2, <2>2 DEF FillIds
  <2> QED
    BY <1>5, <2>2, <2>3 DEF Removes
<1>6. CASE c.kind = "pageFill"
  <2> DEFINE f == NewFill(c.id, c.terms, NextOrder(doc), c.links)
             E == doc.executions \cup {f}
  <2>1. f \in Fill /\ f.id = c.id /\ c.id \in WebIds
    BY <1>1, <1>6, NewFillIsFill, NextOrderIsNat DEF NewFill, Accepts
  <2>2. new = [doc EXCEPT !.executions = E]
    BY <1>6 DEF Edited
  <2>3. E \in SUBSET Fill /\ IsFiniteSet(E)
    BY <1>1, <2>1, FS_AddElement
  <2>4. new \in Document /\ new.revision = doc.revision
          /\ new.executions = E
    <3>1. doc \in DocumentFields
      BY DEF Document
    <3> HIDE DEF new, E
    <3>2. new \in DocumentFields /\ new.revision = doc.revision /\ new.executions = E
      BY <2>2, <2>3, <3>1 DEF DocumentFields
    <3>3. new \in Document
      BY <2>3, <3>2 DEF Document
    <3> QED
      BY <3>2, <3>3
  <2> QED
    BY <2>1, <2>4 DEF FillIds
<1>7. CASE c.kind = "refresh"
  BY <1>7 DEF Edited
<1> QED
  BY <1>1, <1>3, <1>4, <1>5, <1>6, <1>7 DEF NewPageKinds, OldPageKinds
-----------------------------------------------------------------------------
(* The journal kept beside a document.                                     *)

\* A document and its journal tell the same story: identities are unique, a
\* chain carries its own id, a present execution is the live head of its chain
\* and every other chain is voided.
Mirrored(doc, jrnl) ==
  /\ \A e, f \in doc.executions : e.id = f.id => e = f
  /\ FillIds(doc) = LiveIds(jrnl)
  /\ \A id \in DOMAIN jrnl : jrnl[id].fill.id = id
  /\ \A id \in FillIds(doc) : jrnl[id].fill = FillOf(doc, id)

\* The live heads of a mirroring journal are the executions of the document.
LEMMA MirroredHeads ==
  ASSUME NEW doc \in Document, NEW jrnl, Mirrored(doc, jrnl)
  PROVE  doc.executions = {jrnl[id].fill : id \in LiveIds(jrnl)}
<1>1. \A id \in LiveIds(jrnl) : jrnl[id].fill \in doc.executions
  BY FillOfIsFill DEF Mirrored
<1>2. ASSUME NEW e \in doc.executions
      PROVE  e.id \in LiveIds(jrnl) /\ jrnl[e.id].fill = e
  <2>1. e.id \in FillIds(doc)
    BY DEF FillIds
  <2>2. FillOf(doc, e.id) = e
    BY <2>1, FillOfIsFill DEF Mirrored
  <2> QED
    BY <2>1, <2>2 DEF Mirrored
<1> QED
  BY <1>1, <1>2

\* What one synchronised chain looks like, case by case.
LEMMA SyncedHeadMirrors ==
  ASSUME NEW old \in Document, NEW new \in Document, NEW jrnl,
         IsJournal(jrnl), Mirrored(old, jrnl), SyncAccepts(jrnl, old, new),
         NEW id \in DOMAIN jrnl \cup FillIds(new),
         NEW head, head = SyncedHead(jrnl, old, new, id)
  PROVE  /\ head \in JournalHead
         /\ head.fill.id = id
         /\ id \in FillIds(new) => head.state = "LIVE" /\ head.fill = FillOf(new, id)
         /\ id \notin FillIds(new) => head.state = "VOIDED"
         /\ id \in DOMAIN jrnl => head.revision >= jrnl[id].revision
         /\ id \in DOMAIN jrnl \ LiveIds(jrnl) => head = jrnl[id]
<1>1. /\ id \in DOMAIN jrnl => jrnl[id] \in JournalHead /\ jrnl[id].revision \in Nat
      /\ id \in LiveIds(jrnl) <=> id \in DOMAIN jrnl /\ jrnl[id].state = "LIVE"
  BY DEF IsJournal, LiveIds, JournalHead
<1>2. id \in FillIds(new) => FillOf(new, id) \in Fill /\ FillOf(new, id).id = id
  BY FillOfIsFill
<1>3. CASE id \notin DOMAIN jrnl
  <2>1. head = [revision |-> 1, state |-> "LIVE", fill |-> FillOf(new, id)]
    BY <1>3 DEF SyncedHead
  <2> QED
    BY <1>2, <1>3, <2>1 DEF JournalHead
<1>4. CASE id \in DOMAIN jrnl /\ id \in FillIds(new)
  <2>1. id \in FillIds(old)
    BY <1>4 DEF SyncAccepts, FillIds
  <2>2. id \in LiveIds(jrnl) /\ jrnl[id].state = "LIVE" /\ jrnl[id].fill = FillOf(old, id)
    BY <1>1, <1>4, <2>1 DEF Mirrored
  <2>3. head = IF FillOf(old, id) = FillOf(new, id) THEN jrnl[id]
               ELSE [revision |-> jrnl[id].revision + 1, state |-> "LIVE",
                     fill |-> FillOf(new, id)]
    BY <1>4 DEF SyncedHead
  <2>4. CASE FillOf(old, id) = FillOf(new, id)
    BY <1>1, <1>2, <1>4, <2>2, <2>3, <2>4 DEF JournalHead
  <2>5. CASE FillOf(old, id) # FillOf(new, id)
    BY <1>1, <1>2, <1>4, <2>2, <2>3, <2>5 DEF JournalHead
  <2> QED
    BY <2>4, <2>5
<1>5. CASE id \in DOMAIN jrnl /\ id \notin FillIds(new)
  <2>1. jrnl[id].fill.id = id /\ (id \in LiveIds(jrnl) <=> id \in FillIds(old))
    BY <1>5 DEF Mirrored
  <2>2. head = IF id \in FillIds(old)
               THEN [revision |-> jrnl[id].revision + 1, state |-> "VOIDED",
                     fill |-> jrnl[id].fill]
               ELSE jrnl[id]
    BY <1>5 DEF SyncedHead
  <2>3. CASE id \in FillIds(old)
    BY <1>1, <1>5, <2>1, <2>2, <2>3 DEF JournalHead
  <2>4. CASE id \notin FillIds(old)
    <3>1. jrnl[id].state = "VOIDED" /\ head = jrnl[id]
      BY <1>1, <1>5, <2>1, <2>2, <2>4 DEF JournalHead
    <3> QED
      BY <1>1, <1>5, <2>1, <3>1
  <2> QED
    BY <2>3, <2>4
<1> QED
  BY <1>3, <1>4, <1>5

\* The AFTER trigger keeps the journal a mirror of the document.
LEMMA SyncMirrors ==
  ASSUME NEW old \in Document, NEW new \in Document, NEW jrnl,
         IsJournal(jrnl), Mirrored(old, jrnl), ValidDocument(new),
         SyncAccepts(jrnl, old, new), NEW synced, synced = Synced(jrnl, old, new)
  PROVE  IsJournal(synced) /\ Mirrored(new, synced)
<1>1. DOMAIN synced = DOMAIN jrnl \cup FillIds(new)
      /\ \A id \in DOMAIN synced : synced[id] = SyncedHead(jrnl, old, new, id)
  BY DEF Synced
<1>2. FillIds(new) \subseteq Ids /\ DOMAIN jrnl \subseteq Ids
  BY DEF FillIds, Document, DocumentFields, Fill, IsJournal
<1>3. \A id \in DOMAIN synced :
        /\ synced[id] \in JournalHead
        /\ synced[id].fill.id = id
        /\ id \in FillIds(new) =>
             synced[id].state = "LIVE" /\ synced[id].fill = FillOf(new, id)
        /\ id \notin FillIds(new) => synced[id].state = "VOIDED"
  BY <1>1, SyncedHeadMirrors
<1>4. synced \in [DOMAIN synced -> JournalHead]
  <2>1. synced = [id \in DOMAIN synced |-> synced[id]]
    BY DEF Synced
  <2> QED
    BY <1>3, <2>1
<1>5. IsJournal(synced)
  BY <1>1, <1>2, <1>4 DEF IsJournal
<1>6. FillIds(new) = LiveIds(synced)
  BY <1>1, <1>3 DEF LiveIds
<1>7. Mirrored(new, synced)
  BY <1>1, <1>3, <1>6 DEF Mirrored, ValidDocument
<1> QED
  BY <1>5, <1>7

\* A chain only gets longer, and a voided one stays as it is.
LEMMA SyncExtends ==
  ASSUME NEW old \in Document, NEW new \in Document, NEW jrnl,
         IsJournal(jrnl), Mirrored(old, jrnl), SyncAccepts(jrnl, old, new),
         NEW synced, synced = Synced(jrnl, old, new), NEW id \in DOMAIN jrnl
  PROVE  /\ synced[id].revision >= jrnl[id].revision
         /\ id \notin LiveIds(jrnl) => synced[id] = jrnl[id]
<1>1. synced[id] = SyncedHead(jrnl, old, new, id)
  BY DEF Synced
<1> QED
  BY <1>1, SyncedHeadMirrors

-----------------------------------------------------------------------------
(* The inductive invariant.                                                *)

\* A website save in flight was accepted on the row it carries.
WritersAccepted ==
  \A w \in Writers :
    writer[w].pc = "write" => Accepts(writer[w].row, writer[w].edit)

\* A book that does not exist yet has no chain.
BooksMirrored ==
  \A b \in Books : /\ Mirrored(docs[b], journal[b])
                   /\ docs[b].revision = 0 => DOMAIN journal[b] = {}

BookTypes ==
  /\ docs \in [Books -> Document]
  /\ DOMAIN journal = Books /\ \A b \in Books : IsJournal(journal[b])

BaseInv == TypeOK /\ WritersAccepted /\ BooksMirrored

-----------------------------------------------------------------------------
(* The documents that reach a row.                                         *)

LEMMA NoDocumentIsDocument ==
  /\ NoDocument \in Document
  /\ NoDocument.revision = 0
  /\ FillIds(NoDocument) = {}
BY FS_EmptySet DEF NoDocument, Document, DocumentFields, FillIds

LEMMA InitialIsDocument ==
  ASSUME NEW b \in Books
  PROVE  /\ InitialDocument(b) \in Document
         /\ InitialDocument(b).revision = 1
         /\ FillIds(InitialDocument(b)) \cap Proposals \subseteq {p \in LegacySaved : BookOf(p) = b}
<1> DEFINE new == InitialDocument(b)
           saved == {p \in LegacySaved : BookOf(p) = b}
           refs == {[id |-> p, ref |-> p] : p \in saved}
<1>1. /\ OldFills[b] \in SUBSET Fill /\ IsFiniteSet(OldFills[b])
      /\ \A e \in OldFills[b] : e.id \in OldIds \/ e.id \in saved
  BY OldFillsAssumption DEF BookOf
<1>2. saved \in SUBSET Ids /\ saved \subseteq Proposals
  BY ApprovalAssumption DEF Ids
<1>3. refs \in SUBSET Assignment
  BY <1>2 DEF Assignment
<1>4. new = [revision |-> 1, executions |-> OldFills[b], assignments |-> refs, audit |-> saved]
  BY DEF InitialDocument
<1>5. new \in DocumentFields /\ new.revision = 1 /\ new.executions = OldFills[b]
  <2> HIDE DEF new, saved, refs
  <2> QED
    BY <1>1, <1>2, <1>3, <1>4 DEF DocumentFields
<1>6. new \in Document
  BY <1>1, <1>5 DEF Document
<1>7. FillIds(new) \cap Proposals \subseteq saved
  BY <1>1, <1>5, IdAssumption DEF FillIds
<1> QED
  BY <1>5, <1>6, <1>7

LEMMA BumpedIsDocument ==
  ASSUME NEW doc \in Document, NEW new, new = [doc EXCEPT !.revision = @ + 1]
  PROVE  /\ new \in Document
         /\ new.revision = doc.revision + 1
         /\ new.executions = doc.executions
         /\ new.assignments = doc.assignments
<1>1. doc \in DocumentFields /\ IsFiniteSet(doc.executions)
  BY DEF Document
<1>2. /\ new \in DocumentFields
      /\ new.revision = doc.revision + 1
      /\ new.executions = doc.executions
      /\ new.assignments = doc.assignments
  BY <1>1 DEF DocumentFields
<1> QED
  BY <1>1, <1>2 DEF Document

LEMMA ApprovedIsDocument ==
  ASSUME NEW doc \in Document, NEW p \in Proposals
  PROVE  /\ ApprovedDocument(doc, p) \in Document
         /\ ApprovedDocument(doc, p).revision = doc.revision
         /\ FillIds(ApprovedDocument(doc, p)) = FillIds(doc) \cup {p}
<1>1. Trade[p].terms \in Terms /\ p \in Ids
  BY TradeAssumption DEF Ids
<1> QED
  BY <1>1, WithFillIsDocument DEF ApprovedDocument

-----------------------------------------------------------------------------
(* What a write does to the two books.                                     *)

\* Book b was rewritten with the fills of payload, and its journal followed.
Rewritten(b, payload) ==
  /\ BookTypes'
  /\ BooksMirrored'
  /\ \A o \in Books \ {b} : docs'[o] = docs[o] /\ journal'[o] = journal[o]
  /\ docs'[b].revision > docs[b].revision
  /\ docs'[b].executions = payload.executions
  /\ docs'[b].assignments = payload.assignments
  /\ FillIds(docs'[b]) = FillIds(payload)
  /\ DOMAIN journal'[b] = DOMAIN journal[b] \cup FillIds(payload)
  /\ \A id \in DOMAIN journal[b] :
       /\ journal'[b][id].revision >= journal[b][id].revision
       /\ id \notin LiveIds(journal[b]) => journal'[b][id] = journal[b][id]

\* Both ways of writing a row: a payload that passes the triggers lands under
\* a higher revision.
LEMMA WriteRewrites ==
  ASSUME BookTypes, BooksMirrored, NEW b \in Books,
         NEW payload \in Document, ValidDocument(payload),
         NEW before \in Document, Mirrored(before, journal[b]),
         SyncAccepts(journal[b], before, payload),
         NEW stored \in Document, stored.executions = payload.executions,
         stored.assignments = payload.assignments,
         stored.revision > docs[b].revision,
         docs' = [docs EXCEPT ![b] = stored],
         journal' = [journal EXCEPT ![b] = Synced(journal[b], before, payload)]
  PROVE  Rewritten(b, payload)
<1> DEFINE jrnl == Synced(journal[b], before, payload)
<1>1. docs[b] \in Document /\ IsJournal(journal[b]) /\ docs[b].revision \in Nat
  BY DEF BookTypes, Document, DocumentFields
<1>2. IsJournal(jrnl) /\ Mirrored(payload, jrnl)
  BY <1>1, SyncMirrors
<1>3. DOMAIN jrnl = DOMAIN journal[b] \cup FillIds(payload)
  BY DEF Synced
<1>4. \A id \in DOMAIN journal[b] :
        /\ jrnl[id].revision >= journal[b][id].revision
        /\ id \notin LiveIds(journal[b]) => jrnl[id] = journal[b][id]
  BY <1>1, SyncExtends
<1>5. docs'[b] = stored /\ \A o \in Books \ {b} : docs'[o] = docs[o]
  BY DEF BookTypes
<1>6. journal'[b] = jrnl /\ \A o \in Books \ {b} : journal'[o] = journal[o]
  BY DEF BookTypes
<1> HIDE DEF jrnl
<1>7. FillIds(stored) = FillIds(payload)
  BY DEF FillIds
<1>8. Mirrored(stored, jrnl)
  <2>1. \A id : FillOf(stored, id) = FillOf(payload, id)
    BY DEF FillOf
  <2> QED
    BY <1>2, <1>7, <2>1 DEF Mirrored
<1>9. BookTypes'
  <2>1. docs' \in [Books -> Document]
    BY DEF BookTypes
  <2>2. DOMAIN journal' = Books
    BY DEF BookTypes
  <2>3. \A o \in Books : IsJournal(journal'[o])
    BY <1>2, <1>6 DEF BookTypes
  <2> QED
    BY <2>1, <2>2, <2>3 DEF BookTypes
<1>10. BooksMirrored'
  <2> SUFFICES ASSUME NEW o \in Books
               PROVE  /\ Mirrored(docs'[o], journal'[o])
                      /\ docs'[o].revision = 0 => DOMAIN journal'[o] = {}
    BY DEF BooksMirrored
  <2>1. CASE o = b
    <3>1. stored.revision \in Nat /\ stored.revision # 0
      BY <1>1 DEF Document, DocumentFields
    <3> QED
      BY <1>5, <1>6, <1>8, <2>1, <3>1
  <2>2. CASE o # b
    BY <1>5, <1>6, <2>2 DEF BooksMirrored
  <2> QED
    BY <2>1, <2>2
<1> QED
  BY <1>3, <1>4, <1>5, <1>6, <1>7, <1>9, <1>10 DEF Rewritten

LEMMA UpdateRewrites ==
  ASSUME BookTypes, BooksMirrored, NEW b \in Books, NEW row,
         NEW payload \in Document, payload.revision = row.revision,
         UpdateAccepted(b, row, payload), Update(b, payload)
  PROVE  Rewritten(b, payload)
<1> DEFINE new == [payload EXCEPT !.revision = @ + 1]
<1>1. docs[b] \in Document /\ payload.revision = docs[b].revision
      /\ docs[b].revision \in Nat /\ Mirrored(docs[b], journal[b])
  BY DEF BookTypes, BooksMirrored, UpdateAccepted, Document, DocumentFields
<1>2. new \in Document /\ new.revision = payload.revision + 1
      /\ new.executions = payload.executions
      /\ new.assignments = payload.assignments
  BY BumpedIsDocument
<1>3. ValidDocument(payload) /\ SyncAccepts(journal[b], docs[b], payload)
  BY DEF UpdateAccepted, Storable
<1>4. /\ docs' = [docs EXCEPT ![b] = new]
      /\ journal' = [journal EXCEPT ![b] = Synced(journal[b], docs[b], payload)]
  BY DEF Update
<1> HIDE DEF new
<1>5. new.revision > docs[b].revision
  BY <1>1, <1>2
<1> QED
  BY <1>1, <1>2, <1>3, <1>4, <1>5, WriteRewrites

LEMMA InitialiseRewrites ==
  ASSUME BookTypes, BooksMirrored, NEW b \in Books, Initialise(b)
  PROVE  Rewritten(b, InitialDocument(b))
<1> DEFINE new == InitialDocument(b)
<1>1. docs[b].revision = 0 /\ DOMAIN journal[b] = {} /\ ValidDocument(new)
  BY DEF Initialise, BooksMirrored, Storable
<1>2. new \in Document /\ new.revision > docs[b].revision
  BY <1>1, InitialIsDocument
<1>3. Mirrored(NoDocument, journal[b])
  BY <1>1, NoDocumentIsDocument DEF Mirrored, NoDocument, LiveIds
<1>4. SyncAccepts(journal[b], NoDocument, new)
  BY <1>1 DEF SyncAccepts, SecurityFits, SecurityFills, NoDocument
<1>5. /\ docs' = [docs EXCEPT ![b] = new]
      /\ journal' = [journal EXCEPT ![b] = Synced(journal[b], NoDocument, new)]
  BY DEF Initialise
<1> HIDE DEF new
<1>6. Rewritten(b, new)
  BY <1>1, <1>2, <1>3, <1>4, <1>5, NoDocumentIsDocument, WriteRewrites
<1> QED
  BY <1>6 DEF new
-----------------------------------------------------------------------------
(* Types, one action at a time.                                            *)

ProposalRecord ==
  [status : Statuses, token : Handlers \cup {NoToken, LostToken}, expired : BOOLEAN]

HandlerPcs ==
  {"idle", "claim", "reject", "read", "release", "record", "save", "commit", "readback"}

Replies == {"none", "RECORDED", "REJECTED", "REFUSED", "FAILED"}

LEMMA AnsweredIsLocals ==
  ASSUME NEW p \in Proposals, NEW reply \in Replies
  PROVE  Answered(p, reply) \in HandlerLocals
  BY NoDocumentIsDocument DEF Answered, HandlerLocals, Replies

\* A handler that stops or moves on keeps well-formed locals.
LEMMA AnswerTypes ==
  ASSUME handler \in [Handlers -> HandlerLocals], NEW h \in Handlers,
         NEW reply \in Replies, Answer(h, reply)
  PROVE  handler' \in [Handlers -> HandlerLocals]
<1>1. handler[h].proposal \in Proposals
  BY DEF HandlerLocals
<1>2. Answered(handler[h].proposal, reply) \in HandlerLocals
  BY <1>1, AnsweredIsLocals
<1>3. handler' = [handler EXCEPT ![h] = Answered(handler[h].proposal, reply)]
  BY DEF Answer
<1> QED
  BY <1>2, <1>3

LEMMA GoToTypes ==
  ASSUME handler \in [Handlers -> HandlerLocals], NEW h \in Handlers,
         NEW pc \in HandlerPcs, GoTo(h, pc)
  PROVE  handler' \in [Handlers -> HandlerLocals]
<1> DEFINE l == [handler[h] EXCEPT !.pc = pc]
<1>1. l \in HandlerLocals
  BY DEF HandlerLocals, HandlerPcs
<1>2. handler' = [handler EXCEPT ![h] = l]
  BY DEF GoTo
<1> HIDE DEF l
<1> QED
  BY <1>1, <1>2

LEMMA ProposalTypes ==
  ASSUME proposal \in [Proposals -> ProposalRecord], NEW p \in Proposals
  PROVE  /\ \A status \in Statuses : Finish(p, status) \in [Proposals -> ProposalRecord]
         /\ Release(p) \in [Proposals -> ProposalRecord]
         /\ \A h \in Handlers :
              [proposal EXCEPT ![p] = [status |-> "PROCESSING", token |-> h, expired |-> FALSE]]
                \in [Proposals -> ProposalRecord]
         /\ [proposal EXCEPT ![p].expired = TRUE] \in [Proposals -> ProposalRecord]
<1>1. \A status \in Statuses : Finish(p, status) \in [Proposals -> ProposalRecord]
  BY DEF Finish, ProposalRecord
<1>2. Release(p) \in [Proposals -> ProposalRecord]
  BY DEF Release, ProposalRecord, Statuses
<1>3. \A h \in Handlers :
        [proposal EXCEPT ![p] = [status |-> "PROCESSING", token |-> h, expired |-> FALSE]]
          \in [Proposals -> ProposalRecord]
  BY DEF ProposalRecord, Statuses
<1>4. [proposal EXCEPT ![p].expired = TRUE] \in [Proposals -> ProposalRecord]
  <2>1. [proposal[p] EXCEPT !.expired = TRUE] \in ProposalRecord
    BY DEF ProposalRecord
  <2> QED
    BY <2>1
<1> QED
  BY <1>1, <1>2, <1>3, <1>4

\* The two reads keep well-formed locals.
LEMMA ReadTypes ==
  ASSUME BookTypes, handler \in [Handlers -> HandlerLocals], NEW h \in Handlers,
         ReadTarget(h) \/ ReadOther(h)
  PROVE  handler' \in [Handlers -> HandlerLocals]
<1> DEFINE l == handler[h]
           p == handler[h].proposal
<1>1. l \in HandlerLocals /\ p \in Proposals /\ BookOf(p) \in Books
  BY TradeAssumption DEF HandlerLocals, BookOf
<1>2. ASSUME NEW target \in {"unread", "release", "record", "save"},
             NEW other \in {"unread", "clear", "taken"}
      PROVE  Decided(l, target, other) \in HandlerLocals
  <2> HIDE DEF l
  <2> QED
    BY <1>1 DEF Decided, HandlerLocals
<1>3. CASE ReadTarget(h)
  <2> DEFINE doc == docs[BookOf(p)]
             verdict == TargetVerdict(doc, p)
             d == Decided(l, verdict, l.other)
             new == [d EXCEPT !.expected = doc.revision]
  <2>1. doc.revision \in Nat
    BY <1>1 DEF BookTypes, Document, DocumentFields
  <2>2. verdict \in {"release", "record", "save"}
    BY <2>1 DEF TargetVerdict
  <2>3. d \in HandlerLocals
    <3>1. l.other \in {"unread", "clear", "taken"}
      BY <1>1 DEF HandlerLocals
    <3> HIDE DEF l, verdict
    <3> QED
      BY <1>2, <2>2, <3>1
  <2>4. new \in HandlerLocals
    <3> HIDE DEF d, doc
    <3> QED
      BY <2>1, <2>3 DEF HandlerLocals
  <2>5. handler' = [handler EXCEPT ![h] = new]
    BY <1>3 DEF ReadTarget
  <2> HIDE DEF new
  <2> QED
    BY <2>4, <2>5
<1>4. CASE ReadOther(h)
  <2> DEFINE taken == \E o \in Books \ {BookOf(p)} : HasEvidence(docs[o], p)
             other == IF taken THEN "taken" ELSE "clear"
             new == Decided(l, l.target, other)
  <2>1. l.target \in {"unread", "release", "record", "save"}
    BY <1>1 DEF HandlerLocals
  <2>2. new \in HandlerLocals
    <3>1. other \in {"unread", "clear", "taken"}
      OBVIOUS
    <3> HIDE DEF other, l
    <3> QED
      BY <1>2, <2>1, <3>1
  <2>3. handler' = [handler EXCEPT ![h] = new]
    BY <1>4 DEF ReadOther
  <2> HIDE DEF new
  <2> QED
    BY <2>2, <2>3
<1> QED
  BY <1>3, <1>4
-----------------------------------------------------------------------------
(* The only steps that write a book.                                       *)

Approved(h) == ApprovedDocument(handler[h].row, handler[h].proposal)

\* Handler h commits its proposal.
Approves(h) ==
  LET p == handler[h].proposal
      b == BookOf(p) IN
  /\ handler[h].pc = "commit"
  /\ UpdateAccepted(b, handler[h].row, Approved(h))
  /\ RecordAccepts(h, p, Synced(journal[b], docs[b], Approved(h)), Approved(h))
  /\ Rewritten(b, Approved(h))
  /\ proposal' = Finish(p, "RECORDED")
  /\ GoTo(h, "readback")
  /\ UNCHANGED writer

\* Writer w saves its edit.
Saves(w) ==
  LET c == writer[w].edit IN
  /\ writer[w].pc = "write"
  /\ UpdateAccepted(c.book, writer[w].row, Edited(writer[w].row, c))
  /\ Rewritten(c.book, Edited(writer[w].row, c))
  /\ writer' = [writer EXCEPT ![w] = [pc |-> "idle"]]
  /\ UNCHANGED <<proposal, handler>>

\* Book b is opened by its first load.
Opens(b) ==
  /\ docs[b].revision = 0
  /\ Storable(b, InitialDocument(b))
  /\ Rewritten(b, InitialDocument(b))
  /\ UNCHANGED <<proposal, handler, writer>>

LEMMA CommitStep ==
  ASSUME BaseInv, NEW h \in Handlers, Commit(h)
  PROVE  \/ Approves(h)
         \/ UNCHANGED <<docs, journal, proposal, writer>> /\ Answer(h, "FAILED")
<1> DEFINE p == handler[h].proposal
           b == BookOf(p)
           row == handler[h].row
           payload == Approved(h)
           accepted == /\ UpdateAccepted(b, row, payload)
                       /\ RecordAccepts(h, p, Synced(journal[b], docs[b], payload), payload)
<1>1. p \in Proposals /\ b \in Books /\ row \in Document
  BY TradeAssumption DEF BaseInv, TypeOK, HandlerLocals, BookOf
<1>2. payload \in Document /\ payload.revision = row.revision
  BY <1>1, ApprovedIsDocument DEF Approved
<1>3. CASE accepted
  <2>1. Update(b, payload) /\ proposal' = Finish(p, "RECORDED") /\ GoTo(h, "readback")
        /\ UNCHANGED writer /\ handler[h].pc = "commit"
    BY <1>3 DEF Commit, Approved
  <2>2. BookTypes /\ BooksMirrored
    BY DEF BaseInv, TypeOK, BookTypes
  <2>3. Rewritten(b, payload)
    <3> HIDE DEF b, row, payload
    <3>1. UpdateAccepted(b, row, payload)
      BY <1>3
    <3> QED
      BY <1>1, <1>2, <2>1, <2>2, <3>1, UpdateRewrites
  <2> QED
    BY <1>3, <2>1, <2>3 DEF Approves
<1>4. CASE ~accepted
  <2>1. UNCHANGED <<docs, journal, proposal>> /\ Answer(h, "FAILED") /\ UNCHANGED writer
    BY <1>4 DEF Commit, Approved
  <2> QED
    BY <2>1
<1> QED
  BY <1>3, <1>4

LEMMA WriteStep ==
  ASSUME BaseInv, NEW w \in Writers, WebWrite(w)
  PROVE  \/ Saves(w)
         \/ /\ UNCHANGED <<docs, journal, proposal, handler>>
            /\ writer' = [writer EXCEPT ![w] = [pc |-> "idle"]]
<1> DEFINE c == writer[w].edit
           row == writer[w].row
           payload == Edited(row, c)
<1>1. writer[w].pc = "write"
  BY DEF WebWrite
<1>2. c \in Edit /\ row \in Document /\ Accepts(row, c) /\ c.book \in Books
  <2>1. writer[w] \in WriterLocals
    BY DEF BaseInv, TypeOK
  <2>2. c \in WebEdits /\ row \in Document
    BY <1>1, <2>1 DEF WriterLocals
  <2>3. c \in Edit
    BY <2>2, ApprovalAssumption
  <2>4. c.book \in Books
    BY <2>3 DEF Edit
  <2> QED
    BY <1>1, <2>2, <2>3, <2>4 DEF BaseInv, WritersAccepted
<1>3. payload \in Document /\ payload.revision = row.revision
  BY <1>2, EditedIsDocument
<1>4. CASE UpdateAccepted(c.book, row, payload)
  <2>1. Update(c.book, payload) /\ UNCHANGED <<proposal, handler>>
        /\ writer' = [writer EXCEPT ![w] = [pc |-> "idle"]]
    BY <1>4 DEF WebWrite
  <2>2. BookTypes /\ BooksMirrored
    BY DEF BaseInv, TypeOK, BookTypes
  <2>3. Rewritten(c.book, payload)
    <3> HIDE DEF c, row, payload
    <3> QED
      BY <1>2, <1>3, <1>4, <2>1, <2>2, UpdateRewrites
  <2> QED
    BY <1>1, <1>4, <2>1, <2>3 DEF Saves
<1>5. CASE ~UpdateAccepted(c.book, row, payload)
  BY <1>5 DEF WebWrite
<1> QED
  BY <1>4, <1>5

LEMMA OpenStep ==
  ASSUME BaseInv, NEW b \in Books, Initialise(b)
  PROVE  Opens(b)
<1>1. Rewritten(b, InitialDocument(b))
  BY InitialiseRewrites DEF BaseInv, TypeOK, BookTypes
<1> QED
  BY <1>1 DEF Initialise, Opens
-----------------------------------------------------------------------------
(* BaseInv is inductive.                                                   *)

RequestTypes ==
  /\ proposal \in [Proposals -> ProposalRecord]
  /\ handler \in [Handlers -> HandlerLocals]
  /\ faults \in 0 .. MaxFaults

WriterInv == writer \in [Writers -> WriterLocals] /\ WritersAccepted

LEMMA BaseParts ==
  BaseInv <=> RequestTypes /\ WriterInv /\ BookTypes /\ BooksMirrored
BY DEF BaseInv, TypeOK, RequestTypes, ProposalRecord, WriterInv, BookTypes

LEMMA BasePartsNext ==
  RequestTypes' /\ WriterInv' /\ BookTypes' /\ BooksMirrored' => BaseInv'
BY DEF BaseInv, TypeOK, RequestTypes, ProposalRecord, WriterInv, BookTypes

LEMMA BooksStay ==
  ASSUME BookTypes, BooksMirrored, UNCHANGED <<docs, journal>>
  PROVE  BookTypes' /\ BooksMirrored'
  BY DEF BookTypes, BooksMirrored

LEMMA WritersStay ==
  ASSUME WriterInv, UNCHANGED writer
  PROVE  WriterInv'
  BY DEF WriterInv, WritersAccepted

LEMMA WriterEnds ==
  ASSUME WriterInv, NEW w \in Writers, writer' = [writer EXCEPT ![w] = [pc |-> "idle"]]
  PROVE  WriterInv'
<1>1. [pc |-> "idle"] \in WriterLocals
  BY DEF WriterLocals
<1>2. writer' \in [Writers -> WriterLocals]
  BY <1>1 DEF WriterInv
<1>3. \A v \in Writers : writer'[v].pc = "write" => writer'[v] = writer[v]
  BY DEF WriterInv
<1> QED
  BY <1>2, <1>3 DEF WriterInv, WritersAccepted

\* A handler's own step.
LEMMA HandlerStepTypes ==
  ASSUME RequestTypes, BookTypes, NEW h \in Handlers, HandlerStep(h) \/ Crash(h)
  PROVE  RequestTypes'
<1> DEFINE p == handler[h].proposal
<1>1. /\ p \in Proposals
      /\ handler \in [Handlers -> HandlerLocals]
      /\ proposal \in [Proposals -> ProposalRecord]
  BY DEF RequestTypes, HandlerLocals
<1>2. \A reply \in Replies : Answer(h, reply) => handler' \in [Handlers -> HandlerLocals]
  BY <1>1, AnswerTypes
<1>3. \A pc \in HandlerPcs : GoTo(h, pc) => handler' \in [Handlers -> HandlerLocals]
  BY <1>1, GoToTypes
<1>4. /\ \A status \in Statuses : Finish(p, status) \in [Proposals -> ProposalRecord]
      /\ Release(p) \in [Proposals -> ProposalRecord]
      /\ [proposal EXCEPT ![p] = [status |-> "PROCESSING", token |-> h, expired |-> FALSE]]
           \in [Proposals -> ProposalRecord]
  BY <1>1, ProposalTypes
<1>5. /\ {"RECORDED", "REJECTED", "REFUSED", "FAILED"} \subseteq Replies
      /\ {"read", "record", "readback"} \subseteq HandlerPcs
      /\ {"RECORDED", "REJECTED"} \subseteq Statuses
  BY DEF Replies, HandlerPcs, Statuses
<1>6. CASE Reject(h)
  BY <1>1, <1>2, <1>4, <1>5, <1>6 DEF Reject, RequestTypes
<1>7. CASE Claim(h)
  BY <1>1, <1>2, <1>3, <1>4, <1>5, <1>7 DEF Claim, RequestTypes
<1>8. CASE ReadTarget(h) \/ ReadOther(h)
  <2>1. handler' \in [Handlers -> HandlerLocals]
    BY <1>1, <1>8, ReadTypes
  <2> QED
    BY <1>8, <2>1 DEF ReadTarget, ReadOther, RequestTypes
<1>9. CASE ReleaseClaim(h)
  BY <1>1, <1>2, <1>4, <1>5, <1>9 DEF ReleaseClaim, RequestTypes
<1>10. CASE Record(h)
  BY <1>1, <1>2, <1>4, <1>5, <1>10 DEF Record, RequestTypes
<1>11. CASE SaveRead(h)
  <2> DEFINE doc == docs[BookOf(p)]
             l == [handler[h] EXCEPT !.pc = "commit", !.row = doc]
  <2>1. doc \in Document
    BY <1>1, TradeAssumption DEF BookTypes, BookOf
  <2>2. l \in HandlerLocals
    <3> HIDE DEF doc
    <3> QED
      BY <1>1, <2>1 DEF HandlerLocals
  <2>3. \/ GoTo(h, "record")
        \/ Answer(h, "FAILED")
        \/ handler' = [handler EXCEPT ![h] = l]
    BY <1>11 DEF SaveRead
  <2>4. handler' \in [Handlers -> HandlerLocals]
    <3> HIDE DEF l
    <3> QED
      BY <1>1, <1>2, <1>3, <1>5, <2>2, <2>3
  <2> QED
    BY <1>11, <2>4 DEF SaveRead, RequestTypes
<1>12. CASE Commit(h)
  <2>1. \/ proposal' = Finish(p, "RECORDED") /\ GoTo(h, "readback")
        \/ UNCHANGED proposal /\ Answer(h, "FAILED")
    BY <1>12 DEF Commit
  <2>2. UNCHANGED faults
    BY <1>12 DEF Commit
  <2> QED
    BY <1>1, <1>2, <1>3, <1>4, <1>5, <2>1, <2>2 DEF RequestTypes
<1>13. CASE ReadBack(h)
  <2>1. Answer(h, "RECORDED") \/ Answer(h, "FAILED")
    BY <1>13 DEF ReadBack
  <2>2. UNCHANGED <<proposal, faults>>
    BY <1>13 DEF ReadBack
  <2> QED
    BY <1>1, <1>2, <1>5, <2>1, <2>2 DEF RequestTypes
<1>14. CASE Crash(h)
  <2>1. faults' \in 0 .. MaxFaults
    BY <1>14, ApprovalAssumption DEF Crash, RequestTypes
  <2> QED
    BY <1>1, <1>2, <1>5, <1>14, <2>1 DEF Crash, RequestTypes
<1> QED
  BY <1>6, <1>7, <1>8, <1>9, <1>10, <1>11, <1>12, <1>13, <1>14 DEF HandlerStep

\* Proposals staged, requests started or answered from the row, leases ending.
LEMMA RequestTypesStep ==
  ASSUME RequestTypes, NEW p \in Proposals,
         \/ Propose(p) \/ LeaseEnds(p) \/ LeaseOutrun(p)
         \/ \E h \in Handlers : StartConfirm(h, p) \/ StartReject(h, p) \/ AnswerFromRow(h, p)
  PROVE  RequestTypes'
<1>1. /\ handler \in [Handlers -> HandlerLocals]
      /\ proposal \in [Proposals -> ProposalRecord]
  BY DEF RequestTypes
<1>2. /\ Finish(p, "PENDING") \in [Proposals -> ProposalRecord]
      /\ [proposal EXCEPT ![p].expired = TRUE] \in [Proposals -> ProposalRecord]
  BY <1>1, ProposalTypes DEF Statuses
<1>3. CASE Propose(p)
  BY <1>1, <1>2, <1>3 DEF Propose, RequestTypes
<1>4. CASE LeaseEnds(p)
  BY <1>1, <1>2, <1>4 DEF LeaseEnds, RequestTypes
<1>5. CASE LeaseOutrun(p)
  <2>1. faults' \in 0 .. MaxFaults
    BY <1>5, ApprovalAssumption DEF LeaseOutrun, RequestTypes
  <2> QED
    BY <1>1, <1>2, <1>5, <2>1 DEF LeaseOutrun, RequestTypes
<1>6. ASSUME NEW h \in Handlers, StartConfirm(h, p) \/ StartReject(h, p)
      PROVE  RequestTypes'
  <2> DEFINE started(pc) == [Answered(p, "none") EXCEPT !.pc = pc]
  <2>1. Answered(p, "none") \in HandlerLocals
    BY AnsweredIsLocals DEF Replies
  <2>2. started("claim") \in HandlerLocals /\ started("reject") \in HandlerLocals
    BY <2>1 DEF HandlerLocals
  <2>3. \/ handler' = [handler EXCEPT ![h] = started("claim")]
        \/ handler' = [handler EXCEPT ![h] = started("reject")]
    BY <1>6 DEF StartConfirm, StartReject, Start
  <2>4. UNCHANGED <<proposal, faults>>
    BY <1>6 DEF StartConfirm, StartReject, Start
  <2> HIDE DEF started
  <2> QED
    BY <1>1, <2>2, <2>3, <2>4 DEF RequestTypes
<1>7. ASSUME NEW h \in Handlers, AnswerFromRow(h, p)
      PROVE  RequestTypes'
  <2>1. \A reply \in {"RECORDED", "REFUSED"} : Answered(p, reply) \in HandlerLocals
    BY AnsweredIsLocals DEF Replies
  <2>2. \E reply \in {"RECORDED", "REFUSED"} :
          handler' = [handler EXCEPT ![h] = Answered(p, reply)]
    BY <1>7 DEF AnswerFromRow
  <2>3. UNCHANGED <<proposal, faults>>
    BY <1>7 DEF AnswerFromRow
  <2> QED
    BY <1>1, <2>1, <2>2, <2>3 DEF RequestTypes
<1> QED
  BY <1>3, <1>4, <1>5, <1>6, <1>7
LEMMA WebReadTypes ==
  ASSUME WriterInv, BookTypes, NEW w \in Writers, NEW c \in WebEdits, WebRead(w, c)
  PROVE  WriterInv'
<1> DEFINE l == [pc |-> "write", edit |-> c, row |-> docs[c.book]]
<1>1. c.book \in Books
  BY ApprovalAssumption DEF Edit
<1>2. l \in WriterLocals /\ Accepts(l.row, l.edit)
  BY <1>1 DEF WriterLocals, BookTypes, WebRead
<1>3. writer' = [writer EXCEPT ![w] = l]
  BY DEF WebRead
<1> HIDE DEF l
<1>4. writer' \in [Writers -> WriterLocals]
  BY <1>2, <1>3 DEF WriterInv
<1>5. writer'[w] = l /\ \A v \in Writers \ {w} : writer'[v] = writer[v]
  BY <1>3 DEF WriterInv
<1> QED
  BY <1>2, <1>4, <1>5 DEF WriterInv, WritersAccepted

\* Every step, sorted by what it does to the two books.
LEMMA StepKinds ==
  ASSUME BaseInv, Next
  PROVE  \/ UNCHANGED <<docs, journal>>
         \/ \E h \in Handlers : Approves(h)
         \/ \E w \in Writers : Saves(w)
         \/ \E b \in Books : Opens(b)
<1>1. ASSUME NEW p \in Proposals, Propose(p) \/ LeaseEnds(p) \/ LeaseOutrun(p)
      PROVE  UNCHANGED <<docs, journal>>
  BY <1>1 DEF Propose, LeaseEnds, LeaseOutrun
<1>2. ASSUME NEW h \in Handlers, HandlerStep(h) \/ Crash(h)
      PROVE  UNCHANGED <<docs, journal>> \/ Approves(h)
  <2>1. CASE Commit(h)
    BY <2>1, CommitStep
  <2>2. CASE ~Commit(h)
    BY <1>2, <2>2 DEF HandlerStep, Reject, Claim, ReadTarget, ReadOther, ReleaseClaim,
                      Record, SaveRead, ReadBack, Crash
  <2> QED
    BY <2>1, <2>2
<1>3. ASSUME NEW h \in Handlers, NEW p \in Proposals,
             StartConfirm(h, p) \/ StartReject(h, p) \/ AnswerFromRow(h, p)
      PROVE  UNCHANGED <<docs, journal>>
  BY <1>3 DEF StartConfirm, StartReject, Start, AnswerFromRow
<1>4. ASSUME NEW b \in Books, Initialise(b)
      PROVE  Opens(b)
  BY <1>4, OpenStep
<1>5. ASSUME NEW w \in Writers, WebWrite(w)
      PROVE  UNCHANGED <<docs, journal>> \/ Saves(w)
  BY <1>5, WriteStep
<1>6. ASSUME NEW w \in Writers, NEW c \in WebEdits, WebRead(w, c)
      PROVE  UNCHANGED <<docs, journal>>
  BY <1>6 DEF WebRead
<1> QED
  BY <1>1, <1>2, <1>3, <1>4, <1>5, <1>6 DEF Next

LEMMA BaseInitial == Init => BaseInv
<1> SUFFICES ASSUME Init PROVE BaseInv
  OBVIOUS
<1>1. RequestTypes
  <2>1. proposal \in [Proposals -> ProposalRecord]
    BY DEF Init, ProposalRecord, Statuses
  <2>2. (CHOOSE p \in Proposals : TRUE) \in Proposals
    BY ApprovalAssumption
  <2>3. Answered(CHOOSE p \in Proposals : TRUE, "none") \in HandlerLocals
    BY <2>2, AnsweredIsLocals DEF Replies
  <2>4. handler \in [Handlers -> HandlerLocals]
    BY <2>3 DEF Init
  <2>5. faults \in 0 .. MaxFaults
    BY ApprovalAssumption DEF Init
  <2> QED
    BY <2>1, <2>4, <2>5 DEF RequestTypes
<1>2. WriterInv
  <2>1. writer = [w \in Writers |-> [pc |-> "idle"]]
    BY DEF Init
  <2>2. [pc |-> "idle"] \in WriterLocals
    BY DEF WriterLocals
  <2> QED
    BY <2>1, <2>2 DEF WriterInv, WritersAccepted
<1>3. PICK present \in SUBSET Books :
        docs = [b \in Books |-> IF b \in present THEN InitialDocument(b) ELSE NoDocument]
  BY DEF Init
<1>4. docs \in [Books -> Document]
  BY <1>3, InitialIsDocument, NoDocumentIsDocument
<1>5. /\ journal = [b \in Books |-> Synced(EmptyJournal, NoDocument, docs[b])]
      /\ \A b \in Books : ValidDocument(docs[b])
  BY DEF Init, Storable
<1>6. ASSUME NEW b \in Books
      PROVE  /\ IsJournal(journal[b]) /\ Mirrored(docs[b], journal[b])
             /\ docs[b].revision = 0 => DOMAIN journal[b] = {}
  <2>1. IsJournal(EmptyJournal) /\ DOMAIN EmptyJournal = {}
    BY DEF EmptyJournal, IsJournal
  <2>2. Mirrored(NoDocument, EmptyJournal)
    BY <2>1 DEF Mirrored, NoDocument, LiveIds, FillIds
  <2>3. SyncAccepts(EmptyJournal, NoDocument, docs[b])
    BY <2>1 DEF SyncAccepts, SecurityFits, SecurityFills, NoDocument
  <2>4. journal[b] = Synced(EmptyJournal, NoDocument, docs[b])
        /\ docs[b] \in Document /\ ValidDocument(docs[b])
    BY <1>4, <1>5
  <2>5. IsJournal(journal[b]) /\ Mirrored(docs[b], journal[b])
    BY <2>1, <2>2, <2>3, <2>4, NoDocumentIsDocument, SyncMirrors
  <2>6. docs[b].revision = 0 => FillIds(docs[b]) = {}
    BY <1>3, InitialIsDocument, NoDocumentIsDocument
  <2>7. DOMAIN journal[b] = FillIds(docs[b])
    BY <2>1, <2>4 DEF Synced
  <2> QED
    BY <2>5, <2>6, <2>7
<1>7. BookTypes /\ BooksMirrored
  BY <1>4, <1>5, <1>6 DEF BookTypes, BooksMirrored
<1> QED
  BY <1>1, <1>2, <1>7, BaseParts

LEMMA BaseInductive == BaseInv /\ [Next]_vars => BaseInv'
<1> SUFFICES ASSUME BaseInv, [Next]_vars PROVE BaseInv'
  OBVIOUS
<1>1. RequestTypes /\ WriterInv /\ BookTypes /\ BooksMirrored
  BY BaseParts
<1>2. BookTypes' /\ BooksMirrored'
  <2>1. CASE UNCHANGED <<docs, journal>>
    BY <1>1, <2>1, BooksStay
  <2>2. CASE ~UNCHANGED <<docs, journal>>
    <3>1. Next
      BY <2>2 DEF vars
    <3> QED
      BY <2>2, <3>1, StepKinds DEF Approves, Saves, Opens, Rewritten
  <2> QED
    BY <2>1, <2>2
<1>3. RequestTypes' /\ WriterInv'
  <2>1. CASE UNCHANGED vars
    BY <1>1, <2>1, WritersStay DEF vars, RequestTypes
  <2>2. ASSUME NEW p \in Proposals,
               \/ Propose(p) \/ LeaseEnds(p) \/ LeaseOutrun(p)
               \/ \E h \in Handlers :
                    StartConfirm(h, p) \/ StartReject(h, p) \/ AnswerFromRow(h, p)
        PROVE  RequestTypes' /\ WriterInv'
    <3>1. UNCHANGED writer
      BY <2>2 DEF Propose, LeaseEnds, LeaseOutrun, StartConfirm, StartReject, Start,
                  AnswerFromRow
    <3> QED
      BY <1>1, <2>2, <3>1, WritersStay, RequestTypesStep
  <2>3. ASSUME NEW h \in Handlers, HandlerStep(h) \/ Crash(h)
        PROVE  RequestTypes' /\ WriterInv'
    <3>1. UNCHANGED writer
      BY <2>3 DEF HandlerStep, Reject, Claim, ReadTarget, ReadOther, ReleaseClaim, Record,
                  SaveRead, Commit, ReadBack, Crash
    <3> QED
      BY <1>1, <2>3, <3>1, WritersStay, HandlerStepTypes
  <2>4. ASSUME NEW b \in Books, Initialise(b)
        PROVE  RequestTypes' /\ WriterInv'
    <3>1. UNCHANGED <<proposal, handler, writer, faults>>
      BY <2>4 DEF Initialise
    <3> QED
      BY <1>1, <3>1, WritersStay DEF RequestTypes
  <2>5. ASSUME NEW w \in Writers, WebWrite(w)
        PROVE  RequestTypes' /\ WriterInv'
    <3>1. UNCHANGED <<proposal, handler, faults>> /\ writer' = [writer EXCEPT ![w] = [pc |-> "idle"]]
      BY <2>5 DEF WebWrite
    <3> QED
      BY <1>1, <3>1, WriterEnds DEF RequestTypes
  <2>6. ASSUME NEW w \in Writers, NEW c \in WebEdits, WebRead(w, c)
        PROVE  RequestTypes' /\ WriterInv'
    <3>1. UNCHANGED <<proposal, handler, faults>>
      BY <2>6 DEF WebRead
    <3> QED
      BY <1>1, <2>6, <3>1, WebReadTypes DEF RequestTypes
  <2> QED
    BY <2>1, <2>2, <2>3, <2>4, <2>5, <2>6 DEF Next
<1> QED
  BY <1>2, <1>3, BasePartsNext

LEMMA BaseHolds == Spec => []BaseInv
  BY BaseInitial, BaseInductive, PTL DEF Spec

\* Every reachable state of the approval system is well-typed: documents stay
\* documents and journals stay chains numbered from 1, whatever the requests,
\* writers and faults do.
THEOREM TypeCorrect == Spec => []TypeOK
<1>1. BaseInv => TypeOK
  BY DEF BaseInv
<1> QED
  BY <1>1, BaseHolds, PTL

\* The live heads of every journal are the executions of its document.
THEOREM JournalMirrorsDocument == Spec => []HeadsMatchDocument
<1>1. BaseInv => HeadsMatchDocument
  <2> SUFFICES ASSUME BaseInv, NEW b \in Books
               PROVE  docs[b].executions = {journal[b][id].fill : id \in LiveIds(journal[b])}
    BY DEF HeadsMatchDocument
  <2>1. docs[b] \in Document /\ Mirrored(docs[b], journal[b])
    BY DEF BaseInv, TypeOK, BooksMirrored
  <2> QED
    BY <2>1, MirroredHeads
<1> QED
  BY <1>1, BaseHolds, PTL
-----------------------------------------------------------------------------
(* A revision names one content.                                           *)

\* What the invariant says of one held copy.
Names(row, b) ==
  row.revision <= docs[b].revision /\ (row.revision = docs[b].revision => row = docs[b])

\* A write of a book outdates the copies of it and leaves the others alone.
LEMMA CopiesAge ==
  ASSUME BaseInv, BaseInv', NEW b \in Books, NEW payload, Rewritten(b, payload),
         NEW row \in Document, NEW o \in Books, Names(row, o)
  PROVE  Names(row, o)'
<1>1. row.revision \in Nat /\ docs[b].revision \in Nat /\ docs'[b].revision \in Nat
  BY DEF BaseInv, TypeOK, Document, DocumentFields
<1>2. CASE o = b
  BY <1>1, <1>2 DEF Names, Rewritten
<1>3. CASE o # b
  BY <1>3 DEF Names, Rewritten
<1> QED
  BY <1>2, <1>3
LEMMA NamesStable ==
  ASSUME BaseInv, BaseInv', [Next]_vars, NEW row \in Document, NEW o \in Books, Names(row, o)
  PROVE  Names(row, o)'
<1>1. CASE UNCHANGED docs
  BY <1>1 DEF Names
<1>2. CASE ~UNCHANGED docs
  <2>1. \E b \in Books : \E payload : Rewritten(b, payload)
    <3>1. Next
      BY <1>2 DEF vars
    <3>2. ASSUME NEW h \in Handlers, Approves(h)
          PROVE  Rewritten(BookOf(handler[h].proposal), Approved(h))
                 /\ BookOf(handler[h].proposal) \in Books
      BY <3>2, TradeAssumption DEF Approves, BaseInv, TypeOK, HandlerLocals, BookOf
    <3>3. ASSUME NEW w \in Writers, Saves(w)
          PROVE  \E b \in Books : \E payload : Rewritten(b, payload)
      <4>1. writer[w] \in WriterLocals /\ writer[w].pc = "write"
        BY <3>3 DEF Saves, BaseInv, TypeOK
      <4>2. writer[w].edit.book \in Books
        BY <4>1, ApprovalAssumption DEF WriterLocals, Edit
      <4> QED
        BY <3>3, <4>2 DEF Saves
    <3> QED
      BY <1>2, <3>1, <3>2, <3>3, StepKinds DEF Opens
  <2> QED
    BY <2>1, CopiesAge
<1> QED
  BY <1>1, <1>2

\* A handler comes to hold a copy only by reading its book, and only one that
\* still projects with the fill.
LEMMA HandlerCopies ==
  ASSUME BaseInv, [Next]_vars, NEW g \in Handlers, handler'[g].pc = "commit"
  PROVE  \/ handler'[g] = handler[g]
         \/ /\ UNCHANGED docs
            /\ handler'[g].row = docs[BookOf(handler'[g].proposal)]
            /\ Projects(ApprovedDocument(handler'[g].row, handler'[g].proposal))
<1>1. handler \in [Handlers -> HandlerLocals]
  BY DEF BaseInv, TypeOK
<1>2. ASSUME NEW h \in Handlers, NEW l, handler' = [handler EXCEPT ![h] = l], l.pc # "commit"
      PROVE  handler'[g] = handler[g]
  BY <1>1, <1>2
<1>3. \A p, reply : Answered(p, reply).pc = "idle"
  BY DEF Answered
<1>4. ASSUME NEW h \in Handlers, NEW reply, Answer(h, reply)
      PROVE  handler'[g] = handler[g]
  <2>1. handler' = [handler EXCEPT ![h] = Answered(handler[h].proposal, reply)]
    BY <1>4 DEF Answer
  <2> QED
    BY <1>2, <1>3, <2>1
<1>5. ASSUME NEW h \in Handlers, NEW pc, GoTo(h, pc), pc # "commit"
      PROVE  handler'[g] = handler[g]
  <2> DEFINE l == [handler[h] EXCEPT !.pc = pc]
  <2>1. handler' = [handler EXCEPT ![h] = l]
    BY <1>5 DEF GoTo
  <2>2. l.pc = pc
    BY <1>1 DEF HandlerLocals
  <2> HIDE DEF l
  <2> QED
    BY <1>2, <1>5, <2>1, <2>2
<1>6. ASSUME NEW p \in Proposals,
             \/ Propose(p) \/ LeaseEnds(p) \/ LeaseOutrun(p)
      PROVE  handler'[g] = handler[g]
  BY <1>6 DEF Propose, LeaseEnds, LeaseOutrun
<1>7. ASSUME NEW h \in Handlers, NEW p \in Proposals, StartConfirm(h, p) \/ StartReject(h, p)
      PROVE  handler'[g] = handler[g]
  <2>1. PICK pc \in {"claim", "reject"} :
          handler' = [handler EXCEPT ![h] = [Answered(p, "none") EXCEPT !.pc = pc]]
    BY <1>7 DEF StartConfirm, StartReject, Start
  <2>2. [Answered(p, "none") EXCEPT !.pc = pc].pc # "commit"
    BY DEF Answered
  <2> QED
    BY <1>2, <2>1, <2>2
<1>8. ASSUME NEW h \in Handlers, NEW p \in Proposals, AnswerFromRow(h, p)
      PROVE  handler'[g] = handler[g]
  <2>1. \E reply : handler' = [handler EXCEPT ![h] = Answered(p, reply)]
    BY <1>8 DEF AnswerFromRow
  <2> QED
    BY <1>2, <1>3, <2>1
<1>9. ASSUME NEW h \in Handlers, ReadTarget(h) \/ ReadOther(h)
      PROVE  handler'[g] = handler[g]
  <2> DEFINE l == handler[h]
             verdict == TargetVerdict(docs[BookOf(l.proposal)], l.proposal)
             d == Decided(l, verdict, l.other)
             e == [d EXCEPT !.expected = docs[BookOf(l.proposal)].revision]
             taken == \E o \in Books \ {BookOf(l.proposal)} : HasEvidence(docs[o], l.proposal)
             f == Decided(l, l.target, IF taken THEN "taken" ELSE "clear")
  <2>1. l \in HandlerLocals /\ l.target # "commit"
    BY <1>1 DEF HandlerLocals
  <2>2. \A target, other : target # "commit" => /\ Decided(l, target, other).pc # "commit"
                                              /\ "pc" \in DOMAIN Decided(l, target, other)
    <3> HIDE DEF l
    <3> QED
      BY <2>1 DEF Decided, HandlerLocals
  <2>3. verdict # "commit"
    <3>1. docs[BookOf(l.proposal)].revision \in Nat
      BY <2>1, TradeAssumption DEF BaseInv, TypeOK, Document, DocumentFields, HandlerLocals, BookOf
    <3> QED
      BY <3>1 DEF TargetVerdict
  <2>4. e.pc # "commit"
    <3>1. d.pc # "commit" /\ "pc" \in DOMAIN d
      <4> HIDE DEF l, verdict
      <4> QED
        BY <2>2, <2>3
    <3> HIDE DEF d
    <3> QED
      BY <3>1
  <2>5. f.pc # "commit"
    <3> HIDE DEF l, taken
    <3> QED
      BY <2>1, <2>2
  <2>6. handler' = [handler EXCEPT ![h] = e] \/ handler' = [handler EXCEPT ![h] = f]
    BY <1>9 DEF ReadTarget, ReadOther
  <2> HIDE DEF e, f
  <2> QED
    BY <1>2, <2>4, <2>5, <2>6
<1>10. ASSUME NEW h \in Handlers, SaveRead(h)
       PROVE  \/ handler'[g] = handler[g]
              \/ /\ UNCHANGED docs
                 /\ handler'[g].row = docs[BookOf(handler'[g].proposal)]
                 /\ Projects(ApprovedDocument(handler'[g].row, handler'[g].proposal))
  <2> DEFINE doc == docs[BookOf(handler[h].proposal)]
             l == [handler[h] EXCEPT !.pc = "commit", !.row = doc]
  <2>1. \/ GoTo(h, "record")
        \/ Answer(h, "FAILED")
        \/ /\ handler' = [handler EXCEPT ![h] = l]
           /\ Projects(ApprovedDocument(doc, handler[h].proposal))
    BY <1>10 DEF SaveRead
  <2>2. l.row = doc /\ l.proposal = handler[h].proposal
    <3> HIDE DEF doc
    <3> QED
      BY <1>1 DEF HandlerLocals
  <2>3. UNCHANGED docs
    BY <1>10 DEF SaveRead
  <2>4. CASE /\ handler' = [handler EXCEPT ![h] = l]
             /\ Projects(ApprovedDocument(doc, handler[h].proposal))
    <3> HIDE DEF l
    <3>1. handler'[h] = l /\ (g # h => handler'[g] = handler[g])
      BY <1>1, <2>4
    <3> QED
      BY <2>2, <2>3, <2>4, <3>1
  <2> QED
    BY <1>4, <1>5, <2>1, <2>4
<1>11. ASSUME NEW h \in Handlers,
              \/ Reject(h) \/ Claim(h) \/ ReleaseClaim(h) \/ Record(h)
              \/ Commit(h) \/ ReadBack(h) \/ Crash(h)
       PROVE  handler'[g] = handler[g]
  <2>1. (\E reply : Answer(h, reply)) \/ GoTo(h, "read") \/ GoTo(h, "readback")
    BY <1>11 DEF Reject, Claim, ReleaseClaim, Record, Commit, ReadBack, Crash
  <2> QED
    BY <1>4, <1>5, <2>1
<1>12. ASSUME UNCHANGED handler PROVE handler'[g] = handler[g]
  BY <1>12
<1>13. ASSUME NEW b \in Books, Initialise(b) PROVE UNCHANGED handler
  BY <1>13 DEF Initialise
<1>14. ASSUME NEW w \in Writers, WebWrite(w) \/ \E c \in WebEdits : WebRead(w, c)
       PROVE  UNCHANGED handler
  BY <1>14 DEF WebWrite, WebRead
<1> QED
  BY <1>6, <1>7, <1>8, <1>9, <1>10, <1>11, <1>12, <1>13, <1>14 DEF Next, HandlerStep, vars
LEMMA WriterCopies ==
  ASSUME BaseInv, [Next]_vars, NEW v \in Writers, writer'[v].pc = "write"
  PROVE  \/ writer'[v] = writer[v]
         \/ UNCHANGED docs /\ writer'[v].row = docs[writer'[v].edit.book]
<1>1. writer \in [Writers -> WriterLocals]
  BY DEF BaseInv, TypeOK
<1>2. ASSUME NEW w \in Writers, NEW c \in WebEdits, WebRead(w, c)
      PROVE  \/ writer'[v] = writer[v]
             \/ UNCHANGED docs /\ writer'[v].row = docs[writer'[v].edit.book]
  <2> DEFINE l == [pc |-> "write", edit |-> c, row |-> docs[c.book]]
  <2>1. writer' = [writer EXCEPT ![w] = l] /\ UNCHANGED docs
    BY <1>2 DEF WebRead
  <2>2. l.row = docs[l.edit.book]
    OBVIOUS
  <2> HIDE DEF l
  <2> QED
    BY <1>1, <2>1, <2>2
<1>3. ASSUME NEW w \in Writers, WebWrite(w)
      PROVE  writer'[v] = writer[v]
  <2>1. writer' = [writer EXCEPT ![w] = [pc |-> "idle"]]
    BY <1>3 DEF WebWrite
  <2> QED
    BY <1>1, <2>1
<1>4. ASSUME NEW h \in Handlers, HandlerStep(h) \/ Crash(h)
      PROVE  UNCHANGED writer
  BY <1>4 DEF HandlerStep, Reject, Claim, ReadTarget, ReadOther, ReleaseClaim, Record,
              SaveRead, Commit, ReadBack, Crash
<1>5. ASSUME NEW p \in Proposals,
             \/ Propose(p) \/ LeaseEnds(p) \/ LeaseOutrun(p)
             \/ \E h \in Handlers : StartConfirm(h, p) \/ StartReject(h, p) \/ AnswerFromRow(h, p)
      PROVE  UNCHANGED writer
  BY <1>5 DEF Propose, LeaseEnds, LeaseOutrun, StartConfirm, StartReject, Start, AnswerFromRow
<1>6. ASSUME NEW b \in Books, Initialise(b) PROVE UNCHANGED writer
  BY <1>6 DEF Initialise
<1> QED
  BY <1>2, <1>3, <1>4, <1>5, <1>6 DEF Next, vars

\* The copies requests and website saves hold, in terms of Names.
LEMMA CopiesAreNames ==
  RevisionNamesContent <=>
    /\ \A h \in Handlers : handler[h].pc = "commit" =>
         Names(handler[h].row, BookOf(handler[h].proposal))
    /\ \A w \in Writers : writer[w].pc = "write" =>
         Names(writer[w].row, writer[w].edit.book)
BY DEF RevisionNamesContent, Names

LEMMA CopiesAreNamesNext ==
  (/\ \A h \in Handlers : handler'[h].pc = "commit" =>
        Names(handler[h].row, BookOf(handler[h].proposal))'
   /\ \A w \in Writers : writer'[w].pc = "write" =>
        Names(writer[w].row, writer[w].edit.book)') => RevisionNamesContent'
BY DEF RevisionNamesContent, Names

LEMMA CopiesInductive ==
  BaseInv /\ BaseInv' /\ RevisionNamesContent /\ [Next]_vars => RevisionNamesContent'
<1> SUFFICES ASSUME BaseInv, BaseInv', RevisionNamesContent, [Next]_vars
             PROVE  RevisionNamesContent'
  OBVIOUS
<1>1. ASSUME NEW h \in Handlers, handler'[h].pc = "commit"
      PROVE  Names(handler[h].row, BookOf(handler[h].proposal))'
  <2>1. handler'[h].row \in Document /\ BookOf(handler'[h].proposal) \in Books
    BY TradeAssumption DEF BaseInv, TypeOK, HandlerLocals, BookOf
  <2>2. CASE handler'[h] = handler[h]
    <3>1. Names(handler[h].row, BookOf(handler[h].proposal))
      BY <1>1, <2>2, CopiesAreNames
    <3> DEFINE row == handler[h].row
               o == BookOf(handler[h].proposal)
    <3>2. row \in Document /\ o \in Books
      BY <2>1, <2>2
    <3>3. row.revision <= docs'[o].revision /\ (row.revision = docs'[o].revision => row = docs'[o])
      <4> HIDE DEF row, o
      <4> QED
        BY <3>1, <3>2, NamesStable DEF Names, row, o
    <3> QED
      BY <2>2, <3>3 DEF Names
  <2>3. CASE UNCHANGED docs /\ handler'[h].row = docs[BookOf(handler'[h].proposal)]
    <3>1. docs[BookOf(handler'[h].proposal)].revision \in Nat
      BY <2>1 DEF BaseInv, TypeOK, Document, DocumentFields
    <3> QED
      BY <2>3, <3>1 DEF Names
  <2> QED
    BY <1>1, <2>2, <2>3, HandlerCopies
<1>2. ASSUME NEW w \in Writers, writer'[w].pc = "write"
      PROVE  Names(writer[w].row, writer[w].edit.book)'
  <2>1. writer'[w] \in WriterLocals
    BY DEF BaseInv, TypeOK
  <2>2. writer'[w].row \in Document /\ writer'[w].edit.book \in Books
    BY <1>2, <2>1, ApprovalAssumption DEF WriterLocals, Edit
  <2>3. CASE writer'[w] = writer[w]
    <3>1. Names(writer[w].row, writer[w].edit.book)
      BY <1>2, <2>3, CopiesAreNames
    <3> DEFINE row == writer[w].row
               o == writer[w].edit.book
    <3>2. row \in Document /\ o \in Books
      BY <2>2, <2>3
    <3>3. row.revision <= docs'[o].revision /\ (row.revision = docs'[o].revision => row = docs'[o])
      <4> HIDE DEF row, o
      <4> QED
        BY <3>1, <3>2, NamesStable DEF Names, row, o
    <3> QED
      BY <2>3, <3>3 DEF Names
  <2>4. CASE UNCHANGED docs /\ writer'[w].row = docs[writer'[w].edit.book]
    <3>1. docs[writer'[w].edit.book].revision \in Nat
      BY <2>2 DEF BaseInv, TypeOK, Document, DocumentFields
    <3> QED
      BY <2>4, <3>1 DEF Names
  <2> QED
    BY <1>2, <2>3, <2>4, WriterCopies
<1> QED
  BY <1>1, <1>2, CopiesAreNamesNext

\* A revision number names one content: no request ever holds a copy of a book
\* that differs from the book while its revision is still the book's.
THEOREM RevisionNamesOneContent == Spec => []RevisionNamesContent
<1>1. Init => RevisionNamesContent
  BY DEF Init, RevisionNamesContent, Answered
<1> QED
  BY <1>1, BaseHolds, CopiesInductive, PTL DEF Spec
-----------------------------------------------------------------------------
(* How the status of a proposal moves.                                     *)

\* Handler h resolves its own claim on p.
Resolves(h, p) ==
  /\ proposal[p].token = h /\ handler[h].proposal = p
  /\ handler[h].pc \in {"release", "record", "commit"}
  /\ handler'[h] # handler[h]

LEMMA StatusMoves ==
  ASSUME BaseInv, [Next]_vars, NEW p \in Proposals,
         proposal'[p].status # proposal[p].status
  PROVE  \/ proposal[p].status = "ABSENT" /\ proposal'[p].status = "PENDING"
            /\ UNCHANGED <<docs, journal>>
         \/ proposal[p].status = "PENDING" /\ proposal'[p].status \in {"PROCESSING", "REJECTED"}
            /\ UNCHANGED <<docs, journal>>
         \/ /\ proposal[p].status = "PROCESSING"
            /\ \E h \in Handlers :
                 /\ Resolves(h, p)
                 /\ \/ proposal'[p].status = "PENDING" /\ UNCHANGED <<docs, journal>>
                    \/ /\ proposal'[p].status = "RECORDED"
                       /\ \/ UNCHANGED <<docs, journal>> /\ p \in DOMAIN journal[BookOf(p)]
                          \/ Approves(h)
<1> DEFINE Goal ==
      \/ proposal[p].status = "ABSENT" /\ proposal'[p].status = "PENDING"
         /\ UNCHANGED <<docs, journal>>
      \/ proposal[p].status = "PENDING" /\ proposal'[p].status \in {"PROCESSING", "REJECTED"}
         /\ UNCHANGED <<docs, journal>>
      \/ /\ proposal[p].status = "PROCESSING"
         /\ \E h \in Handlers :
              /\ Resolves(h, p)
              /\ \/ proposal'[p].status = "PENDING" /\ UNCHANGED <<docs, journal>>
                 \/ /\ proposal'[p].status = "RECORDED"
                    /\ \/ UNCHANGED <<docs, journal>> /\ p \in DOMAIN journal[BookOf(p)]
                       \/ Approves(h)
<1>1. proposal \in [Proposals -> ProposalRecord] /\ handler \in [Handlers -> HandlerLocals]
  BY DEF BaseInv, TypeOK, ProposalRecord
<1>2. ASSUME NEW q \in Proposals, NEW r, proposal' = [proposal EXCEPT ![q] = r]
      PROVE  p = q /\ proposal'[p] = r
  BY <1>1, <1>2
<1>3. ASSUME NEW h \in Handlers, NEW reply, Answer(h, reply)
      PROVE  handler'[h].pc = "idle"
  <2>1. handler' = [handler EXCEPT ![h] = Answered(handler[h].proposal, reply)]
    BY <1>3 DEF Answer
  <2> QED
    BY <1>1, <2>1 DEF Answered
<1>4. ASSUME NEW q \in Proposals, Propose(q) PROVE Goal
  <2>1. proposal' = [proposal EXCEPT ![q] = [status |-> "PENDING", token |-> NoToken, expired |-> FALSE]]
    BY <1>4 DEF Propose, Finish
  <2> QED
    BY <1>2, <1>4, <2>1 DEF Propose
<1>5. ASSUME NEW q \in Proposals, LeaseEnds(q) \/ LeaseOutrun(q) PROVE FALSE
  <2> DEFINE r == [proposal[q] EXCEPT !.expired = TRUE]
  <2>1. proposal' = [proposal EXCEPT ![q] = r]
    BY <1>5 DEF LeaseEnds, LeaseOutrun
  <2>2. r.status = proposal[q].status
    BY <1>1 DEF ProposalRecord
  <2> HIDE DEF r
  <2> QED
    BY <1>2, <2>1, <2>2
<1>6. ASSUME NEW h \in Handlers, Reject(h) PROVE Goal
  <2> DEFINE q == handler[h].proposal
  <2>1. q \in Proposals /\ proposal[q].status = "PENDING" /\ UNCHANGED <<docs, journal>>
        /\ proposal' = [proposal EXCEPT ![q] = [status |-> "REJECTED", token |-> NoToken, expired |-> FALSE]]
    BY <1>1, <1>6 DEF Reject, Finish, HandlerLocals
  <2> HIDE DEF q
  <2> QED
    BY <1>2, <2>1
<1>7. ASSUME NEW h \in Handlers, Claim(h) PROVE Goal
  <2> DEFINE q == handler[h].proposal
  <2>1. /\ q \in Proposals /\ proposal[q].status \in {"PENDING", "PROCESSING"}
        /\ UNCHANGED <<docs, journal>>
        /\ proposal' = [proposal EXCEPT ![q] = [status |-> "PROCESSING", token |-> h, expired |-> FALSE]]
    BY <1>1, <1>7 DEF Claim, HandlerLocals
  <2> HIDE DEF q
  <2> QED
    BY <1>2, <2>1
<1>8. ASSUME NEW h \in Handlers, ReleaseClaim(h) PROVE Goal
  <2> DEFINE q == handler[h].proposal
  <2>1. /\ q \in Proposals /\ proposal[q].status = "PROCESSING" /\ proposal[q].token = h
        /\ handler[h].pc = "release" /\ Answer(h, "REFUSED") /\ UNCHANGED <<docs, journal>>
        /\ proposal' = [proposal EXCEPT ![q] = [status |-> "PENDING", token |-> NoToken, expired |-> FALSE]]
    BY <1>1, <1>8 DEF ReleaseClaim, Holds, Release, HandlerLocals
  <2>2. Resolves(h, q)
    BY <1>3, <2>1 DEF Resolves
  <2> HIDE DEF q
  <2> QED
    BY <1>2, <2>1, <2>2
<1>9. ASSUME NEW h \in Handlers, Record(h) PROVE Goal
  <2> DEFINE q == handler[h].proposal
  <2>1. /\ q \in Proposals /\ proposal[q].status = "PROCESSING" /\ proposal[q].token = h
        /\ handler[h].pc = "record" /\ Answer(h, "RECORDED") /\ UNCHANGED <<docs, journal>>
        /\ q \in DOMAIN journal[BookOf(q)]
        /\ proposal' = [proposal EXCEPT ![q] = [status |-> "RECORDED", token |-> NoToken, expired |-> FALSE]]
    BY <1>1, <1>9 DEF Record, RecordAccepts, Finish, HandlerLocals
  <2>2. Resolves(h, q)
    BY <1>3, <2>1 DEF Resolves
  <2> HIDE DEF q
  <2> QED
    BY <1>2, <2>1, <2>2
<1>10. ASSUME NEW h \in Handlers, Commit(h) PROVE Goal
  <2> DEFINE q == handler[h].proposal
  <2>1. Approves(h)
    BY <1>10, CommitStep
  <2>2. /\ q \in Proposals /\ proposal[q].status = "PROCESSING" /\ proposal[q].token = h
        /\ handler[h].pc = "commit" /\ GoTo(h, "readback")
        /\ proposal' = [proposal EXCEPT ![q] = [status |-> "RECORDED", token |-> NoToken, expired |-> FALSE]]
    BY <1>1, <2>1 DEF Approves, RecordAccepts, Finish, HandlerLocals
  <2>3. handler'[h].pc = "readback"
    BY <1>1, <2>2 DEF GoTo, HandlerLocals
  <2>4. Resolves(h, q)
    BY <2>2, <2>3 DEF Resolves
  <2> HIDE DEF q
  <2> QED
    BY <1>2, <2>1, <2>2, <2>4
<1>11. ASSUME NEW h \in Handlers, ReadTarget(h) \/ ReadOther(h) \/ SaveRead(h) \/ ReadBack(h) \/ Crash(h)
       PROVE  FALSE
  BY <1>11 DEF ReadTarget, ReadOther, SaveRead, ReadBack, Crash
<1>12. ASSUME NEW h \in Handlers, NEW q \in Proposals,
              StartConfirm(h, q) \/ StartReject(h, q) \/ AnswerFromRow(h, q)
       PROVE  FALSE
  BY <1>12 DEF StartConfirm, StartReject, Start, AnswerFromRow
<1>13. ASSUME NEW b \in Books, Initialise(b) PROVE FALSE
  BY <1>13 DEF Initialise
<1>14. ASSUME NEW w \in Writers, WebWrite(w) \/ \E c \in WebEdits : WebRead(w, c)
       PROVE  FALSE
  BY <1>14 DEF WebWrite, WebRead
<1>15. Next
  BY DEF vars
<1> HIDE DEF Goal
<1>16. Goal
  BY <1>4, <1>5, <1>6, <1>7, <1>8, <1>9, <1>10, <1>11, <1>12, <1>13, <1>14, <1>15
     DEF Next, HandlerStep
<1> QED
  BY <1>16 DEF Goal

\* RECORDED and REJECTED are final, whatever handlers, leases and retries do.
THEOREM AnswersAreFinal == Spec => FinalStatus
<1>1. BaseInv /\ [Next]_vars =>
        [\A p \in Proposals : proposal[p].status \in {"RECORDED", "REJECTED"} =>
           proposal'[p].status = proposal[p].status]_vars
  BY StatusMoves
<1> QED
  BY <1>1, BaseHolds, PTL DEF Spec, FinalStatus

\* Only the request that holds the current claim releases or records it.
THEOREM OnlyTheHolderResolves == Spec => OnlyHolderResolves
<1>1. BaseInv /\ [Next]_vars =>
        [\A p \in Proposals :
           proposal[p].status = "PROCESSING" /\ proposal'[p].status # "PROCESSING" =>
             \E h \in Handlers :
               /\ proposal[p].token = h /\ handler[h].proposal = p
               /\ handler[h].pc \in {"release", "record", "commit"}
               /\ handler'[h] # handler[h]]_vars
  BY StatusMoves DEF Resolves
<1> QED
  BY <1>1, BaseHolds, PTL DEF Spec, OnlyHolderResolves
-----------------------------------------------------------------------------
(* What a write adds and drops.                                            *)

CopyInv == BaseInv /\ RevisionNamesContent

LEMMA CopyHolds == Spec => []CopyInv
<1>1. Init => RevisionNamesContent
  BY DEF Init, RevisionNamesContent, Answered
<1> QED
  BY <1>1, BaseInitial, BaseInductive, CopiesInductive, PTL DEF Spec, CopyInv

\* The compare-and-set passed, so the copy a writer edited was the book.
LEMMA ApprovedOnBook ==
  ASSUME CopyInv, NEW h \in Handlers, Approves(h)
  PROVE  LET b == BookOf(handler[h].proposal) IN
         /\ handler[h].proposal \in Proposals /\ b \in Books
         /\ Rewritten(b, Approved(h))
         /\ FillIds(docs'[b]) = FillIds(docs[b]) \cup {handler[h].proposal}
<1> DEFINE p == handler[h].proposal
           b == BookOf(p)
           row == handler[h].row
<1>1. p \in Proposals /\ b \in Books /\ row \in Document
  BY TradeAssumption DEF CopyInv, BaseInv, TypeOK, HandlerLocals, BookOf
<1>2. Rewritten(b, Approved(h)) /\ UpdateAccepted(b, row, Approved(h)) /\ handler[h].pc = "commit"
  BY DEF Approves
<1>3. row = docs[b]
  BY <1>1, <1>2 DEF CopyInv, RevisionNamesContent, UpdateAccepted
<1>4. FillIds(docs'[b]) = FillIds(row) \cup {p}
  BY <1>1, <1>2, ApprovedIsDocument DEF Rewritten, Approved
<1> QED
  BY <1>1, <1>2, <1>3, <1>4

LEMMA SavedOnBook ==
  ASSUME CopyInv, NEW w \in Writers, Saves(w)
  PROVE  LET b == writer[w].edit.book IN
         /\ b \in Books
         /\ Rewritten(b, Edited(writer[w].row, writer[w].edit))
         /\ FillIds(docs'[b]) \subseteq FillIds(docs[b]) \cup WebIds
         /\ \A id \in FillIds(docs[b]) \ FillIds(docs'[b]) : Removes(writer[w].edit, id)
<1> DEFINE c == writer[w].edit
           b == c.book
           row == writer[w].row
<1>1. writer[w].pc = "write" /\ Rewritten(b, Edited(row, c)) /\ UpdateAccepted(b, row, Edited(row, c))
  BY DEF Saves
<1>2. c \in Edit /\ row \in Document /\ Accepts(row, c) /\ b \in Books
  <2>1. writer[w] \in WriterLocals
    BY DEF CopyInv, BaseInv, TypeOK
  <2>2. c \in WebEdits /\ row \in Document
    BY <1>1, <2>1 DEF WriterLocals
  <2>3. c \in Edit
    BY <2>2, ApprovalAssumption
  <2>4. b \in Books
    BY <2>3 DEF Edit
  <2> QED
    BY <1>1, <2>2, <2>3, <2>4 DEF CopyInv, BaseInv, WritersAccepted
<1>3. row = docs[b]
  BY <1>1, <1>2 DEF CopyInv, RevisionNamesContent, UpdateAccepted
<1>4. /\ FillIds(Edited(row, c)) \subseteq FillIds(row) \cup WebIds
      /\ \A id \in FillIds(row) \ FillIds(Edited(row, c)) : Removes(c, id)
  BY <1>2, EditedIsDocument
<1>5. FillIds(docs'[b]) = FillIds(Edited(row, c))
  BY <1>1 DEF Rewritten
<1> QED
  BY <1>1, <1>2, <1>3, <1>4, <1>5

LEMMA BookStays ==
  ASSUME NEW b \in Books, NEW payload, Rewritten(b, payload), NEW o \in Books, o # b
  PROVE  docs'[o] = docs[o] /\ journal'[o] = journal[o]
  BY DEF Rewritten

\* An execution leaves a book only by a website save that removes it.
THEOREM NoLostExecution == Spec => OnlyRemovalDrops
<1> DEFINE Dropped(b, id) ==
      \E w \in Writers : /\ writer[w].pc = "write" /\ writer'[w].pc = "idle"
                         /\ writer[w].edit.book = b
                         /\ Removes(writer[w].edit, id)
<1>1. CopyInv /\ [Next]_vars =>
        [\A b \in Books : \A id \in FillIds(docs[b]) \ FillIds(docs'[b]) : Dropped(b, id)]_vars
  <2> SUFFICES ASSUME CopyInv, Next, NEW o \in Books,
                      NEW id \in FillIds(docs[o]) \ FillIds(docs'[o])
               PROVE  Dropped(o, id)
    BY DEF vars
  <2>1. CASE UNCHANGED <<docs, journal>>
    BY <2>1
  <2>2. ASSUME NEW h \in Handlers, Approves(h) PROVE FALSE
    <3>1. CASE o = BookOf(handler[h].proposal)
      BY <2>2, <3>1, ApprovedOnBook
    <3>2. CASE o # BookOf(handler[h].proposal)
      BY <2>2, <3>2, ApprovedOnBook, BookStays
    <3> QED
      BY <3>1, <3>2
  <2>3. ASSUME NEW w \in Writers, Saves(w) PROVE Dropped(o, id)
    <3>1. writer[w].pc = "write" /\ writer'[w].pc = "idle"
      BY <2>3 DEF Saves, CopyInv, BaseInv, TypeOK
    <3>2. CASE o = writer[w].edit.book
      BY <2>3, <3>1, <3>2, SavedOnBook
    <3>3. CASE o # writer[w].edit.book
      BY <2>3, <3>3, SavedOnBook, BookStays
    <3> QED
      BY <3>2, <3>3
  <2>4. ASSUME NEW b \in Books, Opens(b) PROVE FALSE
    <3>1. CASE o = b
      <4>1. FillIds(docs[b]) = {}
        BY <2>4 DEF Opens, CopyInv, BaseInv, BooksMirrored, Mirrored, LiveIds
      <4> QED
        BY <3>1, <4>1
    <3>2. CASE o # b
      BY <2>4, <3>2, BookStays DEF Opens
    <3> QED
      BY <3>1, <3>2
  <2> QED
    BY <2>1, <2>2, <2>3, <2>4, StepKinds DEF CopyInv
<1> QED
  BY <1>1, CopyHolds, PTL DEF Spec, OnlyRemovalDrops
\* Every step that writes a book writes one book of Books.
LEMMA SomeRewrite ==
  ASSUME CopyInv, Next
  PROVE  \/ UNCHANGED <<docs, journal>>
         \/ \E b \in Books : \E payload : Rewritten(b, payload)
<1>1. ASSUME NEW h \in Handlers, Approves(h)
      PROVE  \E b \in Books : \E payload : Rewritten(b, payload)
  BY <1>1, ApprovedOnBook
<1>2. ASSUME NEW w \in Writers, Saves(w)
      PROVE  \E b \in Books : \E payload : Rewritten(b, payload)
  BY <1>2, SavedOnBook
<1>3. ASSUME NEW b \in Books, Opens(b)
      PROVE  Rewritten(b, InitialDocument(b))
  BY <1>3 DEF Opens
<1> QED
  BY <1>1, <1>2, <1>3, StepKinds DEF CopyInv

\* The canonical journal is append-only and a voided identity stays voided.
THEOREM JournalAppendOnly == Spec => JournalOnlyGrows
<1>1. CopyInv /\ [Next]_vars =>
        [\A b \in Books : \A id \in DOMAIN journal[b] :
           /\ id \in DOMAIN journal'[b]
           /\ journal'[b][id].revision >= journal[b][id].revision
           /\ id \notin LiveIds(journal[b]) => journal'[b][id] = journal[b][id]]_vars
  <2> SUFFICES ASSUME CopyInv, Next, NEW o \in Books, NEW id \in DOMAIN journal[o]
               PROVE  /\ id \in DOMAIN journal'[o]
                      /\ journal'[o][id].revision >= journal[o][id].revision
                      /\ id \notin LiveIds(journal[o]) => journal'[o][id] = journal[o][id]
    BY DEF vars
  <2>1. journal[o][id].revision \in Nat
    BY DEF CopyInv, BaseInv, TypeOK, IsJournal, JournalHead
  <2>2. CASE UNCHANGED <<docs, journal>>
    BY <2>1, <2>2
  <2>3. ASSUME NEW b \in Books, NEW payload, Rewritten(b, payload)
        PROVE  /\ id \in DOMAIN journal'[o]
               /\ journal'[o][id].revision >= journal[o][id].revision
               /\ id \notin LiveIds(journal[o]) => journal'[o][id] = journal[o][id]
    <3>1. CASE o = b
      BY <2>3, <3>1 DEF Rewritten
    <3>2. CASE o # b
      BY <2>1, <2>3, <3>2, BookStays
    <3> QED
      BY <3>1, <3>2
  <2> QED
    BY <2>2, <2>3, SomeRewrite
<1> QED
  BY <1>1, CopyHolds, PTL DEF Spec, JournalOnlyGrows

-----------------------------------------------------------------------------
(* A proposal enters the journal of its own book, and only by approval.    *)

InJournal(p, b) == p \in DOMAIN journal[b]

\* How a proposal's identity enters a journal.
LEMMA BookingMoves ==
  ASSUME CopyInv, Next, NEW p \in Proposals, NEW o \in Books
  PROVE  \/ InJournal(p, o)' <=> InJournal(p, o)
         \/ /\ InJournal(p, o)' /\ o = BookOf(p)
            /\ \/ p \in LegacySaved /\ UNCHANGED proposal
               \/ proposal'[p].status = "RECORDED"
<1> DEFINE Goal ==
      \/ InJournal(p, o)' <=> InJournal(p, o)
      \/ /\ InJournal(p, o)' /\ o = BookOf(p)
         /\ \/ p \in LegacySaved /\ UNCHANGED proposal
            \/ proposal'[p].status = "RECORDED"
<1>1. ASSUME NEW b \in Books, NEW payload, Rewritten(b, payload),
             o # b \/ p \notin FillIds(docs'[b]) \/ p \in FillIds(docs[b])
      PROVE  Goal
  <2>1. CASE o # b
    BY <1>1, <2>1, BookStays DEF InJournal
  <2>2. CASE o = b
    <3>1. DOMAIN journal'[b] = DOMAIN journal[b] \cup FillIds(docs'[b])
      BY <1>1 DEF Rewritten
    <3>2. FillIds(docs[b]) \subseteq DOMAIN journal[b]
      BY DEF CopyInv, BaseInv, BooksMirrored, Mirrored, LiveIds
    <3> QED
      BY <1>1, <2>2, <3>1, <3>2 DEF InJournal
  <2> QED
    BY <2>1, <2>2
<1>2. ASSUME UNCHANGED <<docs, journal>> PROVE Goal
  BY <1>2 DEF InJournal
<1>3. ASSUME NEW h \in Handlers, Approves(h) PROVE Goal
  <2> DEFINE q == handler[h].proposal
             b == BookOf(q)
  <2>1. /\ q \in Proposals /\ b \in Books /\ Rewritten(b, Approved(h))
        /\ FillIds(docs'[b]) = FillIds(docs[b]) \cup {q}
    BY <1>3, ApprovedOnBook
  <2>2. CASE p = q /\ o = b
    <3>1. InJournal(p, o)'
      BY <2>1, <2>2 DEF Rewritten, InJournal
    <3>2. proposal'[p].status = "RECORDED"
      BY <1>3, <2>1, <2>2 DEF Approves, Finish, CopyInv, BaseInv, TypeOK
    <3> QED
      BY <2>2, <3>1, <3>2
  <2>3. CASE ~(p = q /\ o = b)
    <3>1. o # b \/ p \notin FillIds(docs'[b]) \/ p \in FillIds(docs[b])
      BY <2>1, <2>3
    <3> HIDE DEF b, Goal
    <3> QED
      BY <1>1, <2>1, <3>1
  <2> QED
    BY <2>2, <2>3
<1>4. ASSUME NEW w \in Writers, Saves(w) PROVE Goal
  <2> DEFINE b == writer[w].edit.book
  <2>1. /\ b \in Books /\ Rewritten(b, Edited(writer[w].row, writer[w].edit))
        /\ FillIds(docs'[b]) \subseteq FillIds(docs[b]) \cup WebIds
    BY <1>4, SavedOnBook
  <2>2. p \notin FillIds(docs'[b]) \/ p \in FillIds(docs[b])
    BY <2>1, IdAssumption
  <2> HIDE DEF b, Goal
  <2> QED
    BY <1>1, <2>1, <2>2
<1>5. ASSUME NEW b \in Books, Opens(b) PROVE Goal
  <2>1. /\ Rewritten(b, InitialDocument(b)) /\ UNCHANGED proposal
        /\ FillIds(docs'[b]) = FillIds(InitialDocument(b))
    BY <1>5 DEF Opens, Rewritten
  <2>2. CASE o = b /\ p \in FillIds(docs'[b])
    <3>1. InJournal(p, o)'
      BY <2>1, <2>2 DEF Rewritten, InJournal
    <3>2. p \in LegacySaved /\ BookOf(p) = b
      BY <2>1, <2>2, InitialIsDocument
    <3> QED
      BY <2>1, <2>2, <3>1, <3>2
  <2>3. CASE ~(o = b /\ p \in FillIds(docs'[b]))
    <3> HIDE DEF Goal
    <3> QED
      BY <1>1, <2>1, <2>3
  <2> QED
    BY <2>2, <2>3
<1> HIDE DEF Goal
<1>6. Goal
  BY <1>2, <1>3, <1>4, <1>5, StepKinds DEF CopyInv
<1> QED
  BY <1>6 DEF Goal

\* The property, proposal by proposal.
Linked(p) ==
  /\ proposal[p].status = "RECORDED" => InJournal(p, BookOf(p))
  /\ InJournal(p, BookOf(p)) => proposal[p].status = "RECORDED" \/ p \in LegacySaved
  /\ \A b \in Books \ {BookOf(p)} : ~InJournal(p, b)

LEMMA LinkedStep ==
  ASSUME CopyInv, Next, NEW p \in Proposals, Linked(p)
  PROVE  Linked(p)'
<1>1. BookOf(p) \in Books
  BY TradeAssumption DEF BookOf
<1>2. \A b \in Books \ {BookOf(p)} : ~InJournal(p, b)'
  BY BookingMoves DEF Linked
<1>3. CASE proposal'[p].status = proposal[p].status
  <2>1. InJournal(p, BookOf(p)) => InJournal(p, BookOf(p))'
    BY <1>1, BookingMoves
  <2>2. InJournal(p, BookOf(p))' =>
          InJournal(p, BookOf(p)) \/ p \in LegacySaved \/ proposal'[p].status = "RECORDED"
    BY <1>1, BookingMoves
  <2> QED
    BY <1>2, <1>3, <2>1, <2>2 DEF Linked, BookOf
<1>4. CASE proposal'[p].status # proposal[p].status
  <2>1. ASSUME NEW h \in Handlers, Resolves(h, p), Approves(h),
               proposal'[p].status = "RECORDED"
        PROVE  Linked(p)'
    <3>1. InJournal(p, BookOf(p))'
      BY <2>1, ApprovedOnBook DEF Resolves, Rewritten, InJournal
    <3> QED
      BY <1>2, <2>1, <3>1 DEF Linked, BookOf
  <2>2. CASE /\ UNCHANGED <<docs, journal>>
             /\ \/ proposal[p].status = "ABSENT" /\ proposal'[p].status = "PENDING"
                \/ /\ proposal[p].status = "PENDING"
                   /\ proposal'[p].status \in {"PROCESSING", "REJECTED"}
                \/ /\ proposal[p].status = "PROCESSING"
                   /\ \/ proposal'[p].status = "PENDING"
                      \/ proposal'[p].status = "RECORDED" /\ InJournal(p, BookOf(p))
    <3>1. InJournal(p, BookOf(p))' <=> InJournal(p, BookOf(p))
      BY <2>2 DEF InJournal, BookOf
    <3> QED
      BY <1>2, <2>2, <3>1 DEF Linked, BookOf
  <2> QED
    BY <1>4, <2>1, <2>2, StatusMoves DEF CopyInv, InJournal
<1> QED
  BY <1>3, <1>4
LEMMA LinkedAll ==
  RecordedWithJournal <=> \A p \in Proposals : Linked(p)
BY DEF RecordedWithJournal, Linked, InJournal

LEMMA LinkedAllNext ==
  (\A p \in Proposals : Linked(p)') => RecordedWithJournal'
BY DEF RecordedWithJournal, Linked, InJournal, BookOf

LEMMA LinkedInitial ==
  ASSUME Init
  PROVE  RecordedWithJournal
<1>1. PICK present \in SUBSET Books :
        docs = [b \in Books |-> IF b \in present THEN InitialDocument(b) ELSE NoDocument]
  BY DEF Init
<1>2. \A b \in Books : DOMAIN journal[b] = FillIds(docs[b])
  BY DEF Init, Synced, EmptyJournal
<1>3. ASSUME NEW p \in Proposals, NEW b \in Books, p \in DOMAIN journal[b]
      PROVE  p \in LegacySaved /\ BookOf(p) = b
  <2>1. docs[b] = InitialDocument(b) \/ docs[b] = NoDocument
    BY <1>1
  <2>2. p \in FillIds(docs[b])
    BY <1>2, <1>3
  <2> QED
    BY <2>1, <2>2, InitialIsDocument, NoDocumentIsDocument
<1>4. \A p \in Proposals : proposal[p].status # "RECORDED" /\ BookOf(p) \in Books
  BY TradeAssumption DEF Init, BookOf
<1> QED
  BY <1>3, <1>4 DEF RecordedWithJournal

LinkInv == CopyInv /\ RecordedWithJournal

LEMMA LinkHolds == Spec => []LinkInv
<1>1. Init => RecordedWithJournal
  BY LinkedInitial
<1>2. CopyInv /\ CopyInv' /\ RecordedWithJournal /\ [Next]_vars => RecordedWithJournal'
  <2>1. CASE UNCHANGED vars
    BY <2>1 DEF vars, RecordedWithJournal
  <2>2. CASE Next
    BY <2>2, LinkedAll, LinkedStep, LinkedAllNext
  <2> QED
    BY <2>1, <2>2
<1> QED
  BY <1>1, <1>2, CopyHolds, PTL DEF Spec, LinkInv

\* A RECORDED proposal's execution is in the canonical journal of its own
\* book, and only a RECORDED (or legacy-saved) proposal's execution is.
THEOREM ApprovalIsBooked == Spec => []RecordedWithJournal
  BY LinkHolds, PTL DEF LinkInv

-----------------------------------------------------------------------------
(* The approval system implements the inbox.                               *)

\* A step moves the status of at most one proposal.
LEMMA OneMoves ==
  ASSUME BaseInv, [Next]_vars, NEW p \in Proposals, NEW q \in Proposals,
         proposal'[p].status # proposal[p].status, q # p
  PROVE  proposal'[q] = proposal[q]
<1>1. proposal \in [Proposals -> ProposalRecord] /\ handler \in [Handlers -> HandlerLocals]
  BY DEF BaseInv, TypeOK, ProposalRecord
<1>2. ASSUME NEW r \in Proposals, NEW v, proposal' = [proposal EXCEPT ![r] = v]
      PROVE  proposal'[q] = proposal[q]
  BY <1>1, <1>2
<1>3. ASSUME NEW r \in Proposals, Propose(r) \/ LeaseEnds(r) \/ LeaseOutrun(r)
      PROVE  \E v : proposal' = [proposal EXCEPT ![r] = v]
  <2>1. CASE Propose(r)
    BY <2>1 DEF Propose, Finish
  <2>2. CASE LeaseEnds(r) \/ LeaseOutrun(r)
    <3>1. proposal' = [proposal EXCEPT ![r] = [proposal[r] EXCEPT !.expired = TRUE]]
      BY <2>2 DEF LeaseEnds, LeaseOutrun
    <3> QED
      BY <3>1
  <2> QED
    BY <1>3, <2>1, <2>2
<1>4. ASSUME NEW h \in Handlers, HandlerStep(h) \/ Crash(h)
      PROVE  \/ UNCHANGED proposal
             \/ \E v : proposal' = [proposal EXCEPT ![handler[h].proposal] = v]
  BY <1>4 DEF HandlerStep, Reject, Claim, ReadTarget, ReadOther, ReleaseClaim, Record,
              SaveRead, Commit, ReadBack, Crash, Finish, Release
<1>5. \A h \in Handlers : handler[h].proposal \in Proposals
  BY <1>1 DEF HandlerLocals
<1>6. ASSUME NEW h \in Handlers, NEW r \in Proposals,
             StartConfirm(h, r) \/ StartReject(h, r) \/ AnswerFromRow(h, r)
      PROVE  UNCHANGED proposal
  BY <1>6 DEF StartConfirm, StartReject, Start, AnswerFromRow
<1>7. ASSUME NEW b \in Books, Initialise(b) PROVE UNCHANGED proposal
  BY <1>7 DEF Initialise
<1>8. ASSUME NEW w \in Writers, WebWrite(w) \/ \E c \in WebEdits : WebRead(w, c)
      PROVE  UNCHANGED proposal
  BY <1>8 DEF WebWrite, WebRead
<1>9. Next
  BY DEF vars
<1> QED
  BY <1>2, <1>3, <1>4, <1>5, <1>6, <1>7, <1>8, <1>9 DEF Next

\* The refinement mapping, named.
Shown(p) ==
  IF proposal[p].status \in {"PENDING", "PROCESSING"} THEN "OPEN" ELSE proposal[p].status

inboxBar == [p \in Proposals |-> Shown(p)]
bookedBar == {p \in Proposals : \E b \in Books : InJournal(p, b)}

\* Without legacy saves a proposal is booked exactly when it is RECORDED.
LEMMA BookedIsRecorded ==
  ASSUME LegacySaved = {}, RecordedWithJournal
  PROVE  bookedBar = {p \in Proposals : proposal[p].status = "RECORDED"}
<1>1. \A p \in Proposals : BookOf(p) \in Books
  BY TradeAssumption DEF BookOf
<1> QED
  BY <1>1, LinkedAll DEF bookedBar, Linked

LEMMA BookedIsRecordedNext ==
  ASSUME LegacySaved = {}, RecordedWithJournal'
  PROVE  bookedBar' = {p \in Proposals : proposal'[p].status = "RECORDED"}
<1>1. \A p \in Proposals : BookOf(p) \in Books
  BY TradeAssumption DEF BookOf
<1> QED
  BY <1>1 DEF bookedBar, InJournal, RecordedWithJournal, BookOf

LEMMA InboxInitial ==
  ASSUME LegacySaved = {}, Init
  PROVE  inboxBar = [p \in Proposals |-> "ABSENT"] /\ bookedBar = {}
<1>1. \A p \in Proposals : proposal[p].status = "ABSENT"
  BY DEF Init
<1>2. bookedBar = {}
  BY <1>1, LinkedInitial, BookedIsRecorded
<1> QED
  BY <1>1, <1>2 DEF inboxBar, Shown

\* Every step of the approval system is a step of the inbox or none.
LEMMA InboxStep ==
  ASSUME LegacySaved = {}, LinkInv, LinkInv', [Next]_vars
  PROVE  \/ UNCHANGED <<inboxBar, bookedBar>>
         \/ \E p \in Proposals :
              \/ /\ inboxBar[p] = "ABSENT"
                 /\ inboxBar' = [inboxBar EXCEPT ![p] = "OPEN"]
                 /\ UNCHANGED bookedBar
              \/ /\ inboxBar[p] = "OPEN"
                 /\ inboxBar' = [inboxBar EXCEPT ![p] = "RECORDED"]
                 /\ bookedBar' = bookedBar \cup {p}
              \/ /\ inboxBar[p] = "OPEN"
                 /\ inboxBar' = [inboxBar EXCEPT ![p] = "REJECTED"]
                 /\ UNCHANGED bookedBar
<1>1. /\ bookedBar = {p \in Proposals : proposal[p].status = "RECORDED"}
      /\ bookedBar' = {p \in Proposals : proposal'[p].status = "RECORDED"}
  BY BookedIsRecorded, BookedIsRecordedNext DEF LinkInv
<1>2. /\ inboxBar = [p \in Proposals |-> Shown(p)]
      /\ inboxBar' = [p \in Proposals |-> Shown(p)']
  BY DEF inboxBar
<1>3. \A p \in Proposals : proposal'[p].status = proposal[p].status => Shown(p)' = Shown(p)
  BY DEF Shown
<1>4. CASE \A p \in Proposals : proposal'[p].status = proposal[p].status
  BY <1>1, <1>2, <1>3, <1>4
<1>5. ASSUME NEW p \in Proposals, proposal'[p].status # proposal[p].status
      PROVE  \/ UNCHANGED <<inboxBar, bookedBar>>
             \/ /\ inboxBar[p] = "ABSENT"
                /\ inboxBar' = [inboxBar EXCEPT ![p] = "OPEN"]
                /\ UNCHANGED bookedBar
             \/ /\ inboxBar[p] = "OPEN"
                /\ inboxBar' = [inboxBar EXCEPT ![p] = "RECORDED"]
                /\ bookedBar' = bookedBar \cup {p}
             \/ /\ inboxBar[p] = "OPEN"
                /\ inboxBar' = [inboxBar EXCEPT ![p] = "REJECTED"]
                /\ UNCHANGED bookedBar
  <2>1. \A q \in Proposals \ {p} :
          proposal'[q].status = proposal[q].status /\ Shown(q)' = Shown(q)
    BY <1>3, <1>5, OneMoves DEF LinkInv, CopyInv
  <2>2. inboxBar' = [inboxBar EXCEPT ![p] = Shown(p)'] /\ inboxBar[p] = Shown(p)
    BY <1>2, <2>1
  <2>3. \/ proposal[p].status = "ABSENT" /\ proposal'[p].status = "PENDING"
        \/ proposal[p].status = "PENDING" /\ proposal'[p].status \in {"PROCESSING", "REJECTED"}
        \/ proposal[p].status = "PROCESSING" /\ proposal'[p].status \in {"PENDING", "RECORDED"}
    BY <1>5, StatusMoves DEF LinkInv, CopyInv
  <2>4. CASE proposal[p].status = "ABSENT" /\ proposal'[p].status = "PENDING"
    <3>1. Shown(p) = "ABSENT" /\ Shown(p)' = "OPEN"
      BY <2>4 DEF Shown
    <3> QED
      BY <1>1, <2>1, <2>2, <2>4, <3>1
  <2>5. CASE proposal[p].status = "PENDING" /\ proposal'[p].status = "REJECTED"
    <3>1. Shown(p) = "OPEN" /\ Shown(p)' = "REJECTED"
      BY <2>5 DEF Shown
    <3> QED
      BY <1>1, <2>1, <2>2, <2>5, <3>1
  <2>6. CASE proposal[p].status = "PROCESSING" /\ proposal'[p].status = "RECORDED"
    <3>1. Shown(p) = "OPEN" /\ Shown(p)' = "RECORDED"
      BY <2>6 DEF Shown
    <3> QED
      BY <1>1, <2>1, <2>2, <2>6, <3>1
  <2>7. CASE {proposal[p].status, proposal'[p].status} = {"PENDING", "PROCESSING"}
    <3>1. Shown(p) = "OPEN" /\ Shown(p)' = "OPEN"
      BY <2>7 DEF Shown
    <3>2. inboxBar' = inboxBar
      BY <1>2, <2>1, <3>1
    <3>3. bookedBar' = bookedBar
      BY <1>1, <2>1, <2>7
    <3> QED
      BY <3>2, <3>3
  <2> QED
    BY <2>3, <2>4, <2>5, <2>6, <2>7
<1> QED
  BY <1>4, <1>5

\* Claims, leases, races and crashes are invisible: what the owner sees is the
\* inbox that approves and books a trade in one step, at most once.
THEOREM ApprovalImplementsInbox ==
  ASSUME LegacySaved = {}
  PROVE  Spec => ImplementsInbox
<1>1. inboxBar = [p \in Proposals |->
        IF proposal[p].status \in {"PENDING", "PROCESSING"} THEN "OPEN" ELSE proposal[p].status]
  BY DEF inboxBar, Shown
<1>2. bookedBar = {p \in Proposals : \E b \in Books : p \in DOMAIN journal[b]}
  BY DEF bookedBar, InJournal
<1>3. Init => Inbox!Init
  BY <1>1, <1>2, InboxInitial DEF Inbox!Init
<1>4. LinkInv /\ LinkInv' /\ [Next]_vars => [Inbox!Next]_(Inbox!ivars)
  <2> SUFFICES ASSUME LinkInv, LinkInv', [Next]_vars
               PROVE  [Inbox!Next]_(Inbox!ivars)
    OBVIOUS
  <2>1. \/ UNCHANGED <<inboxBar, bookedBar>>
        \/ \E p \in Proposals :
             \/ /\ inboxBar[p] = "ABSENT"
                /\ inboxBar' = [inboxBar EXCEPT ![p] = "OPEN"]
                /\ UNCHANGED bookedBar
             \/ /\ inboxBar[p] = "OPEN"
                /\ inboxBar' = [inboxBar EXCEPT ![p] = "RECORDED"]
                /\ bookedBar' = bookedBar \cup {p}
             \/ /\ inboxBar[p] = "OPEN"
                /\ inboxBar' = [inboxBar EXCEPT ![p] = "REJECTED"]
                /\ UNCHANGED bookedBar
    BY InboxStep
  <2> QED
    BY <2>1 DEF Inbox!Next, Inbox!ivars, Inbox!Stage, Inbox!Approve, Inbox!Decline,
                inboxBar, bookedBar, Shown, InJournal
<1> QED
  BY <1>3, <1>4, LinkHolds, PTL DEF Spec, ImplementsInbox, Inbox!Spec
-----------------------------------------------------------------------------
(* A Notion page stands behind one execution.                              *)

OtherBooks(b) == {docs[o] : o \in Books \ {b}}

\* What the BEFORE trigger checks of one book, held for both at all times.
EvidenceInv == \A b \in Books : EvidenceFree(docs[b], OtherBooks(b))

\* The check reads nothing but the executions and the assignments.
LEMMA SamePages ==
  ASSUME NEW a, NEW d, a.executions = d.executions, a.assignments = d.assignments
  PROVE  /\ \A e : FillPages(a, e) = FillPages(d, e)
         /\ \A page : HasEvidence(a, page) <=> HasEvidence(d, page)
BY DEF FillPages, HasEvidence

LEMMA EvidenceStep ==
  ASSUME EvidenceInv, NEW b \in Books, NEW payload, Rewritten(b, payload), Storable(b, payload)
  PROVE  EvidenceInv'
<1> DEFINE new == docs'[b]
<1>1. new.executions = payload.executions /\ new.assignments = payload.assignments
  BY DEF Rewritten
<1>2. /\ \A e : FillPages(new, e) = FillPages(payload, e)
      /\ \A page : HasEvidence(new, page) <=> HasEvidence(payload, page)
  <2> HIDE DEF new
  <2> QED
    BY <1>1, SamePages
<1>3. \A o \in Books \ {b} : docs'[o] = docs[o]
  BY DEF Rewritten
<1>4. EvidenceFree(payload, OtherBooks(b))
  BY DEF Storable, OtherBooks
<1>5. \A o \in Books \ {b}, page \in Proposals :
        ~(HasEvidence(new, page) /\ HasEvidence(docs[o], page))
  <2> HIDE DEF new
  <2> QED
    BY <1>2, <1>4 DEF EvidenceFree, OtherBooks
<1>6. \A e, f \in new.executions : e.id # f.id => FillPages(new, e) \cap FillPages(new, f) = {}
  <2> HIDE DEF new
  <2> QED
    BY <1>1, <1>2, <1>4 DEF EvidenceFree
<1>7. ASSUME NEW o \in Books
      PROVE  EvidenceFree(docs'[o], {docs'[x] : x \in Books \ {o}})
  <2>1. CASE o = b
    <3>1. \A x \in Books \ {b}, page \in Proposals :
            ~(HasEvidence(new, page) /\ HasEvidence(docs'[x], page))
      BY <1>3, <1>5
    <3> HIDE DEF new
    <3> QED
      BY <1>6, <2>1, <3>1 DEF EvidenceFree, new
  <2>2. CASE o # b
    <3>1. EvidenceFree(docs[o], OtherBooks(o))
      BY DEF EvidenceInv
    <3>2. \A x \in Books \ {o}, page \in Proposals :
            ~(HasEvidence(docs'[o], page) /\ HasEvidence(docs'[x], page))
      <4>1. \A x \in Books \ {o}, page \in Proposals :
              ~(HasEvidence(docs[o], page) /\ HasEvidence(docs[x], page))
        BY <3>1 DEF EvidenceFree, OtherBooks
      <4> QED
        BY <1>3, <1>5, <2>2, <4>1
    <3>3. \A e, f \in docs'[o].executions :
            e.id # f.id => FillPages(docs'[o], e) \cap FillPages(docs'[o], f) = {}
      BY <1>3, <2>2, <3>1 DEF EvidenceFree
    <3> QED
      BY <3>2, <3>3 DEF EvidenceFree
  <2> QED
    BY <2>1, <2>2
<1> QED
  BY <1>7 DEF EvidenceInv, OtherBooks

LEMMA EvidenceHolds == Spec => []EvidenceInv
<1>1. Init => EvidenceInv
  BY DEF Init, Storable, EvidenceInv, OtherBooks
<1>2. CopyInv /\ EvidenceInv /\ [Next]_vars => EvidenceInv'
  <2> SUFFICES ASSUME CopyInv, EvidenceInv, [Next]_vars PROVE EvidenceInv'
    OBVIOUS
  <2>1. CASE UNCHANGED docs
    BY <2>1 DEF EvidenceInv, OtherBooks
  <2>2. ASSUME NEW h \in Handlers, Approves(h) PROVE EvidenceInv'
    <3>1. Storable(BookOf(handler[h].proposal), Approved(h))
      BY <2>2 DEF Approves, UpdateAccepted
    <3> QED
      BY <2>2, <3>1, ApprovedOnBook, EvidenceStep
  <2>3. ASSUME NEW w \in Writers, Saves(w) PROVE EvidenceInv'
    <3>1. Storable(writer[w].edit.book, Edited(writer[w].row, writer[w].edit))
      BY <2>3 DEF Saves, UpdateAccepted
    <3> QED
      BY <2>3, <3>1, SavedOnBook, EvidenceStep
  <2>4. ASSUME NEW b \in Books, Opens(b) PROVE EvidenceInv'
    BY <2>4, EvidenceStep DEF Opens
  <2> QED
    BY <2>1, <2>2, <2>3, <2>4, StepKinds DEF CopyInv, vars
<1> QED
  BY <1>1, <1>2, CopyHolds, PTL DEF Spec

\* One Notion page never stands behind two executions, in one book or across
\* the two currencies, whichever page or approval links it.
THEOREM EvidenceUsedOnce == Spec => []OnePageOneExecution
<1>1. BaseInv /\ EvidenceInv => OnePageOneExecution
  <2> SUFFICES ASSUME BaseInv, EvidenceInv, NEW b \in Books, NEW o \in Books,
                      NEW e \in docs[b].executions, NEW f \in docs[o].executions,
                      NEW page \in FillPages(docs[b], e) \cap FillPages(docs[o], f)
               PROVE  b = o /\ e = f
    BY DEF OnePageOneExecution
  <2>1. docs[b] \in Document /\ EvidenceFree(docs[b], OtherBooks(b))
    BY DEF BaseInv, TypeOK, EvidenceInv
  <2>2. page \in Proposals
    BY <2>1 DEF FillPages, Document, DocumentFields, Fill, Assignment
  <2>3. HasEvidence(docs[b], page) /\ HasEvidence(docs[o], page)
    BY DEF HasEvidence
  <2>4. b = o
    BY <2>1, <2>2, <2>3 DEF EvidenceFree, OtherBooks
  <2>5. e.id = f.id
    BY <2>1, <2>4 DEF EvidenceFree
  <2> QED
    BY <2>4, <2>5 DEF BaseInv, BooksMirrored, Mirrored
<1> QED
  BY <1>1, BaseHolds, EvidenceHolds, PTL

-----------------------------------------------------------------------------
(* Answers.                                                                *)

\* What one request has told its owner, or is about to tell, is so.
TellsTruth(l, status) ==
  /\ l.reply \in {"RECORDED", "REJECTED"} => status = l.reply
  /\ l.pc = "readback" => status = "RECORDED"

\* AnswersAreTrue is not inductive: between its commit and its answer a
\* request has to find its proposal recorded still.
TruthInv == \A h \in Handlers : TellsTruth(handler[h], proposal[handler[h].proposal].status)

\* A step of g itself leaves it without a promise or with one that is kept.
LEMMA RepliesMove ==
  ASSUME BaseInv, TruthInv, [Next]_vars, NEW g \in Handlers
  PROVE  \/ handler'[g] = handler[g]
         \/ TellsTruth(handler'[g], proposal'[handler'[g].proposal].status)
<1> DEFINE Kept == handler'[g] = handler[g]
           Silent(l) == l.reply \notin {"RECORDED", "REJECTED"} /\ l.pc # "readback"
           Goal == Kept \/ TellsTruth(handler'[g], proposal'[handler'[g].proposal].status)
<1>1. handler \in [Handlers -> HandlerLocals] /\ proposal \in [Proposals -> ProposalRecord]
  BY DEF BaseInv, TypeOK, ProposalRecord
<1>2. ASSUME NEW h \in Handlers, NEW l, handler' = [handler EXCEPT ![h] = l], Silent(l)
      PROVE  Goal
  BY <1>1, <1>2 DEF TellsTruth
<1>3. \A p, reply : /\ Answered(p, reply).pc = "idle" /\ Answered(p, reply).reply = reply
                    /\ Answered(p, reply).proposal = p
  BY DEF Answered
<1>4. ASSUME NEW h \in Handlers, NEW reply, Answer(h, reply)
      PROVE  Kept \/ (g = h /\ handler'[g] = Answered(handler[g].proposal, reply))
  <2>1. handler' = [handler EXCEPT ![h] = Answered(handler[h].proposal, reply)]
    BY <1>4 DEF Answer
  <2> QED
    BY <1>1, <2>1
<1>5. ASSUME NEW h \in Handlers, NEW pc, GoTo(h, pc)
      PROVE  Kept \/ (/\ g = h /\ handler'[g].pc = pc /\ handler'[g].reply = handler[g].reply
                      /\ handler'[g].proposal = handler[g].proposal)
  <2> DEFINE l == [handler[h] EXCEPT !.pc = pc]
  <2>1. handler' = [handler EXCEPT ![h] = l]
    BY <1>5 DEF GoTo
  <2>2. l.pc = pc /\ l.reply = handler[h].reply /\ l.proposal = handler[h].proposal
    BY <1>1 DEF HandlerLocals
  <2> HIDE DEF l
  <2> QED
    BY <1>1, <2>1, <2>2
<1>6. ASSUME NEW h \in Handlers, NEW reply, Answer(h, reply), reply \in {"none", "REFUSED", "FAILED"}
      PROVE  Goal
  BY <1>3, <1>4, <1>6 DEF TellsTruth
<1>7. ASSUME NEW p \in Proposals, Propose(p) \/ LeaseEnds(p) \/ LeaseOutrun(p)
      PROVE  Goal
  BY <1>7 DEF Propose, LeaseEnds, LeaseOutrun
<1>8. ASSUME NEW h \in Handlers, NEW p \in Proposals, StartConfirm(h, p) \/ StartReject(h, p)
      PROVE  Goal
  <2>1. PICK pc \in {"claim", "reject"} :
          handler' = [handler EXCEPT ![h] = [Answered(p, "none") EXCEPT !.pc = pc]]
    BY <1>8 DEF StartConfirm, StartReject, Start
  <2>2. Silent([Answered(p, "none") EXCEPT !.pc = pc])
    BY DEF Answered
  <2> HIDE DEF Silent, Goal
  <2> QED
    BY <1>2, <2>1, <2>2
<1>9. ASSUME NEW h \in Handlers, NEW p \in Proposals, AnswerFromRow(h, p)
      PROVE  Goal
  <2>1. /\ proposal' = proposal
        /\ \E reply \in {"RECORDED", "REFUSED"} :
             /\ handler' = [handler EXCEPT ![h] = Answered(p, reply)]
             /\ reply = "RECORDED" => proposal[p].status = "RECORDED"
    BY <1>9 DEF AnswerFromRow
  <2> QED
    BY <1>1, <1>3, <2>1 DEF TellsTruth
<1>10. ASSUME NEW h \in Handlers, ReadTarget(h) \/ ReadOther(h)
       PROVE  Goal
  <2> DEFINE l == handler[h]
             verdict == TargetVerdict(docs[BookOf(l.proposal)], l.proposal)
             d == Decided(l, verdict, l.other)
             e == [d EXCEPT !.expected = docs[BookOf(l.proposal)].revision]
             taken == \E o \in Books \ {BookOf(l.proposal)} : HasEvidence(docs[o], l.proposal)
             f == Decided(l, l.target, IF taken THEN "taken" ELSE "clear")
  <2>1. l \in HandlerLocals /\ UNCHANGED proposal /\ l.pc = "read"
    BY <1>1, <1>10 DEF ReadTarget, ReadOther
  <2>2. l.reply \in Replies /\ TellsTruth(l, proposal[l.proposal].status)
    BY <2>1 DEF HandlerLocals, TruthInv, Replies
  <2>3. \A target, other :
          /\ Decided(l, target, other).reply = l.reply
          /\ Decided(l, target, other).proposal = l.proposal
          /\ DOMAIN Decided(l, target, other) = DOMAIN l
          /\ target # "readback" => Decided(l, target, other).pc # "readback"
    <3> HIDE DEF l
    <3> QED
      BY <2>1 DEF Decided, HandlerLocals
  <2>4. verdict # "readback"
    <3>1. docs[BookOf(l.proposal)].revision \in Nat
      BY <2>1, TradeAssumption DEF BaseInv, TypeOK, Document, DocumentFields, HandlerLocals, BookOf
    <3> QED
      BY <3>1 DEF TargetVerdict
  <2>5. l.target # "readback" /\ {"reply", "proposal", "pc", "expected"} \subseteq DOMAIN l
    BY <2>1 DEF HandlerLocals
  <2>6. e.reply = l.reply /\ e.proposal = l.proposal /\ e.pc # "readback"
    <3>1. d.reply = l.reply /\ d.proposal = l.proposal /\ d.pc # "readback"
          /\ {"reply", "proposal", "pc", "expected"} \subseteq DOMAIN d
      <4> HIDE DEF l, verdict
      <4> QED
        BY <2>3, <2>4, <2>5
    <3> HIDE DEF d
    <3> QED
      BY <3>1
  <2>7. f.reply = l.reply /\ f.proposal = l.proposal /\ f.pc # "readback"
    <3> HIDE DEF l, taken
    <3> QED
      BY <2>3, <2>5
  <2>8. handler' = [handler EXCEPT ![h] = e] \/ handler' = [handler EXCEPT ![h] = f]
    BY <1>10 DEF ReadTarget, ReadOther
  <2>9. g = h => (handler'[g] = e \/ handler'[g] = f)
    <3> HIDE DEF e, f
    <3> QED
      BY <1>1, <2>8
  <2>10. g # h => Kept
    <3> HIDE DEF e, f
    <3> QED
      BY <1>1, <2>8
  <2> HIDE DEF e, f
  <2> QED
    BY <2>1, <2>2, <2>6, <2>7, <2>9, <2>10 DEF TellsTruth
<1>11. ASSUME NEW h \in Handlers, SaveRead(h) PROVE Goal
  <2> DEFINE doc == docs[BookOf(handler[h].proposal)]
             l == [handler[h] EXCEPT !.pc = "commit", !.row = doc]
  <2>1. \/ GoTo(h, "record")
        \/ Answer(h, "FAILED")
        \/ handler' = [handler EXCEPT ![h] = l]
    BY <1>11 DEF SaveRead
  <2>2. l.reply = handler[h].reply /\ l.proposal = handler[h].proposal /\ l.pc = "commit"
    <3> HIDE DEF doc
    <3> QED
      BY <1>1 DEF HandlerLocals
  <2>3. UNCHANGED proposal /\ TellsTruth(handler[h], proposal[handler[h].proposal].status)
    BY <1>11 DEF SaveRead, TruthInv
  <2>4. CASE handler' = [handler EXCEPT ![h] = l]
    <3> HIDE DEF l
    <3> QED
      BY <1>1, <2>2, <2>3, <2>4 DEF TellsTruth
  <2> QED
    BY <1>5, <1>6, <2>1, <2>3, <2>4 DEF TellsTruth
<1>12. ASSUME NEW h \in Handlers, Claim(h) PROVE Goal
  <2>1. CASE Answer(h, "REFUSED")
    BY <1>6, <2>1
  <2>2. CASE /\ GoTo(h, "read") /\ proposal[handler[h].proposal].status \in {"PENDING", "PROCESSING"}
    <3>1. handler[h].reply \notin {"RECORDED", "REJECTED"}
      BY <2>2 DEF TruthInv, TellsTruth
    <3> QED
      BY <1>5, <2>2, <3>1 DEF TellsTruth
  <2> QED
    BY <1>12, <2>1, <2>2 DEF Claim
<1>13. ASSUME NEW h \in Handlers, Reject(h) PROVE Goal
  <2> DEFINE p == handler[h].proposal
  <2>1. CASE Answer(h, "REFUSED")
    BY <1>6, <2>1
  <2>2. CASE Answer(h, "REJECTED") /\ proposal' = Finish(p, "REJECTED")
    <3>1. p \in Proposals
      BY <1>1 DEF HandlerLocals
    <3>2. proposal'[p].status = "REJECTED"
      BY <1>1, <2>2, <3>1 DEF Finish
    <3> QED
      BY <1>3, <1>4, <2>2, <3>2 DEF TellsTruth
  <2> QED
    BY <1>13, <2>1, <2>2 DEF Reject
<1>14. ASSUME NEW h \in Handlers, Record(h) PROVE Goal
  <2> DEFINE p == handler[h].proposal
  <2>1. CASE Answer(h, "FAILED")
    BY <1>6, <2>1
  <2>2. CASE Answer(h, "RECORDED") /\ proposal' = Finish(p, "RECORDED")
    <3>1. p \in Proposals
      BY <1>1 DEF HandlerLocals
    <3>2. proposal'[p].status = "RECORDED"
      BY <1>1, <2>2, <3>1 DEF Finish
    <3> QED
      BY <1>3, <1>4, <2>2, <3>2 DEF TellsTruth
  <2> QED
    BY <1>14, <2>1, <2>2 DEF Record
<1>15. ASSUME NEW h \in Handlers, Commit(h) PROVE Goal
  <2> DEFINE p == handler[h].proposal
  <2>1. CASE Answer(h, "FAILED")
    BY <1>6, <2>1
  <2>2. CASE GoTo(h, "readback") /\ proposal' = Finish(p, "RECORDED") /\ proposal[p].status = "PROCESSING"
    <3>1. p \in Proposals
      BY <1>1 DEF HandlerLocals
    <3>2. proposal'[p].status = "RECORDED"
      BY <1>1, <2>2, <3>1 DEF Finish
    <3>3. handler[h].reply \notin {"RECORDED", "REJECTED"}
      BY <2>2 DEF TruthInv, TellsTruth
    <3> QED
      BY <1>5, <2>2, <3>2, <3>3 DEF TellsTruth
  <2> QED
    BY <1>15, <2>1, <2>2 DEF Commit, RecordAccepts
<1>16. ASSUME NEW h \in Handlers, ReadBack(h) PROVE Goal
  <2>1. UNCHANGED proposal /\ proposal[handler[h].proposal].status = "RECORDED"
    BY <1>16 DEF ReadBack, TruthInv, TellsTruth
  <2>2. Answer(h, "FAILED") \/ Answer(h, "RECORDED")
    BY <1>16 DEF ReadBack
  <2>3. CASE Answer(h, "RECORDED")
    BY <1>3, <1>4, <2>1, <2>3 DEF TellsTruth
  <2> QED
    BY <1>6, <2>2, <2>3
<1>17. ASSUME NEW h \in Handlers, ReleaseClaim(h) \/ Crash(h) PROVE Goal
  BY <1>6, <1>17 DEF ReleaseClaim, Crash
<1>18. ASSUME UNCHANGED handler PROVE Goal
  BY <1>18
<1>19. ASSUME NEW b \in Books, Initialise(b) PROVE UNCHANGED handler
  BY <1>19 DEF Initialise
<1>20. ASSUME NEW w \in Writers, WebWrite(w) \/ \E c \in WebEdits : WebRead(w, c)
       PROVE  UNCHANGED handler
  BY <1>20 DEF WebWrite, WebRead
<1> HIDE DEF Goal
<1>21. Goal
  BY <1>7, <1>8, <1>9, <1>10, <1>11, <1>12, <1>13, <1>14, <1>15, <1>16, <1>17, <1>18, <1>19, <1>20
     DEF Next, HandlerStep, vars
<1> QED
  BY <1>21 DEF Goal

LEMMA TruthInductive == BaseInv /\ TruthInv /\ [Next]_vars => TruthInv'
<1> SUFFICES ASSUME BaseInv, TruthInv, [Next]_vars, NEW g \in Handlers
             PROVE  TellsTruth(handler'[g], proposal'[handler'[g].proposal].status)
  BY DEF TruthInv
<1>1. CASE handler'[g] = handler[g]
  <2>1. handler[g].proposal \in Proposals
    BY DEF BaseInv, TypeOK, HandlerLocals
  <2>2. TellsTruth(handler[g], proposal[handler[g].proposal].status)
    BY DEF TruthInv
  <2>3. proposal[handler[g].proposal].status \in {"RECORDED", "REJECTED"} =>
          proposal'[handler[g].proposal].status = proposal[handler[g].proposal].status
    BY <2>1, StatusMoves
  <2> QED
    BY <1>1, <2>2, <2>3 DEF TellsTruth
<1> QED
  BY <1>1, RepliesMove

\* An owner who is told RECORDED or REJECTED is told the truth, and it stays so.
THEOREM AnswersAreSo == Spec => []AnswersAreTrue
<1>1. Init => TruthInv
  BY DEF Init, TruthInv, TellsTruth, Answered
<1>2. TruthInv => AnswersAreTrue
  BY DEF TruthInv, TellsTruth, AnswersAreTrue
<1> QED
  BY <1>1, <1>2, BaseInitial, BaseInductive, TruthInductive, PTL DEF Spec

-----------------------------------------------------------------------------
(* The new slice.                                                          *)

\* The older ledger pages change executions under the new slice; without them,
\* and from books whose slice projects, it stays projectable.
NewPageOnly ==
  /\ \A c \in WebEdits : c.kind \in NewPageKinds \cup {"refresh"}
  /\ \A b \in Books : Projects(InitialDocument(b))

\* A request is committed only with a fill that projects in its copy.
SliceInv ==
  /\ NewSliceProjects
  /\ \A h \in Handlers : handler[h].pc = "commit" => Projects(Approved(h))

\* Only executions and assignments decide whether the slice projects.
LEMMA SliceOf ==
  ASSUME NEW doc, NEW other, doc.executions = other.executions,
         doc.assignments = other.assignments, Projects(other)
  PROVE  Projects(doc)
<1>1. FillIds(doc) = FillIds(other) /\ Assigned(doc) = Assigned(other)
  BY DEF FillIds, Assigned
<1> QED
  BY <1>1 DEF Projects

LEMMA EmptySlice == Projects(NoDocument)
  BY DEF Projects, NoDocument, Assigned

\* What a website save writes projects.
LEMMA SavedProjects ==
  ASSUME NewPageOnly, CopyInv, NewSliceProjects, NEW w \in Writers, Saves(w)
  PROVE  Projects(Edited(writer[w].row, writer[w].edit))
<1> DEFINE c == writer[w].edit
           row == writer[w].row
<1>1. writer[w].pc = "write" /\ UpdateAccepted(c.book, row, Edited(row, c))
  BY DEF Saves
<1>2. c \in WebEdits /\ row \in Document /\ Accepts(row, c)
  <2>1. writer[w] \in WriterLocals
    BY DEF CopyInv, BaseInv, TypeOK
  <2> QED
    BY <1>1, <2>1 DEF CopyInv, BaseInv, WritersAccepted, WriterLocals
<1>3. CASE c.kind \in NewPageKinds
  BY <1>2, <1>3 DEF Accepts
<1>4. CASE c.kind \notin NewPageKinds
  <2>1. c.kind = "refresh" /\ c.book \in Books
    BY <1>2, <1>4, ApprovalAssumption DEF NewPageOnly, Edit
  <2>2. Edited(row, c) = row
    BY <2>1 DEF Edited
  <2>3. row = docs[c.book]
    BY <1>1, <2>2 DEF CopyInv, RevisionNamesContent, UpdateAccepted
  <2> QED
    BY <2>1, <2>2, <2>3 DEF NewSliceProjects
<1> QED
  BY <1>3, <1>4

LEMMA SliceInductive ==
  ASSUME NewPageOnly, CopyInv, SliceInv, [Next]_vars
  PROVE  SliceInv'
<1>1. NewSliceProjects'
  <2> SUFFICES ASSUME NEW o \in Books PROVE Projects(docs'[o])
    BY DEF NewSliceProjects
  <2>1. Projects(docs[o])
    BY DEF SliceInv, NewSliceProjects
  <2>2. ASSUME NEW b \in Books, NEW payload, Rewritten(b, payload), Projects(payload)
        PROVE  Projects(docs'[o])
    <3>1. CASE o = b
      <4>1. docs'[b].executions = payload.executions /\ docs'[b].assignments = payload.assignments
        BY <2>2 DEF Rewritten
      <4> QED
        BY <2>2, <3>1, <4>1, SliceOf
    <3>2. CASE o # b
      BY <2>1, <2>2, <3>2 DEF Rewritten
    <3> QED
      BY <3>1, <3>2
  <2>3. ASSUME NEW h \in Handlers, Approves(h) PROVE Projects(docs'[o])
    <3>1. BookOf(handler[h].proposal) \in Books /\ Rewritten(BookOf(handler[h].proposal), Approved(h))
      BY <2>3, ApprovedOnBook
    <3>2. Projects(Approved(h))
      BY <2>3 DEF Approves, SliceInv
    <3> QED
      BY <2>2, <3>1, <3>2
  <2>4. ASSUME NEW w \in Writers, Saves(w) PROVE Projects(docs'[o])
    <3>1. writer[w].edit.book \in Books
          /\ Rewritten(writer[w].edit.book, Edited(writer[w].row, writer[w].edit))
      BY <2>4, SavedOnBook
    <3>2. Projects(Edited(writer[w].row, writer[w].edit))
      BY <2>4, SavedProjects DEF SliceInv
    <3> QED
      BY <2>2, <3>1, <3>2
  <2>5. ASSUME NEW b \in Books, Opens(b) PROVE Projects(docs'[o])
    BY <2>2, <2>5 DEF Opens, NewPageOnly
  <2>6. CASE UNCHANGED <<docs, journal>>
    BY <2>1, <2>6
  <2>7. CASE ~UNCHANGED <<docs, journal>>
    <3>1. Next
      BY <2>7 DEF vars
    <3> QED
      BY <2>3, <2>4, <2>5, <2>7, <3>1, StepKinds DEF CopyInv
  <2> QED
    BY <2>6, <2>7
<1>2. ASSUME NEW g \in Handlers, handler'[g].pc = "commit"
      PROVE  Projects(ApprovedDocument(handler'[g].row, handler'[g].proposal))
  BY <1>2, HandlerCopies DEF CopyInv, SliceInv, Approved
<1> QED
  BY <1>1, <1>2 DEF SliceInv, Approved

\* Without writes of the older pages, the new slice of every book can always
\* be projected, whatever approvals, corrections and cancellations race.
THEOREM NewSliceStaysWhole ==
  ASSUME NewPageOnly
  PROVE  Spec => []NewSliceProjects
<1>1. Init => SliceInv
  <2> SUFFICES ASSUME Init PROVE SliceInv
    OBVIOUS
  <2>1. NewSliceProjects
    BY EmptySlice DEF Init, NewSliceProjects, NewPageOnly
  <2>2. \A h \in Handlers : handler[h].pc # "commit"
    BY DEF Init, Answered
  <2> QED
    BY <2>1, <2>2 DEF SliceInv
<1>2. CopyInv /\ SliceInv /\ [Next]_vars => SliceInv'
  BY SliceInductive
<1>3. SliceInv => NewSliceProjects
  BY DEF SliceInv
<1> QED
  BY <1>1, <1>2, <1>3, CopyHolds, PTL DEF Spec
=============================================================================
