------------------------- MODULE IntegratedAllocation -------------------------
(***************************************************************************)
(* The two integrated allocation books (integratedAllocationReplay,        *)
(* -Recovery and -Store.server.ts): the prepared evidence of a market day  *)
(* is put in storage once and for all, or kept in an outbox when storage   *)
(* does not answer; a replay reads what there is, restores what only the   *)
(* outbox has, and appends day after day to one book and then the other.   *)
(*                                                                         *)
(* An evidence is a value; two values for a slot are two analyses of it.   *)
(* What a day does to a book is in AllocationBook; here a session is the   *)
(* evidence it was computed from, which with the sessions before it is all *)
(* that its hash depends on.  Clocks are left out: every prepared evidence *)
(* may be decided on; so are the audit rows of the other attempts.  Any    *)
(* call may fail or its run die, an upload may arrive after its client     *)
(* gave up, and an outbox insert commits or does not before it is read     *)
(* back.                                                                   *)
(***************************************************************************)
EXTENDS Naturals, Sequences, FiniteSets

CONSTANTS
  AllocationRuns,
  MarketsDue,        \* the evidence due on every day of the two calendars
  EvidenceOf,        \* [{"KR", "US"} -> what may be prepared for a day]
  NoEvidence,
  MaxAllocationStarts \* bound: calls of the staging and of the replay

AllocationDays == 1 .. Len(MarketsDue)
EvidenceSlots == {s \in {"KR", "US"} \X AllocationDays : s[1] \in MarketsDue[s[2]]}
Evidence == EvidenceOf["KR"] \cup EvidenceOf["US"]

ASSUME IntegratedAssumption ==
  /\ MarketsDue \in Seq((SUBSET {"KR", "US"}) \ {{}})
  /\ NoEvidence \notin Evidence /\ "unread" \notin Evidence
  /\ MaxAllocationStarts \in Nat

VARIABLES
  stored,        \* [EvidenceSlots -> the evidence in storage]
  outbox,        \* [EvidenceSlots -> the evidence in its outbox rows]
  uploads,       \* uploads whose client gave up
  registered, sessions, \* the two books: registry and sessions
  attempts,      \* PUBLICATION_ATTEMPT rows
  accepted,      \* history: staging calls that returned
  run,           \* [AllocationRuns -> staging or replay call]
  allocationStarts

allocationVars == <<stored, outbox, uploads, registered, sessions, attempts, accepted, run,
                    allocationStarts>>

Kinds == <<"O1", "S07">>
AllocationBooks == {"O1", "S07"}

Resting == [pc |-> "idle", slot |-> <<>>, evidence |-> NoEvidence, through |-> 0, book |-> 0,
            day |-> 0, head |-> <<>>, read |-> [s \in EvidenceSlots |-> "unread"]]
Replaying(r) == run[r].book > 0
BookIn(r) == Kinds[run[r].book]
InStep(r, pc) == run[r].pc = pc
Go(r, pc) == run' = [run EXCEPT ![r].pc = pc]
Return(r) == run' = [run EXCEPT ![r] = Resting]

\* Some evidence and some registries are there already.
AllocationInit ==
  /\ stored \in [EvidenceSlots -> Evidence \cup {NoEvidence}]
  /\ \A s \in EvidenceSlots : stored[s] \in EvidenceOf[s[1]] \cup {NoEvidence}
  /\ outbox = [s \in EvidenceSlots |-> {}] /\ uploads = {}
  /\ registered \in SUBSET AllocationBooks /\ sessions = [b \in AllocationBooks |-> <<>>]
  /\ attempts = {} /\ accepted = {}
  /\ run = [r \in AllocationRuns |-> Resting] /\ allocationStarts = 0

-----------------------------------------------------------------------------
(* put: insert once and read back, for a staging call and for a restore.   *)

Stage(r, s, e) ==
  /\ InStep(r, "idle") /\ allocationStarts < MaxAllocationStarts
  /\ allocationStarts' = allocationStarts + 1
  /\ run' = [run EXCEPT ![r] = [Resting EXCEPT !.pc = "put", !.slot = s, !.evidence = e]]
  /\ UNCHANGED <<stored, outbox, uploads, registered, sessions, attempts, accepted>>

\* The evidence of the slot is the one to put: the staging call returns, a
\* replay goes on with it.
Settled(r) ==
  IF Replaying(r)
  THEN /\ run' = [run EXCEPT ![r].pc = "inputs", ![r].read[run[r].slot] = run[r].evidence]
       /\ UNCHANGED accepted
  ELSE /\ Return(r)
       /\ accepted' = accepted \cup {[slot |-> run[r].slot, evidence |-> run[r].evidence]}

\* IntegratedEvidenceStorageError: only a staging call has the outbox left.
NotStored(r) ==
  /\ IF Replaying(r) THEN Return(r) ELSE Go(r, "keep")
  /\ UNCHANGED accepted

\* A read before the upload and one after it; either may fail.
Compare(r, pc) ==
  /\ InStep(r, pc)
  /\ LET there == stored[run[r].slot] IN
     \/ NotStored(r)
     \/ there = NoEvidence /\ pc = "put" /\ Go(r, "upload") /\ UNCHANGED accepted
     \/ there = run[r].evidence /\ Settled(r)
     \/ there \notin {NoEvidence, run[r].evidence} /\ Return(r) /\ UNCHANGED accepted
  /\ UNCHANGED <<stored, outbox, uploads, registered, sessions, attempts, allocationStarts>>

WithStored(s, e) == [stored EXCEPT ![s] = IF @ = NoEvidence THEN e ELSE @]

\* The upload never overwrites.  It is done, lost or late.
Upload(r) ==
  /\ InStep(r, "upload")
  /\ \/ stored' = WithStored(run[r].slot, run[r].evidence) /\ UNCHANGED uploads
     \/ UNCHANGED <<stored, uploads>>
     \/ /\ uploads' = uploads \cup {[slot |-> run[r].slot, evidence |-> run[r].evidence]}
        /\ UNCHANGED stored
  /\ Go(r, "check")
  /\ UNCHANGED <<outbox, registered, sessions, attempts, accepted, allocationStarts>>

Arrive(u) ==
  /\ u \in uploads
  /\ uploads' = uploads \ {u} /\ stored' = WithStored(u.slot, u.evidence)
  /\ UNCHANGED <<outbox, registered, sessions, attempts, accepted, run, allocationStarts>>

-----------------------------------------------------------------------------
(* storeIntegratedAllocationOutbox: read, insert, read back.               *)

KeepInOutbox(r) ==
  /\ InStep(r, "keep")
  /\ LET kept == outbox[run[r].slot] IN
     \/ kept = {} /\ Go(r, "insert") /\ UNCHANGED accepted
     \/ kept = {run[r].evidence} /\ Settled(r)
     \/ kept \notin {{}, {run[r].evidence}} /\ Return(r) /\ UNCHANGED accepted
  /\ UNCHANGED <<stored, outbox, uploads, registered, sessions, attempts, allocationStarts>>

InsertOutbox(r) ==
  /\ InStep(r, "insert") /\ Go(r, "kept")
  /\ \/ outbox' = [outbox EXCEPT ![run[r].slot] = @ \cup {run[r].evidence}]
     \/ UNCHANGED outbox
  /\ UNCHANGED <<stored, uploads, registered, sessions, attempts, accepted, allocationStarts>>

Kept(r) ==
  /\ InStep(r, "kept")
  /\ IF outbox[run[r].slot] = {run[r].evidence} THEN Settled(r) ELSE Return(r) /\ UNCHANGED accepted
  /\ UNCHANGED <<stored, outbox, uploads, registered, sessions, attempts, allocationStarts>>

-----------------------------------------------------------------------------
(* replayIntegratedAllocationAvailable.                                    *)

Replay(r, through) ==
  /\ InStep(r, "idle") /\ allocationStarts < MaxAllocationStarts
  /\ allocationStarts' = allocationStarts + 1
  /\ run' = [run EXCEPT ![r] = [Resting EXCEPT !.pc = "open", !.book = 1, !.through = through]]
  /\ UNCHANGED <<stored, outbox, uploads, registered, sessions, attempts, accepted>>

\* The second book keeps what was read for the first.
NextBook(r) ==
  IF run[r].book = Len(Kinds) THEN Return(r)
  ELSE run' = [run EXCEPT ![r].pc = "open", ![r].book = @ + 1]

GoOn(r, head, day) ==
  IF day <= run[r].through
  THEN run' = [run EXCEPT ![r].pc = "inputs", ![r].head = head, ![r].day = day]
  ELSE NextBook(r)

\* A book that was not initialized waits.
OpenBook(r) ==
  /\ InStep(r, "open")
  /\ IF BookIn(r) \in registered
     THEN GoOn(r, sessions[BookIn(r)], Len(sessions[BookIn(r)]) + 1) ELSE NextBook(r)
  /\ UNCHANGED <<stored, outbox, uploads, registered, sessions, attempts, accepted,
                 allocationStarts>>

DueOf(day) == MarketsDue[day] \X {day}
\* What a day needs besides its own evidence: every recorded KR day, and the
\* recorded US day before.
PriorOf(day) ==
  {s \in EvidenceSlots : /\ s[2] < day
                 /\ s[1] = "US" => \A e \in s[2] + 1 .. day - 1 : "US" \notin MarketsDue[e]}

UnreadOf(r, slots) == {s \in slots : run[r].read[s] = "unread"}
LacksEvidence(r, slots) == \E s \in slots : run[r].read[s] = NoEvidence
Needed(r) ==
  IF UnreadOf(r, DueOf(run[r].day)) # {} THEN UnreadOf(r, DueOf(run[r].day))
  ELSE IF LacksEvidence(r, DueOf(run[r].day)) THEN {} ELSE UnreadOf(r, PriorOf(run[r].day))
\* KR before US, day by day.
FirstOf(slots) ==
  CHOOSE s \in slots : \A t \in slots : (s[1] = t[1] /\ s[2] <= t[2]) \/ (s[1] = "KR" /\ t[1] = "US")

\* readOrRestore: storage first, then the outbox.
ReadStored(r) ==
  /\ InStep(r, "inputs") /\ Needed(r) # {}
  /\ LET s == FirstOf(Needed(r)) IN
     IF stored[s] # NoEvidence THEN run' = [run EXCEPT ![r].read[s] = stored[s]]
     ELSE run' = [run EXCEPT ![r].pc = "retained", ![r].slot = s]
  /\ UNCHANGED <<stored, outbox, uploads, registered, sessions, attempts, accepted,
                 allocationStarts>>

\* Mutant: what the outbox has is used without being put back.
UseRetained(r, e) ==
  run' = [run EXCEPT ![r].pc = "inputs", ![r].read[run[r].slot] = e]

Restore(r, e) == run' = [run EXCEPT ![r].pc = "put", ![r].evidence = e]

\* "Conflicting versions never win by recency."
ReadRetained(r) ==
  /\ InStep(r, "retained")
  /\ LET kept == outbox[run[r].slot] IN
     \/ kept = {} /\ run' = [run EXCEPT ![r].pc = "inputs", ![r].read[run[r].slot] = NoEvidence]
     \/ \E e \in kept : kept = {e} /\ Restore(r, e)
     \/ Cardinality(kept) > 1 /\ Return(r)
  /\ UNCHANGED <<stored, outbox, uploads, registered, sessions, attempts, accepted,
                 allocationStarts>>

WaitForEvidence(r) ==
  /\ InStep(r, "inputs") /\ LacksEvidence(r, DueOf(run[r].day)) /\ Needed(r) = {}
  /\ NextBook(r)
  /\ UNCHANGED <<stored, outbox, uploads, registered, sessions, attempts, accepted,
                 allocationStarts>>

\* The day before in the US says nothing to a day that is closed there.
Required(day) == {s \in PriorOf(day) : s[1] = "KR" \/ "US" \in MarketsDue[day]}
UsedOn(day) == DueOf(day) \cup {s \in PriorOf(day) : s[1] \in MarketsDue[day]}
Publication(r) == [s \in UsedOn(run[r].day) |-> run[r].read[s]]

\* prepareIntegratedDailyPublication takes the exact next day of a complete
\* prefix; the attempt is written and read back before the append.
Prepare(r) ==
  /\ InStep(r, "inputs") /\ Needed(r) = {} /\ ~LacksEvidence(r, DueOf(run[r].day))
  /\ IF Len(run[r].head) + 1 = run[r].day /\ ~LacksEvidence(r, Required(run[r].day))
     THEN /\ Go(r, "append")
          /\ attempts' = attempts \cup {<<BookIn(r), run[r].day, Publication(r)>>}
     ELSE Return(r) /\ UNCHANGED attempts
  /\ UNCHANGED <<stored, outbox, uploads, registered, sessions, accepted, allocationStarts>>

\* ledger_append_model_session, under its lock: the same day again is reused,
\* a new one must follow the head it was computed from.
AppendSession(r) ==
  /\ InStep(r, "append")
  /\ LET book == sessions[BookIn(r)]
         extended == Append(run[r].head, Publication(r)) IN
     \/ /\ book = run[r].head
        /\ sessions' = [sessions EXCEPT ![BookIn(r)] = extended] /\ Go(r, "readback")
     \/ /\ Len(book) >= run[r].day
        /\ SubSeq(book, 1, run[r].day) = extended
        /\ Go(r, "readback") /\ UNCHANGED sessions
     \/ /\ book # run[r].head
        /\ Len(book) >= run[r].day => SubSeq(book, 1, run[r].day) # extended
        /\ Return(r) /\ UNCHANGED sessions
  /\ UNCHANGED <<stored, outbox, uploads, registered, attempts, accepted, allocationStarts>>

\* The book is read again, and may be further on than the day just saved.
ReadBack(r) ==
  /\ InStep(r, "readback")
  /\ IF sessions[BookIn(r)][run[r].day] = Publication(r)
     THEN GoOn(r, sessions[BookIn(r)], run[r].day + 1) ELSE Return(r)
  /\ UNCHANGED <<stored, outbox, uploads, registered, sessions, attempts, accepted,
                 allocationStarts>>

-----------------------------------------------------------------------------
\* A call fails with an error, or the run dies.
AllocationFails(r) ==
  /\ ~InStep(r, "idle") /\ Return(r)
  /\ UNCHANGED <<stored, outbox, uploads, registered, sessions, attempts, accepted,
                 allocationStarts>>

\* initializeIntegratedAllocationBook: once.
Initialize(b) ==
  /\ b \notin registered /\ registered' = registered \cup {b}
  /\ UNCHANGED <<stored, outbox, uploads, sessions, attempts, accepted, run, allocationStarts>>

AllocationStep(r) ==
  \/ \E s \in EvidenceSlots : \E e \in EvidenceOf[s[1]] : Stage(r, s, e)
  \/ Compare(r, "put") \/ Upload(r) \/ Compare(r, "check")
  \/ KeepInOutbox(r) \/ InsertOutbox(r) \/ Kept(r)
  \/ \E through \in AllocationDays : Replay(r, through)
  \/ OpenBook(r) \/ ReadStored(r) \/ ReadRetained(r) \/ WaitForEvidence(r)
  \/ Prepare(r) \/ AppendSession(r) \/ ReadBack(r) \/ AllocationFails(r)

AllocationNext ==
  \/ \E r \in AllocationRuns : AllocationStep(r)
  \/ \E b \in AllocationBooks : Initialize(b)
  \/ \E u \in uploads : Arrive(u)

AllocationSpec == AllocationInit /\ [][AllocationNext]_allocationVars

-----------------------------------------------------------------------------
(* Types and safety.                                                       *)

Sealed == [slot : EvidenceSlots, evidence : Evidence]
AllocationPcs == {"idle", "put", "upload", "check", "keep", "insert", "kept", "open", "inputs",
                  "retained", "append", "readback"}
\* Some evidence for every slot that a day needs.
SessionOn(session, day) ==
  /\ DOMAIN session = UsedOn(day)
  /\ \A s \in DOMAIN session : session[s] \in Evidence

\* The type invariant of the allocation books.
AllocationTypeOK ==
  /\ stored \in [EvidenceSlots -> Evidence \cup {NoEvidence}]
  /\ outbox \in [EvidenceSlots -> SUBSET Evidence]
  /\ uploads \subseteq Sealed /\ accepted \subseteq Sealed
  /\ registered \subseteq AllocationBooks /\ DOMAIN sessions = AllocationBooks
  /\ \A b \in AllocationBooks :
       /\ Len(sessions[b]) <= Len(MarketsDue)
       /\ \A d \in DOMAIN sessions[b] : SessionOn(sessions[b][d], d)
  /\ \A a \in attempts : a[1] \in AllocationBooks /\ SessionOn(a[3], a[2])
  /\ \A r \in AllocationRuns :
       /\ run[r].pc \in AllocationPcs /\ run[r].slot \in EvidenceSlots \cup {<<>>}
       /\ run[r].evidence \in Evidence \cup {NoEvidence}
       /\ run[r].book \in 0 .. Len(Kinds) /\ run[r].day <= run[r].through
       /\ run[r].through \in {0} \cup AllocationDays
       /\ run[r].read \in [EvidenceSlots -> Evidence \cup {NoEvidence, "unread"}]
  /\ allocationStarts \in 0 .. MaxAllocationStarts

\* Whatever was restored, retried, raced or late: both books were computed from
\* the evidence that storage has for good, so neither can be replayed to another
\* result; no accepted evidence was lost by both channels ("no lost-input
\* success is returned"); and every session was announced by its attempt.
BooksUseStoredEvidence ==
  /\ \A b \in AllocationBooks : \A d \in DOMAIN sessions[b] :
       /\ \A s \in DOMAIN sessions[b][d] : sessions[b][d][s] = stored[s]
       /\ <<b, d, sessions[b][d]>> \in attempts
  /\ \A a \in accepted : stored[a.slot] = a.evidence \/ a.evidence \in outbox[a.slot]

\* Until a book is computed from it, a day waits for its own evidence and for
\* all that is required of the days before.
Sealing == INSTANCE EvidenceBooks WITH
  Books <- AllocationBooks, Slots <- EvidenceSlots, Missing <- NoEvidence,
  Prepared <- [s \in EvidenceSlots |-> EvidenceOf[s[1]]],
  Needs <- [d \in AllocationDays |-> DueOf(d) \cup Required(d)],
  Uses <- [d \in AllocationDays |-> UsedOn(d)],
  sealed <- stored, opened <- registered, books <- sessions

\* Calls that race, fail, repeat or arrive late write what one writer would
\* that seals every evidence once and takes the days in order: the replay and
\* the staging implement the books of sealed evidence.
ImplementsEvidenceBooks == Sealing!Spec
=============================================================================
