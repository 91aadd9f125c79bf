---------------------- MODULE IntegratedAllocationProofs ----------------------
(***************************************************************************)
(* Both allocation books are computed from the evidence that storage keeps *)
(* for good, for any number of runs and days and any evidence; and each    *)
(* book is sound, for any stocks, quotes, capital and number of days.      *)
(***************************************************************************)
EXTENDS IntegratedAllocation, AllocationBook, FiniteSetTheorems, WellFoundedInduction, TLAPS

-----------------------------------------------------------------------------
(* The inductive invariant.                                                *)

AnySession == UNION {[UsedOn(d) -> Evidence] : d \in AllocationDays}
RunRecord ==
  [pc : AllocationPcs, slot : EvidenceSlots \cup {<<>>}, evidence : Evidence \cup {NoEvidence},
   through : {0} \cup AllocationDays, book : 0 .. 2, day : Nat, head : Seq(AnySession),
   read : [EvidenceSlots -> Evidence \cup {NoEvidence, "unread"}]]

\* What a day waits for.
NeededOn(day) == DueOf(day) \cup Required(day)

\* What a call x relies on by its step, of storage st and attempts at.
Relies(x, st, at) ==
  /\ x.day <= x.through
  /\ \A s \in EvidenceSlots : x.read[s] \in Evidence => st[s] = x.read[s]
  /\ x.pc \in {"put", "upload", "check", "keep", "insert", "kept"} =>
       x.slot \in EvidenceSlots /\ x.evidence \in Evidence
  /\ x.pc = "retained" => x.slot \in EvidenceSlots
  /\ x.pc \in {"keep", "insert", "kept"} => x.book = 0
  /\ x.pc \in {"open", "inputs", "retained", "append", "readback"} => x.book > 0
  /\ x.pc \notin {"idle", "open"} /\ x.book > 0 => x.day \in AllocationDays
  /\ x.pc = "append" =>
       /\ <<Kinds[x.book], x.day, [s \in UsedOn(x.day) |-> x.read[s]]>> \in at
       /\ Len(x.head) + 1 = x.day
       /\ \A s \in NeededOn(x.day) : x.read[s] \in Evidence

RunsRely ==
  /\ run \in [AllocationRuns -> RunRecord]
  /\ \A r \in AllocationRuns : Relies(run[r], stored, attempts)

Objects ==
  /\ stored \in [EvidenceSlots -> Evidence \cup {NoEvidence}]
  /\ outbox \in [EvidenceSlots -> SUBSET Evidence]
  /\ uploads \subseteq Sealed /\ accepted \subseteq Sealed
  /\ registered \subseteq AllocationBooks
  /\ sessions \in [AllocationBooks -> Seq(AnySession)]
  /\ \A b \in AllocationBooks :
       /\ Len(sessions[b]) <= Len(MarketsDue)
       /\ \A d \in DOMAIN sessions[b] : SessionOn(sessions[b][d], d)
  /\ \A a \in attempts : a[1] \in AllocationBooks /\ SessionOn(a[3], a[2])
  /\ allocationStarts \in 0 .. MaxAllocationStarts

AllocationInv == Objects /\ RunsRely /\ BooksUseStoredEvidence

-----------------------------------------------------------------------------
(* Facts about slots and records.                                          *)

\* What a day uses are slots, and each is its own evidence or required.
LEMMA UsedAreSlots ==
  ASSUME NEW day \in AllocationDays
  PROVE  /\ DueOf(day) \subseteq EvidenceSlots
         /\ UsedOn(day) \subseteq EvidenceSlots
         /\ UsedOn(day) \subseteq NeededOn(day) /\ NeededOn(day) \subseteq EvidenceSlots
         /\ Required(day) \subseteq PriorOf(day)
         /\ PriorOf(day) \subseteq EvidenceSlots
<1>1. MarketsDue[day] \subseteq {"KR", "US"}
  BY IntegratedAssumption DEF AllocationDays
<1>2. DueOf(day) \subseteq EvidenceSlots
  BY <1>1 DEF DueOf, EvidenceSlots
<1>3. PriorOf(day) \subseteq EvidenceSlots /\ Required(day) \subseteq PriorOf(day)
  BY DEF PriorOf, Required
<1>4. \A s \in EvidenceSlots : s[1] \in {"KR", "US"}
  BY DEF EvidenceSlots
<1>5. \A s \in PriorOf(day) : s[1] \in MarketsDue[day] => s \in Required(day)
  BY <1>3, <1>4 DEF Required
<1> QED
  BY <1>2, <1>3, <1>5 DEF UsedOn, NeededOn

LEMMA RestingRelies ==
  Resting \in RunRecord /\ Relies(Resting, stored', attempts')
<1>1. "unread" \notin Evidence /\ NoEvidence \notin Evidence
  BY IntegratedAssumption
<1>2. <<>> \in Seq(AnySession)
  OBVIOUS
<1>3. Resting \in RunRecord
  BY <1>2 DEF Resting, RunRecord, AllocationPcs
<1>4. Relies(Resting, stored', attempts')
  BY <1>1 DEF Resting, Relies
<1> QED
  BY <1>3, <1>4

\* What is in storage and in the history of attempts stays there.
Grows ==
  /\ \A s \in EvidenceSlots : stored[s] \in Evidence => stored'[s] = stored[s]
  /\ attempts \subseteq attempts'

\* A step of one call that leaves its own record sound leaves all sound.
LEMMA Advances ==
  ASSUME RunsRely, Grows, NEW r \in AllocationRuns, NEW x \in RunRecord,
         run' = [run EXCEPT ![r] = x], Relies(x, stored', attempts')
  PROVE  RunsRely'
<1>1. run' \in [AllocationRuns -> RunRecord]
  BY DEF RunsRely
<1>2. ASSUME NEW q \in AllocationRuns PROVE Relies(run'[q], stored', attempts')
  <2>1. CASE q = r
    BY <2>1 DEF RunsRely
  <2>2. CASE q # r
    <3>1. run'[q] = run[q] /\ Relies(run[q], stored, attempts)
      BY <2>2 DEF RunsRely
    <3>2. \A s \in EvidenceSlots : run[q].read[s] \in Evidence => stored'[s] = run[q].read[s]
      BY <3>1 DEF Grows, Relies
    <3> QED
      BY <3>1, <3>2 DEF Grows, Relies
  <2> QED
    BY <2>1, <2>2
<1> QED
  BY <1>1, <1>2 DEF RunsRely

\* The same when no call moves.
LEMMA StaysSound ==
  ASSUME RunsRely, Grows, UNCHANGED run
  PROVE  RunsRely'
<1>1. ASSUME NEW q \in AllocationRuns PROVE Relies(run[q], stored', attempts')
  <2>1. Relies(run[q], stored, attempts)
    BY DEF RunsRely
  <2>2. \A s \in EvidenceSlots : run[q].read[s] \in Evidence => stored'[s] = run[q].read[s]
    BY <2>1 DEF Grows, Relies
  <2> QED
    BY <2>1, <2>2 DEF Grows, Relies
<1> QED
  BY <1>1 DEF RunsRely

\* A call may move to another step that relies on no more.
LEMMA Goes ==
  ASSUME RunsRely, Grows, NEW r \in AllocationRuns, NEW pc \in AllocationPcs, Go(r, pc),
         Relies([run[r] EXCEPT !.pc = pc], stored, attempts)
  PROVE  RunsRely'
<1> DEFINE x == [run[r] EXCEPT !.pc = pc]
<1>1. run' = [run EXCEPT ![r] = x]
  BY DEF Go, RunsRely
<1>2. x \in RunRecord
  BY DEF RunsRely, RunRecord
<1>3. \A s \in EvidenceSlots : x.read[s] \in Evidence => stored'[s] = x.read[s]
  BY DEF Grows, Relies
<1>4. Relies(x, stored', attempts')
  BY <1>3 DEF Grows, Relies
<1> QED
  BY <1>1, <1>2, <1>4, Advances

LEMMA Returns ==
  ASSUME RunsRely, Grows, NEW r \in AllocationRuns, Return(r)
  PROVE  RunsRely'
BY RestingRelies, Advances DEF Return

-----------------------------------------------------------------------------
(* What steps do to storage and to the books.                              *)

SafeBooks == Objects /\ BooksUseStoredEvidence

LEMMA QuietObjects ==
  ASSUME SafeBooks, allocationStarts' \in 0 .. MaxAllocationStarts,
         UNCHANGED <<stored, outbox, uploads, registered, sessions, attempts, accepted>>
  PROVE  SafeBooks' /\ Grows
BY DEF SafeBooks, Objects, BooksUseStoredEvidence, Grows

\* Days of a book are days of the calendar, and its sessions hold slots.
LEMMA SessionsHoldSlots ==
  ASSUME Objects, NEW b \in AllocationBooks, NEW d \in DOMAIN sessions[b]
  PROVE  /\ d \in AllocationDays
         /\ \A s \in DOMAIN sessions[b][d] : s \in EvidenceSlots /\ sessions[b][d][s] \in Evidence
<1>1. sessions[b] \in Seq(AnySession) /\ Len(sessions[b]) <= Len(MarketsDue)
  BY DEF Objects
<1>2. Len(MarketsDue) \in Nat
  BY IntegratedAssumption
<1>3. d \in AllocationDays
  BY <1>1, <1>2 DEF AllocationDays
<1>4. SessionOn(sessions[b][d], d)
  BY DEF Objects
<1> QED
  BY <1>3, <1>4, UsedAreSlots DEF SessionOn

\* An upload that arrives changes nothing that was there.
LEMMA UploadKeepsBooks ==
  ASSUME SafeBooks, NEW s \in EvidenceSlots, NEW e \in Evidence, stored' = WithStored(s, e),
         uploads' \subseteq Sealed,
         UNCHANGED <<outbox, registered, sessions, attempts, accepted, allocationStarts>>
  PROVE  SafeBooks' /\ Grows
<1>1. NoEvidence \notin Evidence
  BY IntegratedAssumption
<1>2. stored' \in [EvidenceSlots -> Evidence \cup {NoEvidence}]
  BY DEF WithStored, SafeBooks, Objects
<1>3. \A t \in EvidenceSlots : stored[t] \in Evidence => stored'[t] = stored[t]
  BY <1>1 DEF WithStored, SafeBooks, Objects
<1>4. Objects'
  BY <1>2 DEF SafeBooks, Objects
<1>5. ASSUME NEW b \in AllocationBooks, NEW d \in DOMAIN sessions[b]
      PROVE  /\ \A t \in DOMAIN sessions[b][d] : sessions[b][d][t] = stored'[t]
             /\ <<b, d, sessions[b][d]>> \in attempts
  <2>1. \A t \in DOMAIN sessions[b][d] : t \in EvidenceSlots /\ sessions[b][d][t] \in Evidence
    BY <1>5, SessionsHoldSlots DEF SafeBooks
  <2> QED
    BY <2>1, <1>3 DEF SafeBooks, BooksUseStoredEvidence
<1>6. ASSUME NEW a \in accepted
      PROVE  stored'[a.slot] = a.evidence \/ a.evidence \in outbox[a.slot]
  <2>1. a.slot \in EvidenceSlots /\ a.evidence \in Evidence
    BY DEF SafeBooks, Objects, Sealed
  <2> QED
    BY <2>1, <1>3 DEF SafeBooks, BooksUseStoredEvidence
<1>7. BooksUseStoredEvidence'
  BY <1>5, <1>6 DEF BooksUseStoredEvidence
<1> QED
  BY <1>3, <1>4, <1>7 DEF SafeBooks, Grows

-----------------------------------------------------------------------------
(* Staging, storage and outbox.                                            *)

LEMMA StageKeeps ==
  ASSUME AllocationInv, NEW r \in AllocationRuns, NEW s \in EvidenceSlots,
         NEW e \in EvidenceOf[s[1]], Stage(r, s, e)
  PROVE  AllocationInv'
<1> DEFINE x == [Resting EXCEPT !.pc = "put", !.slot = s, !.evidence = e]
<1>1. e \in Evidence
  BY DEF Evidence, EvidenceSlots
<1>2. x \in RunRecord
  BY <1>1, RestingRelies DEF RunRecord, AllocationPcs
<1>3. Relies(x, stored', attempts')
  BY <1>1, IntegratedAssumption DEF Resting, Relies
<1>4. allocationStarts' \in 0 .. MaxAllocationStarts
  BY IntegratedAssumption DEF Stage, AllocationInv, Objects
<1>5. SafeBooks' /\ Grows
  BY <1>4, QuietObjects DEF Stage, AllocationInv, SafeBooks
<1>6. RunsRely'
  BY <1>2, <1>3, <1>5, Advances DEF Stage, AllocationInv
<1> QED
  BY <1>5, <1>6 DEF AllocationInv, SafeBooks

\* Evidence found in storage or kept in the outbox settles a call.
LEMMA SettledKeeps ==
  ASSUME AllocationInv, NEW r \in AllocationRuns, Settled(r),
         run[r].slot \in EvidenceSlots, run[r].evidence \in Evidence,
         \/ stored[run[r].slot] = run[r].evidence
         \/ ~Replaying(r) /\ run[r].evidence \in outbox[run[r].slot],
         Replaying(r) => run[r].day \in AllocationDays,
         UNCHANGED <<stored, outbox, uploads, registered, sessions, attempts, allocationStarts>>
  PROVE  AllocationInv'
<1>1. run[r] \in RunRecord /\ Relies(run[r], stored, attempts)
  BY DEF AllocationInv, RunsRely
<1>2. CASE Replaying(r)
  <2> DEFINE x == [run[r] EXCEPT !.pc = "inputs", !.read[run[r].slot] = run[r].evidence]
  <2>1. run' = [run EXCEPT ![r] = x] /\ UNCHANGED accepted
    BY <1>2 DEF Settled, AllocationInv, RunsRely, RunRecord
  <2>2. x \in RunRecord
    BY <1>1 DEF RunRecord, AllocationPcs
  <2>3. SafeBooks' /\ Grows
    BY <2>1, QuietObjects DEF AllocationInv, SafeBooks, Objects
  <2>4. \A s \in EvidenceSlots : x.read[s] \in Evidence => stored'[s] = x.read[s]
    BY <1>1, <1>2 DEF Relies, RunRecord
  <2>5. run[r].book > 0
    BY <1>2 DEF Replaying
  <2>6. Relies(x, stored', attempts')
    BY <1>1, <1>2, <2>4, <2>5 DEF Relies, RunRecord
  <2> QED
    BY <2>1, <2>2, <2>3, <2>6, Advances DEF AllocationInv, SafeBooks
<1>3. CASE ~Replaying(r)
  <2>1. /\ Return(r)
        /\ accepted' = accepted \cup {[slot |-> run[r].slot, evidence |-> run[r].evidence]}
    BY <1>3 DEF Settled
  <2>2. Grows
    BY DEF Grows
  <2>3. Objects'
    BY <2>1 DEF AllocationInv, Objects, Sealed
  <2>4. BooksUseStoredEvidence'
    BY <2>1 DEF AllocationInv, BooksUseStoredEvidence
  <2>5. RunsRely'
    BY <2>1, <2>2, Returns DEF AllocationInv
  <2> QED
    BY <2>3, <2>4, <2>5 DEF AllocationInv
<1> QED
  BY <1>2, <1>3

\* Steps that change nothing but the call itself.
LEMMA QuietReturn ==
  ASSUME AllocationInv, NEW r \in AllocationRuns, Return(r),
         UNCHANGED <<stored, outbox, uploads, registered, sessions, attempts, accepted,
                     allocationStarts>>
  PROVE  AllocationInv'
<1>1. SafeBooks' /\ Grows
  BY QuietObjects DEF AllocationInv, SafeBooks, Objects
<1> QED
  BY <1>1, Returns DEF AllocationInv, SafeBooks

LEMMA QuietMove ==
  ASSUME AllocationInv, NEW r \in AllocationRuns, NEW x \in RunRecord,
         run' = [run EXCEPT ![r] = x], Relies(x, stored, attempts),
         UNCHANGED <<stored, outbox, uploads, registered, sessions, attempts, accepted,
                     allocationStarts>>
  PROVE  AllocationInv'
<1>1. SafeBooks' /\ Grows
  BY QuietObjects DEF AllocationInv, SafeBooks, Objects
<1>2. Relies(x, stored', attempts')
  BY DEF Relies
<1> QED
  BY <1>1, <1>2, Advances DEF AllocationInv, SafeBooks

LEMMA QuietGo ==
  ASSUME AllocationInv, NEW r \in AllocationRuns, NEW pc \in AllocationPcs, Go(r, pc),
         Relies([run[r] EXCEPT !.pc = pc], stored, attempts),
         UNCHANGED <<stored, outbox, uploads, registered, sessions, attempts, accepted,
                     allocationStarts>>
  PROVE  AllocationInv'
<1>1. SafeBooks' /\ Grows
  BY QuietObjects DEF AllocationInv, SafeBooks, Objects
<1> QED
  BY <1>1, Goes DEF AllocationInv, SafeBooks

LEMMA CompareKeeps ==
  ASSUME AllocationInv, NEW r \in AllocationRuns, NEW pc \in {"put", "check"}, Compare(r, pc)
  PROVE  AllocationInv'
<1> DEFINE there == stored[run[r].slot]
<1>1. run[r] \in RunRecord /\ Relies(run[r], stored, attempts) /\ run[r].pc = pc
  BY DEF AllocationInv, RunsRely, Compare, InStep
<1>2. run[r].slot \in EvidenceSlots /\ run[r].evidence \in Evidence
  BY <1>1 DEF Relies
<1>3. Replaying(r) => run[r].day \in AllocationDays
  BY <1>1 DEF Relies, Replaying
<1>4. UNCHANGED <<stored, outbox, uploads, registered, sessions, attempts, allocationStarts>>
  BY DEF Compare
<1>5. CASE NotStored(r)
  <2>1. CASE Replaying(r)
    BY <1>4, <1>5, <2>1, QuietReturn DEF NotStored
  <2>2. CASE ~Replaying(r)
    <3>1. run[r].book = 0
      BY <1>1, <2>2 DEF Replaying, RunRecord
    <3>2. Relies([run[r] EXCEPT !.pc = "keep"], stored, attempts)
      BY <1>1, <1>2, <3>1 DEF Relies, RunRecord
    <3>3. "keep" \in AllocationPcs
      BY DEF AllocationPcs
    <3> QED
      BY <1>4, <1>5, <2>2, <3>2, <3>3, QuietGo DEF NotStored
  <2> QED
    BY <2>1, <2>2
<1>6. CASE Go(r, "upload") /\ UNCHANGED accepted
  <2>1. Relies([run[r] EXCEPT !.pc = "upload"], stored, attempts)
    BY <1>1, <1>2 DEF Relies, RunRecord
  <2>2. "upload" \in AllocationPcs
    BY DEF AllocationPcs
  <2> QED
    BY <1>4, <1>6, <2>1, <2>2, QuietGo
<1>7. CASE there = run[r].evidence /\ Settled(r)
  BY <1>2, <1>3, <1>4, <1>7, SettledKeeps
<1>8. CASE Return(r) /\ UNCHANGED accepted
  BY <1>4, <1>8, QuietReturn
<1> QED
  BY <1>5, <1>6, <1>7, <1>8 DEF Compare

LEMMA UploadKeeps ==
  ASSUME AllocationInv, NEW r \in AllocationRuns, Upload(r)
  PROVE  AllocationInv'
<1>1. run[r] \in RunRecord /\ Relies(run[r], stored, attempts) /\ run[r].pc = "upload"
  BY DEF AllocationInv, RunsRely, Upload, InStep
<1>2. run[r].slot \in EvidenceSlots /\ run[r].evidence \in Evidence
  BY <1>1 DEF Relies
<1>3. SafeBooks /\ uploads \subseteq Sealed
  BY DEF AllocationInv, SafeBooks, Objects
<1>4. SafeBooks' /\ Grows
  <2>1. CASE stored' = WithStored(run[r].slot, run[r].evidence) /\ UNCHANGED uploads
    BY <1>2, <1>3, <2>1, UploadKeepsBooks DEF Upload
  <2>2. CASE UNCHANGED stored
    <3>1. uploads' \subseteq Sealed
      BY <1>2, <1>3 DEF Upload, Sealed
    <3>2. UNCHANGED <<stored, outbox, registered, sessions, attempts, accepted, allocationStarts>>
      BY <2>2 DEF Upload
    <3> QED
      BY <1>3, <3>1, <3>2 DEF SafeBooks, Objects, BooksUseStoredEvidence, Grows
  <2> QED
    BY <2>1, <2>2 DEF Upload
<1>5. Relies([run[r] EXCEPT !.pc = "check"], stored, attempts)
  BY <1>1, <1>2 DEF Relies, RunRecord
<1>6. "check" \in AllocationPcs
  BY DEF AllocationPcs
<1> QED
  BY <1>4, <1>5, <1>6, Goes DEF Upload, AllocationInv, SafeBooks

LEMMA ArriveKeeps ==
  ASSUME AllocationInv, NEW u \in uploads, Arrive(u)
  PROVE  AllocationInv'
<1>1. u.slot \in EvidenceSlots /\ u.evidence \in Evidence /\ uploads \subseteq Sealed
  BY DEF AllocationInv, Objects, Sealed
<1>2. SafeBooks' /\ Grows
  BY <1>1, UploadKeepsBooks DEF Arrive, AllocationInv, SafeBooks
<1> QED
  BY <1>2, StaysSound DEF Arrive, AllocationInv, SafeBooks

LEMMA KeepKeeps ==
  ASSUME AllocationInv, NEW r \in AllocationRuns, KeepInOutbox(r)
  PROVE  AllocationInv'
<1>1. run[r] \in RunRecord /\ Relies(run[r], stored, attempts) /\ run[r].pc = "keep"
  BY DEF AllocationInv, RunsRely, KeepInOutbox, InStep
<1>2. run[r].slot \in EvidenceSlots /\ run[r].evidence \in Evidence /\ ~Replaying(r)
  BY <1>1 DEF Relies, Replaying
<1>3. UNCHANGED <<stored, outbox, uploads, registered, sessions, attempts, allocationStarts>>
  BY DEF KeepInOutbox
<1>4. CASE Go(r, "insert") /\ UNCHANGED accepted
  <2>1. Relies([run[r] EXCEPT !.pc = "insert"], stored, attempts)
    BY <1>1, <1>2 DEF Relies, RunRecord
  <2>2. "insert" \in AllocationPcs
    BY DEF AllocationPcs
  <2> QED
    BY <1>3, <1>4, <2>1, <2>2, QuietGo
<1>5. CASE outbox[run[r].slot] = {run[r].evidence} /\ Settled(r)
  <2>1. run[r].evidence \in outbox[run[r].slot]
    BY <1>5
  <2> QED
    BY <1>2, <1>3, <1>5, <2>1, SettledKeeps
<1>6. CASE Return(r) /\ UNCHANGED accepted
  BY <1>3, <1>6, QuietReturn
<1> QED
  BY <1>4, <1>5, <1>6 DEF KeepInOutbox

LEMMA InsertKeeps ==
  ASSUME AllocationInv, NEW r \in AllocationRuns, InsertOutbox(r)
  PROVE  AllocationInv'
<1>1. run[r] \in RunRecord /\ Relies(run[r], stored, attempts) /\ run[r].pc = "insert"
  BY DEF AllocationInv, RunsRely, InsertOutbox, InStep
<1>2. run[r].slot \in EvidenceSlots /\ run[r].evidence \in Evidence
  BY <1>1 DEF Relies
<1>3. UNCHANGED <<stored, uploads, registered, sessions, attempts, accepted, allocationStarts>>
  BY DEF InsertOutbox
<1>4. /\ outbox' \in [EvidenceSlots -> SUBSET Evidence]
      /\ \A s \in EvidenceSlots : outbox[s] \subseteq outbox'[s]
  <2>1. outbox \in [EvidenceSlots -> SUBSET Evidence]
    BY DEF AllocationInv, Objects
  <2>2. CASE UNCHANGED outbox
    BY <2>1, <2>2
  <2>3. CASE outbox' = [outbox EXCEPT ![run[r].slot] = @ \cup {run[r].evidence}]
    <3>1. outbox[run[r].slot] \cup {run[r].evidence} \in SUBSET Evidence
      BY <1>2, <2>1
    <3> QED
      BY <2>1, <2>3, <3>1
  <2> QED
    BY <2>2, <2>3 DEF InsertOutbox
<1>5. Objects' /\ Grows
  BY <1>3, <1>4 DEF AllocationInv, Objects, Grows
<1>6. \A a \in accepted : a.slot \in EvidenceSlots
  BY DEF AllocationInv, Objects, Sealed
<1>7. BooksUseStoredEvidence'
  BY <1>3, <1>4, <1>6 DEF AllocationInv, BooksUseStoredEvidence
<1>8. Relies([run[r] EXCEPT !.pc = "kept"], stored, attempts)
  BY <1>1, <1>2 DEF Relies, RunRecord
<1>9. "kept" \in AllocationPcs
  BY DEF AllocationPcs
<1> QED
  BY <1>5, <1>7, <1>8, <1>9, Goes DEF InsertOutbox, AllocationInv

LEMMA KeptKeeps ==
  ASSUME AllocationInv, NEW r \in AllocationRuns, Kept(r)
  PROVE  AllocationInv'
<1>1. run[r] \in RunRecord /\ Relies(run[r], stored, attempts) /\ run[r].pc = "kept"
  BY DEF AllocationInv, RunsRely, Kept, InStep
<1>2. run[r].slot \in EvidenceSlots /\ run[r].evidence \in Evidence /\ ~Replaying(r)
  BY <1>1 DEF Relies, Replaying
<1>3. UNCHANGED <<stored, outbox, uploads, registered, sessions, attempts, allocationStarts>>
  BY DEF Kept
<1>4. CASE outbox[run[r].slot] = {run[r].evidence}
  <2>1. run[r].evidence \in outbox[run[r].slot] /\ Settled(r)
    BY <1>4 DEF Kept
  <2> QED
    BY <1>2, <1>3, <2>1, SettledKeeps
<1>5. CASE outbox[run[r].slot] # {run[r].evidence}
  BY <1>3, <1>5, QuietReturn DEF Kept
<1> QED
  BY <1>4, <1>5

-----------------------------------------------------------------------------
(* The replay.                                                             *)

LEMMA ReplayKeeps ==
  ASSUME AllocationInv, NEW r \in AllocationRuns, NEW through \in AllocationDays,
         Replay(r, through)
  PROVE  AllocationInv'
<1> DEFINE x == [Resting EXCEPT !.pc = "open", !.book = 1, !.through = through]
<1>1. x \in RunRecord
  <2>1. 1 \in 0 .. 2 /\ "open" \in AllocationPcs /\ through \in {0} \cup AllocationDays
    BY DEF AllocationPcs
  <2> QED
    BY <2>1, RestingRelies DEF RunRecord
<1>2. through \in Nat
  BY DEF AllocationDays
<1>3. Relies(x, stored', attempts')
  BY <1>2, IntegratedAssumption DEF Resting, Relies
<1>4. allocationStarts' \in 0 .. MaxAllocationStarts
  BY IntegratedAssumption DEF Replay, AllocationInv, Objects
<1>5. SafeBooks' /\ Grows
  BY <1>4, QuietObjects DEF Replay, AllocationInv, SafeBooks
<1>6. RunsRely'
  BY <1>1, <1>3, <1>5, Advances DEF Replay, AllocationInv
<1> QED
  BY <1>5, <1>6 DEF AllocationInv, SafeBooks

\* A replay may turn to the next book, or to a day of this one, at any time.
LEMMA NextBookKeeps ==
  ASSUME AllocationInv, NEW r \in AllocationRuns, run[r].book > 0, NextBook(r),
         UNCHANGED <<stored, outbox, uploads, registered, sessions, attempts, accepted,
                     allocationStarts>>
  PROVE  AllocationInv'
<1>1. run[r] \in RunRecord /\ Relies(run[r], stored, attempts)
  BY DEF AllocationInv, RunsRely
<1>2. Len(Kinds) = 2
  BY DEF Kinds
<1>3. CASE run[r].book = 2
  BY <1>2, <1>3, QuietReturn DEF NextBook
<1>4. CASE run[r].book # 2
  <2> DEFINE x == [run[r] EXCEPT !.pc = "open", !.book = @ + 1]
  <2>1. run' = [run EXCEPT ![r] = x]
    BY <1>2, <1>4 DEF NextBook, AllocationInv, RunsRely
  <2>2. x \in RunRecord
    <3>1. run[r].book \in 0 .. 2
      BY <1>1 DEF RunRecord
    <3>2. run[r].book + 1 \in 0 .. 2 /\ "open" \in AllocationPcs
      BY <1>4, <3>1 DEF AllocationPcs
    <3> QED
      BY <1>1, <3>2 DEF RunRecord
  <2>3. Relies(x, stored, attempts)
    BY <1>1 DEF Relies, RunRecord
  <2> QED
    BY <2>1, <2>2, <2>3, QuietMove
<1> QED
  BY <1>3, <1>4

LEMMA GoOnKeeps ==
  ASSUME AllocationInv, NEW r \in AllocationRuns, run[r].book > 0,
         NEW head \in Seq(AnySession), NEW day \in Nat \ {0}, GoOn(r, head, day),
         UNCHANGED <<stored, outbox, uploads, registered, sessions, attempts, accepted,
                     allocationStarts>>
  PROVE  AllocationInv'
<1>1. run[r] \in RunRecord /\ Relies(run[r], stored, attempts)
  BY DEF AllocationInv, RunsRely
<1>2. CASE day <= run[r].through
  <2> DEFINE x == [run[r] EXCEPT !.pc = "inputs", !.head = head, !.day = day]
  <2>1. run' = [run EXCEPT ![r] = x]
    BY <1>2 DEF GoOn, AllocationInv, RunsRely
  <2>2. x \in RunRecord
    BY <1>1 DEF RunRecord, AllocationPcs
  <2>3. day \in AllocationDays
    BY <1>1, <1>2, IntegratedAssumption DEF RunRecord, AllocationDays
  <2>4. Relies(x, stored, attempts)
    BY <1>1, <1>2, <2>3 DEF Relies, RunRecord
  <2> QED
    BY <2>1, <2>2, <2>4, QuietMove
<1>3. CASE ~(day <= run[r].through)
  BY <1>3, NextBookKeeps DEF GoOn
<1> QED
  BY <1>2, <1>3

LEMMA BookInIsBook ==
  ASSUME AllocationInv, NEW r \in AllocationRuns, run[r].book > 0
  PROVE  BookIn(r) \in AllocationBooks /\ sessions[BookIn(r)] \in Seq(AnySession)
<1>1. run[r].book \in {1, 2}
  BY DEF AllocationInv, RunsRely, RunRecord
<1>2. BookIn(r) \in AllocationBooks
  BY <1>1 DEF BookIn, Kinds, AllocationBooks
<1> QED
  BY <1>2 DEF AllocationInv, Objects

LEMMA OpenKeeps ==
  ASSUME AllocationInv, NEW r \in AllocationRuns, OpenBook(r)
  PROVE  AllocationInv'
<1>1. run[r].book > 0
  BY DEF OpenBook, InStep, AllocationInv, RunsRely, Relies
<1>2. sessions[BookIn(r)] \in Seq(AnySession)
  BY <1>1, BookInIsBook
<1>3. Len(sessions[BookIn(r)]) + 1 \in Nat \ {0}
  BY <1>2
<1>4. CASE BookIn(r) \in registered
  BY <1>1, <1>2, <1>3, <1>4, GoOnKeeps DEF OpenBook
<1>5. CASE BookIn(r) \notin registered
  BY <1>1, <1>5, NextBookKeeps DEF OpenBook
<1> QED
  BY <1>4, <1>5

LEMMA WaitKeeps ==
  ASSUME AllocationInv, NEW r \in AllocationRuns, WaitForEvidence(r)
  PROVE  AllocationInv'
<1>1. run[r].book > 0
  BY DEF WaitForEvidence, InStep, AllocationInv, RunsRely, Relies
<1> QED
  BY <1>1, NextBookKeeps DEF WaitForEvidence

-----------------------------------------------------------------------------
(* Reading evidence: of the slots a day needs there is a first one.        *)

LEMMA LeastDay ==
  ASSUME NEW T \in SUBSET Nat, T # {}
  PROVE  \E m \in T : \A x \in T : m <= x
<1>1. PICK m \in T : \A x \in T : ~ (<<x, m>> \in OpToRel(<, Nat))
  BY NatLessThanWellFounded, WFMin
<1>2. \A x \in T : ~ (x < m)
  BY <1>1 DEF OpToRel
<1>3. m \in Nat /\ \A x \in T : x \in Nat
  OBVIOUS
<1> QED
  BY <1>2, <1>3

LEMMA FirstIsThere ==
  ASSUME NEW slots \in SUBSET EvidenceSlots, slots # {}
  PROVE  FirstOf(slots) \in slots
<1> DEFINE Precedes(s, t) == (s[1] = t[1] /\ s[2] <= t[2]) \/ (s[1] = "KR" /\ t[1] = "US")
<1> DEFINE Days(m) == {s[2] : s \in {t \in slots : t[1] = m}}
<1>1. \A s \in slots : s[1] \in {"KR", "US"} /\ s[2] \in Nat
  BY DEF EvidenceSlots, AllocationDays
<1>2. \A m : Days(m) \in SUBSET Nat
  BY <1>1
<1>3. CASE \E s \in slots : s[1] = "KR"
  <2>1. Days("KR") # {}
    BY <1>3
  <2>2. PICK d \in Days("KR") : \A e \in Days("KR") : d <= e
    BY <1>2, <2>1, LeastDay
  <2>3. PICK s \in slots : s[1] = "KR" /\ s[2] = d
    BY <2>2
  <2>4. \A t \in slots : Precedes(s, t)
    BY <1>1, <2>2, <2>3
  <2> QED
    BY <2>4 DEF FirstOf
<1>4. CASE \A s \in slots : s[1] = "US"
  <2>1. Days("US") # {}
    BY <1>4
  <2>2. PICK d \in Days("US") : \A e \in Days("US") : d <= e
    BY <1>2, <2>1, LeastDay
  <2>3. PICK s \in slots : s[1] = "US" /\ s[2] = d
    BY <2>2
  <2>4. \A t \in slots : Precedes(s, t)
    BY <1>4, <2>2, <2>3
  <2> QED
    BY <2>4 DEF FirstOf
<1> QED
  BY <1>1, <1>3, <1>4

LEMMA InputsAreReplay ==
  ASSUME AllocationInv, NEW r \in AllocationRuns,
         run[r].pc \in {"inputs", "retained", "append", "readback"}
  PROVE  /\ run[r] \in RunRecord /\ Relies(run[r], stored, attempts)
         /\ run[r].book > 0 /\ run[r].day \in AllocationDays
BY DEF AllocationInv, RunsRely, Relies

LEMMA ReadKeeps ==
  ASSUME AllocationInv, NEW r \in AllocationRuns, ReadStored(r)
  PROVE  AllocationInv'
<1> DEFINE s == FirstOf(Needed(r))
<1>1. run[r].pc = "inputs" /\ Needed(r) # {}
  BY DEF ReadStored, InStep
<1>2. /\ run[r] \in RunRecord /\ Relies(run[r], stored, attempts)
      /\ run[r].book > 0 /\ run[r].day \in AllocationDays
  BY <1>1, InputsAreReplay
<1>3. Needed(r) \subseteq EvidenceSlots
  BY <1>2, UsedAreSlots DEF Needed, UnreadOf
<1>4. s \in EvidenceSlots
  BY <1>1, <1>3, FirstIsThere
<1>5. stored[s] \in Evidence \cup {NoEvidence}
  BY <1>4 DEF AllocationInv, Objects
<1>6. CASE stored[s] # NoEvidence
  <2> DEFINE x == [run[r] EXCEPT !.read[s] = stored[s]]
  <2>1. run' = [run EXCEPT ![r] = x]
    BY <1>6 DEF ReadStored, AllocationInv, RunsRely
  <2>2. x \in RunRecord
    BY <1>2, <1>5 DEF RunRecord
  <2>3. \A t \in EvidenceSlots : x.read[t] \in Evidence => stored[t] = x.read[t]
    BY <1>2 DEF Relies, RunRecord
  <2>4. Relies(x, stored, attempts)
    BY <1>1, <1>2, <2>3 DEF Relies, RunRecord
  <2> QED
    BY <2>1, <2>2, <2>4, QuietMove DEF ReadStored
<1>7. CASE stored[s] = NoEvidence
  <2> DEFINE x == [run[r] EXCEPT !.pc = "retained", !.slot = s]
  <2>1. run' = [run EXCEPT ![r] = x]
    BY <1>7 DEF ReadStored, AllocationInv, RunsRely
  <2>2. x \in RunRecord
    BY <1>2, <1>4 DEF RunRecord, AllocationPcs
  <2>3. Relies(x, stored, attempts)
    BY <1>1, <1>2, <1>4 DEF Relies, RunRecord
  <2> QED
    BY <2>1, <2>2, <2>3, QuietMove DEF ReadStored
<1> QED
  BY <1>6, <1>7

LEMMA RetainedKeeps ==
  ASSUME AllocationInv, NEW r \in AllocationRuns, ReadRetained(r)
  PROVE  AllocationInv'
<1>1. run[r].pc = "retained"
  BY DEF ReadRetained, InStep
<1>2. /\ run[r] \in RunRecord /\ Relies(run[r], stored, attempts)
      /\ run[r].book > 0 /\ run[r].day \in AllocationDays
  BY <1>1, InputsAreReplay
<1>3. run[r].slot \in EvidenceSlots
  BY <1>1, <1>2 DEF Relies
<1>4. CASE run' = [run EXCEPT ![r].pc = "inputs", ![r].read[run[r].slot] = NoEvidence]
  <2> DEFINE x == [run[r] EXCEPT !.pc = "inputs", !.read[run[r].slot] = NoEvidence]
  <2>1. run' = [run EXCEPT ![r] = x]
    BY <1>4 DEF AllocationInv, RunsRely
  <2>2. x \in RunRecord
    BY <1>2 DEF RunRecord, AllocationPcs
  <2>3. \A t \in EvidenceSlots : x.read[t] \in Evidence => stored[t] = x.read[t]
    BY <1>2, IntegratedAssumption DEF Relies, RunRecord
  <2>4. Relies(x, stored, attempts)
    BY <1>1, <1>2, <2>3 DEF Relies, RunRecord
  <2> QED
    BY <2>1, <2>2, <2>4, QuietMove DEF ReadRetained
<1>5. ASSUME NEW e \in outbox[run[r].slot], Restore(r, e)
      PROVE  AllocationInv'
  <2> DEFINE x == [run[r] EXCEPT !.pc = "put", !.evidence = e]
  <2>1. run' = [run EXCEPT ![r] = x]
    BY <1>5 DEF Restore, AllocationInv, RunsRely
  <2>2. e \in Evidence
    BY <1>3, <1>5 DEF AllocationInv, Objects
  <2>3. x \in RunRecord
    BY <1>2, <2>2 DEF RunRecord, AllocationPcs
  <2>4. Relies(x, stored, attempts)
    BY <1>1, <1>2, <1>3, <2>2 DEF Relies, RunRecord
  <2> QED
    BY <2>1, <2>3, <2>4, QuietMove DEF ReadRetained
<1>6. CASE Return(r)
  BY <1>6, QuietReturn DEF ReadRetained
<1> QED
  BY <1>4, <1>5, <1>6 DEF ReadRetained

-----------------------------------------------------------------------------
(* Appending a day.                                                        *)

\* When nothing is left to read and nothing required is missing, everything
\* that the day waits for has been read.
LEMMA AllIsRead ==
  ASSUME AllocationInv, NEW r \in AllocationRuns, run[r].pc = "inputs", Needed(r) = {},
         ~LacksEvidence(r, DueOf(run[r].day)), ~LacksEvidence(r, Required(run[r].day))
  PROVE  \A s \in NeededOn(run[r].day) : run[r].read[s] \in Evidence
<1> DEFINE day == run[r].day
<1>1. run[r] \in RunRecord /\ day \in AllocationDays
  BY InputsAreReplay
<1>2. UnreadOf(r, DueOf(day)) = {} /\ UnreadOf(r, PriorOf(day)) = {}
  BY DEF Needed
<1>3. ASSUME NEW s \in NeededOn(day)
      PROVE  run[r].read[s] \in Evidence
  <2>1. s \in EvidenceSlots /\ (s \in DueOf(day) \/ (s \in Required(day) /\ s \in PriorOf(day)))
    BY <1>1, <1>3, UsedAreSlots DEF NeededOn
  <2>2. run[r].read[s] # "unread"
    BY <1>2, <2>1 DEF UnreadOf
  <2>3. run[r].read[s] # NoEvidence
    BY <2>1 DEF LacksEvidence
  <2> QED
    BY <1>1, <2>1, <2>2, <2>3 DEF RunRecord
<1> QED
  BY <1>3

LEMMA PublicationIsSession ==
  ASSUME AllocationInv, NEW r \in AllocationRuns, run[r].day \in AllocationDays,
         \A s \in UsedOn(run[r].day) : run[r].read[s] \in Evidence
  PROVE  SessionOn(Publication(r), run[r].day) /\ Publication(r) \in AnySession
<1>1. DOMAIN Publication(r) = UsedOn(run[r].day)
  BY DEF Publication
<1>2. \A s \in UsedOn(run[r].day) : Publication(r)[s] \in Evidence
  BY DEF Publication
<1>3. Publication(r) \in [UsedOn(run[r].day) -> Evidence]
  BY DEF Publication
<1> QED
  BY <1>1, <1>2, <1>3 DEF SessionOn, AnySession

LEMMA PrepareKeeps ==
  ASSUME AllocationInv, NEW r \in AllocationRuns, Prepare(r)
  PROVE  AllocationInv'
<1>1. run[r].pc = "inputs" /\ Needed(r) = {} /\ ~LacksEvidence(r, DueOf(run[r].day))
  BY DEF Prepare, InStep
<1>2. /\ run[r] \in RunRecord /\ Relies(run[r], stored, attempts)
      /\ run[r].book > 0 /\ run[r].day \in AllocationDays
  BY <1>1, InputsAreReplay
<1>3. CASE Len(run[r].head) + 1 = run[r].day /\ ~LacksEvidence(r, Required(run[r].day))
  <2> DEFINE x == [run[r] EXCEPT !.pc = "append"]
  <2>1. Go(r, "append") /\ attempts' = attempts \cup {<<BookIn(r), run[r].day, Publication(r)>>}
    BY <1>3 DEF Prepare
  <2>2. \A s \in NeededOn(run[r].day) : run[r].read[s] \in Evidence
    BY <1>1, <1>3, AllIsRead
  <2>3. SessionOn(Publication(r), run[r].day) /\ BookIn(r) \in AllocationBooks
    BY <1>2, <2>2, UsedAreSlots, PublicationIsSession, BookInIsBook
  <2>4. Objects'
    BY <2>1, <2>3 DEF Prepare, AllocationInv, Objects
  <2>5. BooksUseStoredEvidence' /\ Grows
    BY <2>1 DEF Prepare, AllocationInv, BooksUseStoredEvidence, Grows
  <2>6. run' = [run EXCEPT ![r] = x]
    BY <2>1 DEF Go, AllocationInv, RunsRely
  <2>7. x \in RunRecord
    BY <1>2 DEF RunRecord, AllocationPcs
  <2>8. /\ x.pc = "append" /\ x.book = run[r].book /\ x.day = run[r].day /\ x.read = run[r].read
        /\ x.head = run[r].head /\ x.through = run[r].through
    BY <1>2 DEF RunRecord
  <2>9. <<Kinds[x.book], x.day, [s \in UsedOn(x.day) |-> x.read[s]]>> \in attempts'
    BY <2>1, <2>8 DEF BookIn, Publication
  <2>10. stored' = stored
    BY DEF Prepare
  <2>11. Relies(x, stored', attempts')
    BY <1>2, <1>3, <2>2, <2>8, <2>9, <2>10 DEF Relies
  <2> QED
    BY <2>4, <2>5, <2>6, <2>7, <2>11, Advances DEF AllocationInv
<1>4. CASE ~(Len(run[r].head) + 1 = run[r].day /\ ~LacksEvidence(r, Required(run[r].day)))
  <2>1. Return(r) /\ UNCHANGED attempts
    BY <1>4 DEF Prepare
  <2> QED
    BY <2>1, QuietReturn DEF Prepare
<1> QED
  BY <1>3, <1>4

LEMMA AppendKeeps ==
  ASSUME AllocationInv, NEW r \in AllocationRuns, AppendSession(r)
  PROVE  AllocationInv'
<1> DEFINE b == BookIn(r)
           day == run[r].day
<1>1. run[r].pc = "append"
  BY DEF AppendSession, InStep
<1>2. /\ run[r] \in RunRecord /\ Relies(run[r], stored, attempts)
      /\ run[r].book > 0 /\ day \in AllocationDays
  BY <1>1, InputsAreReplay
<1>3. UNCHANGED <<stored, outbox, uploads, registered, attempts, accepted, allocationStarts>>
  BY DEF AppendSession
<1>4. \A s \in UsedOn(day) : run[r].read[s] \in Evidence
  BY <1>1, <1>2, UsedAreSlots DEF Relies
<1>5. SessionOn(Publication(r), day) /\ Publication(r) \in AnySession
  BY <1>2, <1>4, PublicationIsSession
<1>6. b \in AllocationBooks /\ sessions[b] \in Seq(AnySession)
  BY <1>2, BookInIsBook
<1>7. Relies([run[r] EXCEPT !.pc = "readback"], stored, attempts)
  BY <1>1, <1>2 DEF Relies, RunRecord
<1>8. "readback" \in AllocationPcs
  BY DEF AllocationPcs
<1>9. CASE /\ sessions[b] = run[r].head
           /\ sessions' = [sessions EXCEPT ![b] = Append(run[r].head, Publication(r))]
           /\ Go(r, "readback")
  <2>1. /\ <<b, day, Publication(r)>> \in attempts
        /\ Len(sessions[b]) + 1 = day
    BY <1>1, <1>2, <1>9 DEF Relies, BookIn, Publication
  <2>2. \A s \in UsedOn(day) : Publication(r)[s] = stored[s]
    BY <1>2, <1>4, UsedAreSlots DEF Relies, Publication
  <2>3. sessions'[b] = Append(sessions[b], Publication(r))
    BY <1>6, <1>9 DEF AllocationInv, Objects
  <2>4. /\ Len(sessions'[b]) = day /\ sessions'[b] \in Seq(AnySession)
        /\ sessions'[b][day] = Publication(r)
        /\ DOMAIN sessions'[b] = 1 .. day
        /\ \A d \in 1 .. Len(sessions[b]) : sessions'[b][d] = sessions[b][d]
    BY <1>5, <1>6, <2>1, <2>3
  <2>5. \A d \in DOMAIN sessions'[b] : d = day \/ d \in DOMAIN sessions[b]
    BY <1>2, <1>6, <2>1, <2>4 DEF AllocationDays
  <2>6. \A c \in AllocationBooks \ {b} : sessions'[c] = sessions[c]
    BY <1>9 DEF AllocationInv, Objects
  <2>7. sessions' \in [AllocationBooks -> Seq(AnySession)]
    BY <1>9, <1>6, <2>3, <2>4 DEF AllocationInv, Objects
  <2>8. ASSUME NEW c \in AllocationBooks
        PROVE  /\ Len(sessions'[c]) <= Len(MarketsDue)
               /\ \A d \in DOMAIN sessions'[c] : SessionOn(sessions'[c][d], d)
    <3>1. CASE c # b
      BY <2>6, <3>1 DEF AllocationInv, Objects
    <3>2. CASE c = b
      <4>1. day <= Len(MarketsDue)
        BY <1>2 DEF AllocationDays
      <4>2. \A d \in DOMAIN sessions[b] : SessionOn(sessions'[b][d], d)
        BY <1>6, <2>4 DEF AllocationInv, Objects
      <4> QED
        BY <1>5, <2>4, <2>5, <3>2, <4>1, <4>2
    <3> QED
      BY <3>1, <3>2
  <2>9. Objects'
    BY <1>3, <2>7, <2>8 DEF AllocationInv, Objects
  <2>10. ASSUME NEW c \in AllocationBooks, NEW d \in DOMAIN sessions'[c]
         PROVE  /\ \A s \in DOMAIN sessions'[c][d] : sessions'[c][d][s] = stored[s]
                /\ <<c, d, sessions'[c][d]>> \in attempts
    <3>1. CASE c = b /\ d = day
      BY <1>5, <2>1, <2>2, <2>4, <3>1 DEF SessionOn
    <3>2. CASE ~(c = b /\ d = day)
      <4>1. d \in DOMAIN sessions[c] /\ sessions'[c][d] = sessions[c][d]
        BY <1>6, <2>4, <2>5, <2>6, <2>10, <3>2
      <4> QED
        BY <4>1 DEF AllocationInv, BooksUseStoredEvidence
    <3> QED
      BY <3>1, <3>2
  <2>11. BooksUseStoredEvidence' /\ Grows
    BY <1>3, <2>10 DEF AllocationInv, BooksUseStoredEvidence, Grows
  <2> QED
    BY <1>3, <1>7, <1>8, <1>9, <2>9, <2>11, Goes DEF AllocationInv
<1>10. CASE Go(r, "readback") /\ UNCHANGED sessions
  BY <1>3, <1>7, <1>8, <1>10, QuietGo
<1>11. CASE Return(r) /\ UNCHANGED sessions
  BY <1>3, <1>11, QuietReturn
<1> QED
  BY <1>9, <1>10, <1>11 DEF AppendSession

LEMMA ReadBackKeeps ==
  ASSUME AllocationInv, NEW r \in AllocationRuns, ReadBack(r)
  PROVE  AllocationInv'
<1>1. run[r].pc = "readback"
  BY DEF ReadBack, InStep
<1>2. run[r].book > 0 /\ run[r].day \in AllocationDays
  BY <1>1, InputsAreReplay
<1>3. sessions[BookIn(r)] \in Seq(AnySession) /\ run[r].day + 1 \in Nat \ {0}
  BY <1>2, BookInIsBook DEF AllocationDays
<1>4. CASE GoOn(r, sessions[BookIn(r)], run[r].day + 1)
  BY <1>2, <1>3, <1>4, GoOnKeeps DEF ReadBack
<1>5. CASE Return(r)
  BY <1>5, QuietReturn DEF ReadBack
<1> QED
  BY <1>4, <1>5 DEF ReadBack

-----------------------------------------------------------------------------
(* The theorems.                                                           *)

LEMMA InitSound ==
  ASSUME AllocationInit
  PROVE  AllocationInv
<1>1. stored \in [EvidenceSlots -> Evidence \cup {NoEvidence}]
  BY DEF AllocationInit
<1>2. Objects
  BY <1>1, IntegratedAssumption DEF AllocationInit, Objects
<1>3. BooksUseStoredEvidence
  BY DEF AllocationInit, BooksUseStoredEvidence
<1>4. Resting \in RunRecord
  BY RestingRelies
<1>5. Relies(Resting, stored, attempts)
  BY IntegratedAssumption DEF Resting, Relies
<1>6. RunsRely
  BY <1>4, <1>5 DEF AllocationInit, RunsRely
<1> QED
  BY <1>2, <1>3, <1>6 DEF AllocationInv

LEMMA StepSound ==
  ASSUME AllocationInv, [AllocationNext]_allocationVars
  PROVE  AllocationInv'
<1>1. CASE UNCHANGED allocationVars
  <2>1. SafeBooks' /\ Grows
    BY <1>1, QuietObjects DEF allocationVars, AllocationInv, SafeBooks, Objects
  <2> QED
    BY <1>1, <2>1, StaysSound DEF allocationVars, AllocationInv, SafeBooks
<1>2. ASSUME NEW r \in AllocationRuns, AllocationStep(r)
      PROVE  AllocationInv'
  <2>1. CASE \E s \in EvidenceSlots : \E e \in EvidenceOf[s[1]] : Stage(r, s, e)
    BY <2>1, StageKeeps
  <2>2. CASE Compare(r, "put") \/ Compare(r, "check")
    BY <2>2, CompareKeeps
  <2>3. CASE Upload(r) \/ KeepInOutbox(r) \/ InsertOutbox(r) \/ Kept(r)
    BY <2>3, UploadKeeps, KeepKeeps, InsertKeeps, KeptKeeps
  <2>4. CASE \E through \in AllocationDays : Replay(r, through)
    BY <2>4, ReplayKeeps
  <2>5. CASE OpenBook(r) \/ ReadStored(r) \/ ReadRetained(r) \/ WaitForEvidence(r)
    BY <2>5, OpenKeeps, ReadKeeps, RetainedKeeps, WaitKeeps
  <2>6. CASE Prepare(r) \/ AppendSession(r) \/ ReadBack(r)
    BY <2>6, PrepareKeeps, AppendKeeps, ReadBackKeeps
  <2>7. CASE AllocationFails(r)
    BY <2>7, QuietReturn DEF AllocationFails
  <2> QED
    BY <1>2, <2>1, <2>2, <2>3, <2>4, <2>5, <2>6, <2>7 DEF AllocationStep
<1>3. ASSUME NEW b \in AllocationBooks, Initialize(b)
      PROVE  AllocationInv'
  <2>1. Objects'
    BY <1>3 DEF Initialize, AllocationInv, Objects
  <2>2. BooksUseStoredEvidence' /\ Grows
    BY <1>3 DEF Initialize, AllocationInv, BooksUseStoredEvidence, Grows
  <2>3. RunsRely'
    BY <1>3, <2>2, StaysSound DEF Initialize, AllocationInv
  <2> QED
    BY <2>1, <2>2, <2>3 DEF AllocationInv
<1>4. ASSUME NEW u \in uploads, Arrive(u)
      PROVE  AllocationInv'
  BY <1>4, ArriveKeeps
<1> QED
  BY <1>1, <1>2, <1>3, <1>4 DEF AllocationNext

\* Every step of a call has its kind of value in every field.
THEOREM AllocationTypes == AllocationSpec => []AllocationTypeOK
<1>1. AllocationInv => AllocationTypeOK
  <2> SUFFICES ASSUME AllocationInv PROVE AllocationTypeOK
    OBVIOUS
  <2>1. Len(Kinds) = 2
    BY DEF Kinds
  <2>2. ASSUME NEW r \in AllocationRuns
        PROVE  /\ run[r].pc \in AllocationPcs /\ run[r].slot \in EvidenceSlots \cup {<<>>}
               /\ run[r].evidence \in Evidence \cup {NoEvidence}
               /\ run[r].book \in 0 .. Len(Kinds) /\ run[r].day <= run[r].through
               /\ run[r].through \in {0} \cup AllocationDays
               /\ run[r].read \in [EvidenceSlots -> Evidence \cup {NoEvidence, "unread"}]
    BY <2>1 DEF AllocationInv, RunsRely, RunRecord, Relies
  <2> QED
    BY <2>2 DEF AllocationInv, Objects, AllocationTypeOK
<1> QED
  BY <1>1, InitSound, StepSound, PTL DEF AllocationSpec

\* Both books are computed from the evidence in storage, through the outbox,
\* retries, races and late uploads (replay.server.ts), and no accepted evidence
\* is lost.
THEOREM BooksRestOnStorage == AllocationSpec => []BooksUseStoredEvidence
<1>1. AllocationInv => BooksUseStoredEvidence
  BY DEF AllocationInv
<1> QED
  BY <1>1, InitSound, StepSound, PTL DEF AllocationSpec

-----------------------------------------------------------------------------
(* The books of sealed evidence.  Nothing is put in a slot, from a client, *)
(* the outbox or a late upload, that was not prepared for it, and no book  *)
(* is at work that was not initialized.                                    *)

PuttingPcs == {"put", "upload", "check", "keep", "insert", "kept"}

Entitled(x, opened) ==
  /\ x.pc \in PuttingPcs => x.evidence \in EvidenceOf[x.slot[1]]
  /\ x.book > 0 /\ x.pc \notin {"idle", "open"} => Kinds[x.book] \in opened

PreparedInv ==
  /\ \A s \in EvidenceSlots : outbox[s] \subseteq EvidenceOf[s[1]]
  /\ \A u \in uploads : u.evidence \in EvidenceOf[u.slot[1]]
  /\ \A r \in AllocationRuns : Entitled(run[r], registered)

\* A step of one call that leaves outbox and uploads, and is entitled to it.
LEMMA CallStaysEntitled ==
  ASSUME AllocationInv, PreparedInv, NEW r \in AllocationRuns, NEW x,
         run' = [run EXCEPT ![r] = x], Entitled(x, registered),
         UNCHANGED <<outbox, uploads, registered>>
  PROVE  PreparedInv'
<1>1. ASSUME NEW q \in AllocationRuns PROVE Entitled(run'[q], registered')
  BY <1>1 DEF AllocationInv, RunsRely, PreparedInv
<1> QED
  BY <1>1 DEF PreparedInv

LEMMA RestingEntitled == \A opened : Entitled(Resting, opened)
BY DEF Entitled, Resting, PuttingPcs

LEMMA ReturnEntitled ==
  ASSUME AllocationInv, PreparedInv, NEW r \in AllocationRuns, Return(r),
         UNCHANGED <<outbox, uploads, registered>>
  PROVE  PreparedInv'
BY RestingEntitled, CallStaysEntitled DEF Return

LEMMA GoEntitled ==
  ASSUME AllocationInv, PreparedInv, NEW r \in AllocationRuns, NEW pc, Go(r, pc),
         Entitled([run[r] EXCEPT !.pc = pc], registered),
         UNCHANGED <<outbox, uploads, registered>>
  PROVE  PreparedInv'
<1>1. run' = [run EXCEPT ![r] = [run[r] EXCEPT !.pc = pc]]
  BY DEF Go, AllocationInv, RunsRely
<1> QED
  BY <1>1, CallStaysEntitled

LEMMA EntitledHere ==
  ASSUME AllocationInv, PreparedInv, NEW r \in AllocationRuns
  PROVE  /\ run[r] \in RunRecord /\ Relies(run[r], stored, attempts)
         /\ Entitled(run[r], registered)
BY DEF AllocationInv, RunsRely, PreparedInv

LEMMA SettledEntitled ==
  ASSUME AllocationInv, PreparedInv, NEW r \in AllocationRuns, Settled(r),
         run[r].pc \in PuttingPcs, UNCHANGED <<outbox, uploads, registered>>
  PROVE  PreparedInv'
<1>1. CASE Replaying(r)
  <2> DEFINE x == [run[r] EXCEPT !.pc = "inputs", !.read[run[r].slot] = run[r].evidence]
  <2>1. run' = [run EXCEPT ![r] = x]
    BY <1>1 DEF Settled, AllocationInv, RunsRely, RunRecord
  <2>2. Entitled(x, registered)
    BY EntitledHere DEF Entitled, PuttingPcs, RunRecord
  <2> QED
    BY <2>1, <2>2, CallStaysEntitled
<1>2. CASE ~Replaying(r)
  BY <1>2, ReturnEntitled DEF Settled
<1> QED
  BY <1>1, <1>2

LEMMA PutEntitled ==
  ASSUME AllocationInv, PreparedInv, NEW r \in AllocationRuns,
         \/ Compare(r, "put") \/ Compare(r, "check") \/ KeepInOutbox(r) \/ Kept(r)
  PROVE  PreparedInv'
<1>1. run[r].pc \in PuttingPcs
  BY DEF Compare, KeepInOutbox, Kept, InStep, PuttingPcs
<1>2. UNCHANGED <<outbox, uploads, registered>>
  BY DEF Compare, KeepInOutbox, Kept
<1>3. ASSUME NEW pc \in PuttingPcs, Go(r, pc)
      PROVE  PreparedInv'
  <2>1. Entitled([run[r] EXCEPT !.pc = pc], registered)
    BY <1>1, <1>3, EntitledHere DEF Entitled, PuttingPcs, RunRecord
  <2> QED
    BY <1>2, <1>3, <2>1, GoEntitled
<1>4. CASE Settled(r)
  BY <1>1, <1>2, <1>4, SettledEntitled
<1>5. CASE Return(r)
  BY <1>2, <1>5, ReturnEntitled
<1>6. \/ Settled(r) \/ Return(r) \/ \E pc \in PuttingPcs : Go(r, pc)
  BY DEF Compare, KeepInOutbox, Kept, NotStored, PuttingPcs
<1> QED
  BY <1>3, <1>4, <1>5, <1>6

\* What leaves a client for storage or the outbox was prepared for its slot.
LEMMA SendEntitled ==
  ASSUME AllocationInv, PreparedInv, NEW r \in AllocationRuns, Upload(r) \/ InsertOutbox(r)
  PROVE  /\ run[r].slot \in EvidenceSlots /\ run[r].evidence \in EvidenceOf[run[r].slot[1]]
         /\ PreparedInv'
<1>1. run[r].pc \in {"upload", "insert"}
  BY DEF Upload, InsertOutbox, InStep
<1>2. run[r].slot \in EvidenceSlots /\ run[r].evidence \in EvidenceOf[run[r].slot[1]]
  BY <1>1, EntitledHere DEF Relies, Entitled, PuttingPcs
<1>3. PICK pc \in {"check", "kept"} : Go(r, pc)
  BY DEF Upload, InsertOutbox
<1> DEFINE x == [run[r] EXCEPT !.pc = pc]
<1>4. run' = [run EXCEPT ![r] = x]
  BY <1>3 DEF Go, AllocationInv, RunsRely
<1>5. Entitled(x, registered)
  BY <1>1, <1>3, EntitledHere DEF Entitled, PuttingPcs, RunRecord
<1>6. registered' = registered
  BY DEF Upload, InsertOutbox
<1>7. ASSUME NEW q \in AllocationRuns PROVE Entitled(run'[q], registered')
  BY <1>4, <1>5, <1>6 DEF AllocationInv, RunsRely, PreparedInv
<1>8. ASSUME NEW u \in uploads' PROVE u.evidence \in EvidenceOf[u.slot[1]]
  BY <1>2 DEF Upload, InsertOutbox, PreparedInv
<1>9. ASSUME NEW s \in EvidenceSlots PROVE outbox'[s] \subseteq EvidenceOf[s[1]]
  <2>1. CASE s = run[r].slot
    BY <1>2, <2>1 DEF Upload, InsertOutbox, PreparedInv, AllocationInv, Objects
  <2>2. CASE s # run[r].slot
    BY <2>2 DEF Upload, InsertOutbox, PreparedInv, AllocationInv, Objects
  <2> QED
    BY <2>1, <2>2
<1>10. PreparedInv'
  BY <1>7, <1>8, <1>9 DEF PreparedInv
<1> QED
  BY <1>2, <1>10

\* A replay on its way to another day or book has found its book open.
LEMMA NextBookEntitled ==
  ASSUME AllocationInv, PreparedInv, NEW r \in AllocationRuns, NextBook(r),
         UNCHANGED <<outbox, uploads, registered>>
  PROVE  PreparedInv'
<1>1. CASE Return(r)
  BY <1>1, ReturnEntitled
<1>2. CASE run' = [run EXCEPT ![r].pc = "open", ![r].book = @ + 1]
  <2> DEFINE x == [run[r] EXCEPT !.pc = "open", !.book = @ + 1]
  <2>1. run' = [run EXCEPT ![r] = x]
    BY <1>2 DEF AllocationInv, RunsRely
  <2>2. Entitled(x, registered)
    BY EntitledHere DEF Entitled, PuttingPcs, RunRecord
  <2> QED
    BY <2>1, <2>2, CallStaysEntitled
<1> QED
  BY <1>1, <1>2 DEF NextBook

LEMMA GoOnEntitled ==
  ASSUME AllocationInv, PreparedInv, NEW r \in AllocationRuns, NEW head, NEW day,
         GoOn(r, head, day), BookIn(r) \in registered,
         UNCHANGED <<outbox, uploads, registered>>
  PROVE  PreparedInv'
<1>1. CASE run' = [run EXCEPT ![r].pc = "inputs", ![r].head = head, ![r].day = day]
  <2> DEFINE x == [run[r] EXCEPT !.pc = "inputs", !.head = head, !.day = day]
  <2>1. run' = [run EXCEPT ![r] = x]
    BY <1>1 DEF AllocationInv, RunsRely
  <2>2. Entitled(x, registered)
    BY EntitledHere DEF Entitled, PuttingPcs, RunRecord, BookIn
  <2> QED
    BY <2>1, <2>2, CallStaysEntitled
<1>2. CASE NextBook(r)
  BY <1>2, NextBookEntitled
<1> QED
  BY <1>1, <1>2 DEF GoOn

LEMMA StartEntitled ==
  ASSUME AllocationInv, PreparedInv, NEW r \in AllocationRuns,
         \/ \E s \in EvidenceSlots : \E e \in EvidenceOf[s[1]] : Stage(r, s, e)
         \/ \E through \in AllocationDays : Replay(r, through)
  PROVE  PreparedInv'
<1>1. ASSUME NEW s \in EvidenceSlots, NEW e \in EvidenceOf[s[1]], Stage(r, s, e)
      PROVE  PreparedInv'
  <2> DEFINE x == [Resting EXCEPT !.pc = "put", !.slot = s, !.evidence = e]
  <2>1. Entitled(x, registered)
    BY DEF Entitled, Resting, PuttingPcs
  <2> QED
    BY <1>1, <2>1, CallStaysEntitled DEF Stage
<1>2. ASSUME NEW through \in AllocationDays, Replay(r, through)
      PROVE  PreparedInv'
  <2> DEFINE x == [Resting EXCEPT !.pc = "open", !.book = 1, !.through = through]
  <2>1. Entitled(x, registered)
    BY DEF Entitled, Resting, PuttingPcs
  <2> QED
    BY <1>2, <2>1, CallStaysEntitled DEF Replay
<1> QED
  BY <1>1, <1>2

LEMMA ReadEntitled ==
  ASSUME AllocationInv, PreparedInv, NEW r \in AllocationRuns, ReadStored(r) \/ ReadRetained(r)
  PROVE  PreparedInv'
<1>1. run[r].pc \in {"inputs", "retained"}
  BY DEF ReadStored, ReadRetained, InStep
<1>2. UNCHANGED <<outbox, uploads, registered>>
  BY DEF ReadStored, ReadRetained
<1>3. /\ run[r] \in RunRecord /\ Kinds[run[r].book] \in registered
      /\ run[r].pc = "retained" => run[r].slot \in EvidenceSlots
  BY <1>1, EntitledHere, InputsAreReplay DEF Entitled, Relies
<1>4. CASE ReadStored(r)
  <2> DEFINE s == FirstOf(Needed(r))
             x == [run[r] EXCEPT !.read[s] = stored[s]]
             y == [run[r] EXCEPT !.pc = "retained", !.slot = s]
  <2>1. run' = [run EXCEPT ![r] = x] \/ run' = [run EXCEPT ![r] = y]
    BY <1>4 DEF ReadStored, AllocationInv, RunsRely
  <2>2. Entitled(x, registered) /\ Entitled(y, registered)
    BY <1>1, <1>3 DEF Entitled, PuttingPcs, RunRecord
  <2> QED
    BY <1>2, <2>1, <2>2, CallStaysEntitled
<1>5. CASE ReadRetained(r)
  <2>1. CASE run' = [run EXCEPT ![r].pc = "inputs", ![r].read[run[r].slot] = NoEvidence]
    <3> DEFINE x == [run[r] EXCEPT !.pc = "inputs", !.read[run[r].slot] = NoEvidence]
    <3>1. run' = [run EXCEPT ![r] = x]
      BY <2>1 DEF AllocationInv, RunsRely
    <3>2. Entitled(x, registered)
      BY <1>3 DEF Entitled, PuttingPcs, RunRecord
    <3> QED
      BY <1>2, <3>1, <3>2, CallStaysEntitled
  <2>2. ASSUME NEW e \in outbox[run[r].slot], Restore(r, e)
        PROVE  PreparedInv'
    <3> DEFINE x == [run[r] EXCEPT !.pc = "put", !.evidence = e]
    <3>1. run' = [run EXCEPT ![r] = x]
      BY <2>2 DEF Restore, AllocationInv, RunsRely
    <3>2. e \in EvidenceOf[run[r].slot[1]]
      BY <1>3, <1>5 DEF PreparedInv, ReadRetained, InStep
    <3>3. Entitled(x, registered)
      BY <1>3, <3>2 DEF Entitled, PuttingPcs, RunRecord
    <3> QED
      BY <1>2, <3>1, <3>3, CallStaysEntitled
  <2>3. CASE Return(r)
    BY <1>2, <2>3, ReturnEntitled
  <2> QED
    BY <1>5, <2>1, <2>2, <2>3 DEF ReadRetained
<1> QED
  BY <1>4, <1>5

LEMMA AppendEntitled ==
  ASSUME AllocationInv, PreparedInv, NEW r \in AllocationRuns, Prepare(r) \/ AppendSession(r)
  PROVE  PreparedInv'
<1>1. run[r].pc \in {"inputs", "append"}
  BY DEF Prepare, AppendSession, InStep
<1>2. UNCHANGED <<outbox, uploads, registered>>
  BY DEF Prepare, AppendSession
<1>3. ASSUME NEW pc \in {"append", "readback"}, Go(r, pc)
      PROVE  PreparedInv'
  <2>1. Kinds[run[r].book] \in registered /\ run[r] \in RunRecord
    BY <1>1, EntitledHere, InputsAreReplay DEF Entitled
  <2>2. Entitled([run[r] EXCEPT !.pc = pc], registered)
    BY <1>3, <2>1 DEF Entitled, PuttingPcs, RunRecord
  <2> QED
    BY <1>2, <1>3, <2>2, GoEntitled
<1>4. CASE Return(r)
  BY <1>2, <1>4, ReturnEntitled
<1> QED
  BY <1>3, <1>4 DEF Prepare, AppendSession

LEMMA InitPrepared == AllocationInit => PreparedInv
BY RestingEntitled DEF AllocationInit, PreparedInv

LEMMA StepPrepared ==
  ASSUME AllocationInv, PreparedInv, [AllocationNext]_allocationVars
  PROVE  PreparedInv'
<1>1. CASE UNCHANGED allocationVars
  BY <1>1 DEF allocationVars, PreparedInv
<1>2. ASSUME NEW r \in AllocationRuns, AllocationStep(r)
      PROVE  PreparedInv'
  <2>1. CASE Compare(r, "put") \/ Compare(r, "check") \/ KeepInOutbox(r) \/ Kept(r)
    BY <2>1, PutEntitled
  <2>2. CASE Upload(r) \/ InsertOutbox(r)
    BY <2>2, SendEntitled
  <2>3. CASE \/ \E s \in EvidenceSlots : \E e \in EvidenceOf[s[1]] : Stage(r, s, e)
             \/ \E through \in AllocationDays : Replay(r, through)
    BY <2>3, StartEntitled
  <2>4. CASE OpenBook(r)
    <3>1. CASE BookIn(r) \in registered
      BY <2>4, <3>1, GoOnEntitled DEF OpenBook
    <3>2. CASE BookIn(r) \notin registered
      BY <2>4, <3>2, NextBookEntitled DEF OpenBook
    <3> QED
      BY <3>1, <3>2
  <2>5. CASE ReadStored(r) \/ ReadRetained(r)
    BY <2>5, ReadEntitled
  <2>6. CASE WaitForEvidence(r)
    BY <2>6, NextBookEntitled DEF WaitForEvidence
  <2>7. CASE Prepare(r) \/ AppendSession(r)
    BY <2>7, AppendEntitled
  <2>8. CASE ReadBack(r)
    <3>1. BookIn(r) \in registered
      BY <2>8, EntitledHere, InputsAreReplay DEF ReadBack, InStep, Entitled, BookIn
    <3> QED
      BY <2>8, <3>1, GoOnEntitled, ReturnEntitled DEF ReadBack
  <2>9. CASE AllocationFails(r)
    BY <2>9, ReturnEntitled DEF AllocationFails
  <2> QED
    BY <1>2, <2>1, <2>2, <2>3, <2>4, <2>5, <2>6, <2>7, <2>8, <2>9 DEF AllocationStep
<1>3. ASSUME NEW b \in AllocationBooks, Initialize(b)
      PROVE  PreparedInv'
  BY <1>3 DEF Initialize, PreparedInv, Entitled
<1>4. ASSUME NEW u \in uploads, Arrive(u)
      PROVE  PreparedInv'
  BY <1>4 DEF Arrive, PreparedInv
<1> QED
  BY <1>1, <1>2, <1>3, <1>4 DEF AllocationNext

\* What reaches storage seals a slot, or finds it sealed.
LEMMA StoringSeals ==
  ASSUME AllocationInv, NEW s \in EvidenceSlots, NEW e \in EvidenceOf[s[1]],
         stored' = WithStored(s, e), UNCHANGED <<registered, sessions>>
  PROVE  Sealing!Next
<1>1. CASE stored[s] = NoEvidence
  <2>1. stored' = [stored EXCEPT ![s] = e]
    BY <1>1 DEF WithStored, AllocationInv, Objects
  <2>2. Sealing!Seal(s, e)
    BY <1>1, <2>1 DEF Sealing!Seal
  <2> QED
    BY <2>2 DEF Sealing!Next
<1>2. CASE stored[s] # NoEvidence
  <2>1. stored' = stored
    BY <1>2 DEF WithStored, AllocationInv, Objects
  <2> QED
    BY <2>1 DEF Sealing!Next, Sealing!Idle
<1> QED
  BY <1>1, <1>2

\* A day that is appended is taken from what is sealed by then.
LEMMA AppendTakesDay ==
  ASSUME AllocationInv, PreparedInv, NEW r \in AllocationRuns, AppendSession(r)
  PROVE  Sealing!Next
<1> DEFINE b == BookIn(r)
           day == run[r].day
<1>1. run[r].pc = "append" /\ UNCHANGED <<stored, registered>>
  BY DEF AppendSession, InStep
<1>2. /\ Relies(run[r], stored, attempts) /\ run[r].book > 0 /\ day \in AllocationDays
      /\ b \in AllocationBooks /\ sessions[b] \in Seq(AnySession) /\ b \in registered
  BY <1>1, InputsAreReplay, BookInIsBook, EntitledHere DEF Entitled, BookIn
<1>3. CASE UNCHANGED sessions
  BY <1>1, <1>3 DEF Sealing!Next, Sealing!Idle
<1>4. CASE /\ sessions[b] = run[r].head
           /\ sessions' = [sessions EXCEPT ![b] = Append(run[r].head, Publication(r))]
  <2>1. /\ Len(sessions[b]) + 1 = day
        /\ \A s \in NeededOn(day) : run[r].read[s] \in Evidence
    BY <1>1, <1>2, <1>4 DEF Relies
  <2>2. \A s \in NeededOn(day) : stored[s] = run[r].read[s] /\ stored[s] # NoEvidence
    BY <1>2, <2>1, UsedAreSlots, IntegratedAssumption DEF Relies
  <2>3. Publication(r) = [s \in UsedOn(day) |-> stored[s]]
    BY <1>2, <2>2, UsedAreSlots DEF Publication
  <2>4. sessions' = [sessions EXCEPT ![b] = Append(@, [s \in UsedOn(day) |-> stored[s]])]
    BY <1>4, <2>3
  <2>5. Sealing!TakeDay(b)
    BY <1>1, <1>2, <2>1, <2>2, <2>4 DEF Sealing!TakeDay, NeededOn
  <2> QED
    BY <1>2, <2>5 DEF Sealing!Next
<1> QED
  BY <1>3, <1>4 DEF AppendSession

LEMMA StepSeals ==
  ASSUME AllocationInv, PreparedInv, [AllocationNext]_allocationVars
  PROVE  Sealing!Next
<1>1. CASE UNCHANGED <<stored, registered, sessions>>
  BY <1>1 DEF Sealing!Next, Sealing!Idle
<1>2. ASSUME NEW r \in AllocationRuns, AllocationStep(r)
      PROVE  Sealing!Next
  <2>1. CASE Upload(r)
    <3>1. CASE UNCHANGED stored
      BY <1>1, <2>1, <3>1 DEF Upload
    <3>2. CASE stored' = WithStored(run[r].slot, run[r].evidence)
      BY <2>1, <3>2, SendEntitled, StoringSeals DEF Upload
    <3> QED
      BY <2>1, <3>1, <3>2 DEF Upload
  <2>2. CASE AppendSession(r)
    BY <2>2, AppendTakesDay
  <2>3. CASE ~Upload(r) /\ ~AppendSession(r)
    <3>1. UNCHANGED <<stored, registered, sessions>>
      BY <1>2, <2>3 DEF AllocationStep, Stage, Compare, KeepInOutbox, InsertOutbox, Kept, Replay,
           OpenBook, ReadStored, ReadRetained, WaitForEvidence, Prepare, ReadBack, AllocationFails
    <3> QED
      BY <1>1, <3>1
  <2> QED
    BY <2>1, <2>2, <2>3
<1>3. ASSUME NEW b \in AllocationBooks, Initialize(b)
      PROVE  Sealing!Next
  BY <1>3 DEF Initialize, Sealing!Next, Sealing!Open
<1>4. ASSUME NEW u \in uploads, Arrive(u)
      PROVE  Sealing!Next
  <2>1. u.slot \in EvidenceSlots /\ u.evidence \in EvidenceOf[u.slot[1]]
    BY DEF AllocationInv, Objects, Sealed, PreparedInv
  <2> QED
    BY <1>4, <2>1, StoringSeals DEF Arrive
<1> QED
  BY <1>1, <1>2, <1>3, <1>4 DEF AllocationNext, allocationVars

LEMMA InitSeals == AllocationInit => Sealing!Init
<1> SUFFICES ASSUME AllocationInit PROVE Sealing!Init
  OBVIOUS
<1>1. \A s \in EvidenceSlots : stored[s] \in EvidenceOf[s[1]] \cup {NoEvidence}
  BY DEF AllocationInit
<1> DEFINE For == [s \in EvidenceSlots |-> EvidenceOf[s[1]]]
           All == UNION {For[s] : s \in EvidenceSlots}
<1>2. \A s \in EvidenceSlots : stored[s] \in For[s] \cup {NoEvidence}
  BY <1>1
<1>3. stored \in [EvidenceSlots -> All \cup {NoEvidence}]
  <2>1. \A s \in EvidenceSlots : For[s] \subseteq All
    OBVIOUS
  <2>2. \A s \in EvidenceSlots : stored[s] \in All \cup {NoEvidence}
    BY <1>2, <2>1
  <2> HIDE DEF All
  <2> QED
    BY <2>2 DEF AllocationInit
<1>4. registered \in SUBSET AllocationBooks /\ sessions = [b \in AllocationBooks |-> <<>>]
  BY DEF AllocationInit
<1> QED
  BY <1>2, <1>3, <1>4 DEF Sealing!Init

\* Staging calls and replays that race, fail, repeat and are late seal every
\* evidence once, with one prepared for it, and take the days of each
\* initialized book in order from what is sealed: they implement the books of
\* sealed evidence.
THEOREM AllocationImplementsBooks == AllocationSpec => ImplementsEvidenceBooks
<1>1. AllocationSpec => [](AllocationInv /\ PreparedInv)
  BY InitSound, StepSound, InitPrepared, StepPrepared, PTL DEF AllocationSpec
<1>2. AllocationInv /\ PreparedInv /\ [AllocationNext]_allocationVars
        => [Sealing!Next]_<<stored, registered, sessions>>
  BY StepSeals
<1> QED
  BY <1>1, <1>2, InitSeals, PTL DEF AllocationSpec, ImplementsEvidenceBooks, Sealing!Spec

-----------------------------------------------------------------------------
(* One allocation book: its inductive invariant.                           *)

\* What a sleeve is made of.
SleeveStates(m) ==
  [cash : Nat, nav : Nat \cup {None}, sized : Nat \cup {None}, shares : [ListedIn[m] -> Nat],
   orders : SUBSET Orders, exits : SUBSET ListedIn[m],
   onsets : SUBSET [symbol : ListedIn[m], day : AllocationBookDays],
   windows : SUBSET Windows, observed : SUBSET AllocationBookDays,
   sold : SUBSET ListedIn[m], flow : Int]

\* A stock has one order; a Korean one is not held meanwhile; and an order comes
\* from an onset after every closed holding of its stock.
OrdersInv(sl, m) ==
  /\ \A o, p \in sl.orders : o.symbol = p.symbol => o = p
  /\ \A o \in sl.orders :
       /\ o.symbol \in ListedIn[m] /\ o.symbol \notin sl.exits
       /\ m # "U" => sl.shares[o.symbol] = 0
       /\ \A w \in sl.windows : w.symbol = o.symbol /\ w.exit # 0 => w.exit < o.origin

\* The holding windows of a sleeve tell what it holds.
WindowsInv(sl, m, day) ==
  /\ \A s \in ListedIn[m] : sl.shares[s] > 0 <=> \E w \in sl.windows : w.symbol = s /\ w.exit = 0
  /\ \A w \in sl.windows : w.entry <= day
  /\ \A w, v \in sl.windows :
       w.symbol = v.symbol /\ w.entry < v.entry => w.exit # 0 /\ w.exit < v.origin

SleeveInv(sl, m, share, day) ==
  /\ share = 0 => sl.orders = {}
  /\ \A s \in sl.exits : sl.shares[s] > 0
  /\ OrdersInv(sl, m) /\ WindowsInv(sl, m, day)

\* The states a sleeve goes through on a day whose trading starts with the
\* given difference between its cash and what it has traded.
SleeveDay(m, share, day, start) ==
  {sl \in SleeveStates(m) : SleeveInv(sl, m, share, day) /\ sl.cash - sl.flow = start}

Targets == [den : Nat \ {0}, of : [K : Nat, E : Nat, U : Nat, C : Nat]]

AllocationBookInv ==
  /\ kind \in {"O1", "S07"} /\ allocationDay \in 0 .. LastAllocationDay
  /\ central \in Nat /\ target \in Targets
  /\ sleeve = [K |-> sleeve.K, E |-> sleeve.E, U |-> sleeve.U]
  /\ \A m \in Sleeves :
       /\ sleeve[m] \in SleeveStates(m) /\ SleeveInv(sleeve[m], m, target.of[m], allocationDay)
       /\ sleeve[m].sold = {}
  /\ delivered \subseteq [market : Sleeves, symbol : Listed, origin : AllocationBookDays,
                         confirmed : AllocationBookDays]
  /\ transfers \in [taken : [K : Nat, E : Nat, U : Nat], given : [K : Nat, E : Nat, U : Nat]]
  /\ MoneyIsKept /\ OrdersKeepTheirMoney

-----------------------------------------------------------------------------
(* Folds over finite sets of stocks.  The recursion of a fold is given the *)
(* set G that its steps stay in; a session folds five operators and two    *)
(* sums, and each needs a lemma of its own, because a fact about a LAMBDA  *)
(* cannot be instantiated.                                                 *)

LEMMA LeastNumber ==
  ASSUME NEW T \in SUBSET Nat, T # {}
  PROVE  \E m \in T : \A x \in T : m <= x
<1>1. PICK m \in T : \A x \in T : ~ (<<x, m>> \in OpToRel(<, Nat))
  BY NatLessThanWellFounded, WFMin
<1>2. \A x \in T : ~ (x < m)
  BY <1>1 DEF OpToRel
<1>3. m \in Nat /\ \A x \in T : x \in Nat
  OBVIOUS
<1> QED
  BY <1>2, <1>3

SomeOf(T) == CHOOSE x \in T : TRUE
SmallSets(S, n) == {T \in SUBSET S : Cardinality(T) <= n}
\* The states after each of the stocks T has had its turn.
FoldsTo(f, sets, base, step) ==
  f = [T \in sets |-> IF T = {} THEN base ELSE step[<<SomeOf(T), f[T \ {SomeOf(T)}]>>]]

LEMMA SomeOfIn ==
  ASSUME NEW S, IsFiniteSet(S), NEW T \in SUBSET S, T # {}
  PROVE  /\ SomeOf(T) \in T /\ T \ {SomeOf(T)} \in SUBSET S
         /\ Cardinality(T) \in Nat /\ Cardinality(T \ {SomeOf(T)}) = Cardinality(T) - 1
<1>1. SomeOf(T) \in T
  BY DEF SomeOf
<1>2. IsFiniteSet(T)
  BY FS_Subset
<1> QED
  BY <1>1, <1>2, FS_RemoveElement, FS_CardinalityType

\* The recursion of a fold has a solution.
LEMMA FoldExists ==
  ASSUME NEW S, IsFiniteSet(S), NEW G, NEW base \in G, NEW step \in [S \X G -> G]
  PROVE  \E f \in [SUBSET S -> G] : FoldsTo(f, SUBSET S, base, step)
<1> DEFINE Fails == {n \in Nat : \A f \in [SmallSets(S, n) -> G] :
                                     ~FoldsTo(f, SmallSets(S, n), base, step)}
<1>1. ASSUME Fails # {} PROVE FALSE
  <2>1. PICK n \in Fails : \A x \in Fails : n <= x
    <3>1. Fails \in SUBSET Nat
      OBVIOUS
    <3> QED
      BY <3>1, <1>1, LeastNumber
  <2>2. n # 0
    <3> DEFINE f == [T \in SmallSets(S, 0) |-> base]
    <3>1. SUFFICES ASSUME n = 0 PROVE FALSE
      OBVIOUS
    <3>2. \A T \in SmallSets(S, 0) : T = {}
      <4> TAKE T \in SmallSets(S, 0)
      <4>1. IsFiniteSet(T) /\ Cardinality(T) <= 0 /\ Cardinality(T) \in Nat
        BY FS_Subset, FS_CardinalityType DEF SmallSets
      <4> QED
        BY <4>1, FS_EmptySet
    <3>3. f \in [SmallSets(S, 0) -> G]
      OBVIOUS
    <3>4. FoldsTo(f, SmallSets(S, 0), base, step)
      BY <3>2 DEF FoldsTo
    <3> QED
      BY <3>1, <3>3, <3>4
  <2>3. n - 1 \in Nat /\ n - 1 \notin Fails
    BY <2>1, <2>2
  <2>4. PICK f \in [SmallSets(S, n - 1) -> G] : FoldsTo(f, SmallSets(S, n - 1), base, step)
    BY <2>3
  <2> DEFINE g == [T \in SmallSets(S, n) |->
                     IF T = {} THEN base ELSE step[<<SomeOf(T), f[T \ {SomeOf(T)}]>>]]
  <2>5. ASSUME NEW T \in SmallSets(S, n), T # {}
        PROVE  /\ SomeOf(T) \in S /\ T \ {SomeOf(T)} \in SmallSets(S, n - 1)
               /\ T \ {SomeOf(T)} \in SmallSets(S, n)
    <3>1. T \in SUBSET S /\ Cardinality(T) <= n
      BY DEF SmallSets
    <3>2. /\ SomeOf(T) \in T /\ T \ {SomeOf(T)} \in SUBSET S
          /\ Cardinality(T) \in Nat /\ Cardinality(T \ {SomeOf(T)}) = Cardinality(T) - 1
      BY <3>1, <2>5, SomeOfIn
    <3> HIDE DEF Fails
    <3>3. n \in Nat
      BY <2>1 DEF Fails
    <3> QED
      BY <3>1, <3>2, <3>3 DEF SmallSets
  <2>6. g \in [SmallSets(S, n) -> G]
    <3>1. \A T \in SmallSets(S, n) : T # {} => f[T \ {SomeOf(T)}] \in G
      BY <2>4, <2>5
    <3>2. \A T \in SmallSets(S, n) :
            T # {} => <<SomeOf(T), f[T \ {SomeOf(T)}]>> \in S \X G
      BY <2>5, <3>1
    <3> QED
      BY <3>2
  <2>7. \A U \in SmallSets(S, n - 1) : U \in SmallSets(S, n) => f[U] = g[U]
    BY <2>4 DEF FoldsTo
  <2>8. \A T \in SmallSets(S, n) : T # {} => f[T \ {SomeOf(T)}] = g[T \ {SomeOf(T)}]
    BY <2>5, <2>7
  <2>9. FoldsTo(g, SmallSets(S, n), base, step)
    <3> HIDE DEF g
    <3>1. g = [T \in SmallSets(S, n) |->
                 IF T = {} THEN base ELSE step[<<SomeOf(T), f[T \ {SomeOf(T)}]>>]]
      BY DEF g
    <3> QED
      BY <3>1, <2>8 DEF FoldsTo
  <2>10. n \in Fails
    BY <2>1
  <2> QED
    BY <2>6, <2>9, <2>10
<1>2. SmallSets(S, Cardinality(S)) = SUBSET S
  <2>1. \A T \in SUBSET S : Cardinality(T) <= Cardinality(S)
    BY FS_Subset
  <2> QED
    BY <2>1 DEF SmallSets
<1>3. Cardinality(S) \in Nat
  BY FS_CardinalityType
<1>4. Cardinality(S) \notin Fails
  BY <1>1
<1> QED
  BY <1>2, <1>3, <1>4

\* Whatever every turn preserves holds at the end of a fold.
LEMMA FoldPreserves ==
  ASSUME NEW S, IsFiniteSet(S), NEW G, NEW f, f[{}] \in G,
         \A T \in SUBSET S : T # {} /\ f[T \ {SomeOf(T)}] \in G => f[T] \in G
  PROVE  f[S] \in G
<1> DEFINE Fails == {n \in Nat : \E T \in SUBSET S : Cardinality(T) = n /\ f[T] \notin G}
<1>1. SUFFICES ASSUME Fails # {} PROVE FALSE
  <2>1. Cardinality(S) \in Nat
    BY FS_CardinalityType
  <2> QED
    BY <2>1
<1>2. PICK n \in Fails : \A x \in Fails : n <= x
  <2>1. Fails \in SUBSET Nat
    OBVIOUS
  <2> QED
    BY <2>1, <1>1, LeastNumber
<1>3. PICK T \in SUBSET S : Cardinality(T) = n /\ f[T] \notin G
  BY <1>2
<1>4. T # {}
  BY <1>3
<1>5. /\ T \ {SomeOf(T)} \in SUBSET S /\ Cardinality(T) \in Nat
      /\ Cardinality(T \ {SomeOf(T)}) = Cardinality(T) - 1
  BY <1>4, SomeOfIn
<1>6. n \in Nat /\ n - 1 \notin Fails
  BY <1>2
<1>7. n # 0
  <2>1. IsFiniteSet(T)
    BY FS_Subset
  <2> QED
    BY <2>1, <1>3, <1>4, FS_EmptySet
<1>8. n - 1 \in Nat
  BY <1>6, <1>7
<1>9. f[T \ {SomeOf(T)}] \in G
  BY <1>3, <1>5, <1>6, <1>8
<1> QED
  BY <1>3, <1>4, <1>9

-----------------------------------------------------------------------------

\* What every forced exit at the open preserves holds after all of them.
LEMMA ForcedOpenPhase ==
  ASSUME NEW S, IsFiniteSet(S), NEW G, NEW sl \in G, NEW quotes, NEW day,
         \A s \in S : \A a \in G : Forced(a, s, quotes[s].forcedOpen, day) \in G
  PROVE  ForcedAtOpen(sl, S, quotes, day) \in G
<1> DEFINE step == [p \in S \X G |-> Forced(p[2], p[1], quotes[p[1]].forcedOpen, day)]
           Eq(f) == f = [T \in SUBSET S |->
                           IF T = {} THEN sl
                           ELSE LET x == CHOOSE x \in T : TRUE IN
                                Forced(f[T \ {x}], x, quotes[x].forcedOpen, day)]
           iter == CHOOSE f : Eq(f)
<1>1. step \in [S \X G -> G]
  OBVIOUS
<1>2. PICK f \in [SUBSET S -> G] : FoldsTo(f, SUBSET S, sl, step)
  BY <1>1, FoldExists
<1>3. \A T \in SUBSET S : T # {} => SomeOf(T) \in S /\ T \ {SomeOf(T)} \in SUBSET S
  BY SomeOfIn
<1>4. \A T \in SUBSET S : T # {} =>
        LET x == SomeOf(T) IN step[<<x, f[T \ {x}]>>] = Forced(f[T \ {x}], x, quotes[x].forcedOpen, day)
  BY <1>3
<1>5. Eq(f)
  <2> HIDE DEF step
  <2> QED
    BY <1>2, <1>4 DEF FoldsTo, SomeOf
<1>6. Eq(iter)
  BY <1>5
<1>7. ForcedAtOpen(sl, S, quotes, day) = iter[S]
  BY DEF ForcedAtOpen, FoldSet, MapThenFoldSet
<1> HIDE DEF iter, step
<1>8. iter[{}] \in G
  BY <1>6
<1>9. \A T \in SUBSET S : T # {} /\ iter[T \ {SomeOf(T)}] \in G => iter[T] \in G
  <2> SUFFICES ASSUME NEW T \in SUBSET S, T # {}, NEW x, x = SomeOf(T), iter[T \ {x}] \in G
               PROVE  iter[T] \in G
    OBVIOUS
  <2>1. iter[T] = Forced(iter[T \ {x}], x, quotes[x].forcedOpen, day)
    BY <1>6 DEF SomeOf
  <2>2. x \in S
    BY <1>3
  <2> QED
    BY <2>1, <2>2
<1> QED
  BY <1>7, <1>8, <1>9, FoldPreserves

\* What every forced exit at the close preserves holds after all of them.
LEMMA ForcedClosePhase ==
  ASSUME NEW S, IsFiniteSet(S), NEW G, NEW sl \in G, NEW quotes, NEW day,
         \A s \in S : \A a \in G : Forced(a, s, quotes[s].forcedClose, day) \in G
  PROVE  ForcedAtClose(sl, S, quotes, day) \in G
<1> DEFINE step == [p \in S \X G |-> Forced(p[2], p[1], quotes[p[1]].forcedClose, day)]
           Eq(f) == f = [T \in SUBSET S |->
                           IF T = {} THEN sl
                           ELSE LET x == CHOOSE x \in T : TRUE IN
                                Forced(f[T \ {x}], x, quotes[x].forcedClose, day)]
           iter == CHOOSE f : Eq(f)
<1>1. step \in [S \X G -> G]
  OBVIOUS
<1>2. PICK f \in [SUBSET S -> G] : FoldsTo(f, SUBSET S, sl, step)
  BY <1>1, FoldExists
<1>3. \A T \in SUBSET S : T # {} => SomeOf(T) \in S /\ T \ {SomeOf(T)} \in SUBSET S
  BY SomeOfIn
<1>4. \A T \in SUBSET S : T # {} =>
        LET x == SomeOf(T) IN step[<<x, f[T \ {x}]>>] = Forced(f[T \ {x}], x, quotes[x].forcedClose, day)
  BY <1>3
<1>5. Eq(f)
  <2> HIDE DEF step
  <2> QED
    BY <1>2, <1>4 DEF FoldsTo, SomeOf
<1>6. Eq(iter)
  BY <1>5
<1>7. ForcedAtClose(sl, S, quotes, day) = iter[S]
  BY DEF ForcedAtClose, FoldSet, MapThenFoldSet
<1> HIDE DEF iter, step
<1>8. iter[{}] \in G
  BY <1>6
<1>9. \A T \in SUBSET S : T # {} /\ iter[T \ {SomeOf(T)}] \in G => iter[T] \in G
  <2> SUFFICES ASSUME NEW T \in SUBSET S, T # {}, NEW x, x = SomeOf(T), iter[T \ {x}] \in G
               PROVE  iter[T] \in G
    OBVIOUS
  <2>1. iter[T] = Forced(iter[T \ {x}], x, quotes[x].forcedClose, day)
    BY <1>6 DEF SomeOf
  <2>2. x \in S
    BY <1>3
  <2> QED
    BY <2>1, <2>2
<1> QED
  BY <1>7, <1>8, <1>9, FoldPreserves

\* What every planned exit preserves holds after all of them.
LEMMA ExitPhase ==
  ASSUME NEW S, IsFiniteSet(S), NEW G, NEW sl \in G, NEW quotes, NEW day, NEW m,
         \A s \in S : \A a \in G : Exited(a, m, s, quotes[s], day) \in G
  PROVE  AllExited(sl, S, quotes, day, m) \in G
<1> DEFINE step == [p \in S \X G |-> Exited(p[2], m, p[1], quotes[p[1]], day)]
           Eq(f) == f = [T \in SUBSET S |->
                           IF T = {} THEN sl
                           ELSE LET x == CHOOSE x \in T : TRUE IN
                                Exited(f[T \ {x}], m, x, quotes[x], day)]
           iter == CHOOSE f : Eq(f)
<1>1. step \in [S \X G -> G]
  OBVIOUS
<1>2. PICK f \in [SUBSET S -> G] : FoldsTo(f, SUBSET S, sl, step)
  BY <1>1, FoldExists
<1>3. \A T \in SUBSET S : T # {} => SomeOf(T) \in S /\ T \ {SomeOf(T)} \in SUBSET S
  BY SomeOfIn
<1>4. \A T \in SUBSET S : T # {} =>
        LET x == SomeOf(T) IN step[<<x, f[T \ {x}]>>] = Exited(f[T \ {x}], m, x, quotes[x], day)
  BY <1>3
<1>5. Eq(f)
  <2> HIDE DEF step
  <2> QED
    BY <1>2, <1>4 DEF FoldsTo, SomeOf
<1>6. Eq(iter)
  BY <1>5
<1>7. AllExited(sl, S, quotes, day, m) = iter[S]
  BY DEF AllExited, FoldSet, MapThenFoldSet
<1> HIDE DEF iter, step
<1>8. iter[{}] \in G
  BY <1>6
<1>9. \A T \in SUBSET S : T # {} /\ iter[T \ {SomeOf(T)}] \in G => iter[T] \in G
  <2> SUFFICES ASSUME NEW T \in SUBSET S, T # {}, NEW x, x = SomeOf(T), iter[T \ {x}] \in G
               PROVE  iter[T] \in G
    OBVIOUS
  <2>1. iter[T] = Exited(iter[T \ {x}], m, x, quotes[x], day)
    BY <1>6 DEF SomeOf
  <2>2. x \in S
    BY <1>3
  <2> QED
    BY <2>1, <2>2
<1> QED
  BY <1>7, <1>8, <1>9, FoldPreserves

\* What every entry preserves holds after all of them.
LEMMA EntryPhase ==
  ASSUME NEW S, IsFiniteSet(S), NEW G, NEW sl \in G, NEW quotes, NEW day, NEW m,
         \A s \in S : \A a \in G : Entered(a, m, s, quotes[s], day) \in G
  PROVE  AllEntered(sl, S, quotes, day, m) \in G
<1> DEFINE step == [p \in S \X G |-> Entered(p[2], m, p[1], quotes[p[1]], day)]
           Eq(f) == f = [T \in SUBSET S |->
                           IF T = {} THEN sl
                           ELSE LET x == CHOOSE x \in T : TRUE IN
                                Entered(f[T \ {x}], m, x, quotes[x], day)]
           iter == CHOOSE f : Eq(f)
<1>1. step \in [S \X G -> G]
  OBVIOUS
<1>2. PICK f \in [SUBSET S -> G] : FoldsTo(f, SUBSET S, sl, step)
  BY <1>1, FoldExists
<1>3. \A T \in SUBSET S : T # {} => SomeOf(T) \in S /\ T \ {SomeOf(T)} \in SUBSET S
  BY SomeOfIn
<1>4. \A T \in SUBSET S : T # {} =>
        LET x == SomeOf(T) IN step[<<x, f[T \ {x}]>>] = Entered(f[T \ {x}], m, x, quotes[x], day)
  BY <1>3
<1>5. Eq(f)
  <2> HIDE DEF step
  <2> QED
    BY <1>2, <1>4 DEF FoldsTo, SomeOf
<1>6. Eq(iter)
  BY <1>5
<1>7. AllEntered(sl, S, quotes, day, m) = iter[S]
  BY DEF AllEntered, FoldSet, MapThenFoldSet
<1> HIDE DEF iter, step
<1>8. iter[{}] \in G
  BY <1>6
<1>9. \A T \in SUBSET S : T # {} /\ iter[T \ {SomeOf(T)}] \in G => iter[T] \in G
  <2> SUFFICES ASSUME NEW T \in SUBSET S, T # {}, NEW x, x = SomeOf(T), iter[T \ {x}] \in G
               PROVE  iter[T] \in G
    OBVIOUS
  <2>1. iter[T] = Entered(iter[T \ {x}], m, x, quotes[x], day)
    BY <1>6 DEF SomeOf
  <2>2. x \in S
    BY <1>3
  <2> QED
    BY <2>1, <2>2
<1> QED
  BY <1>7, <1>8, <1>9, FoldPreserves

\* What every signal preserves holds after all of them.
LEMMA SignalPhase ==
  ASSUME NEW S, IsFiniteSet(S), NEW G, NEW sl \in G, NEW quotes, NEW day, NEW m, NEW shares,
         NEW confirmed,
         \A s \in S : \A a \in G : Signalled(a, m, shares, s, quotes[s], day, confirmed) \in G
  PROVE  AllSignalled(sl, S, quotes, day, m, shares, confirmed) \in G
<1> DEFINE step == [p \in S \X G |-> Signalled(p[2], m, shares, p[1], quotes[p[1]], day, confirmed)]
           Eq(f) == f = [T \in SUBSET S |->
                           IF T = {} THEN sl
                           ELSE LET x == CHOOSE x \in T : TRUE IN
                                Signalled(f[T \ {x}], m, shares, x, quotes[x], day, confirmed)]
           iter == CHOOSE f : Eq(f)
<1>1. step \in [S \X G -> G]
  OBVIOUS
<1>2. PICK f \in [SUBSET S -> G] : FoldsTo(f, SUBSET S, sl, step)
  BY <1>1, FoldExists
<1>3. \A T \in SUBSET S : T # {} => SomeOf(T) \in S /\ T \ {SomeOf(T)} \in SUBSET S
  BY SomeOfIn
<1>4. \A T \in SUBSET S : T # {} =>
        LET x == SomeOf(T) IN
        step[<<x, f[T \ {x}]>>] = Signalled(f[T \ {x}], m, shares, x, quotes[x], day, confirmed)
  BY <1>3
<1>5. Eq(f)
  <2> HIDE DEF step
  <2> QED
    BY <1>2, <1>4 DEF FoldsTo, SomeOf
<1>6. Eq(iter)
  BY <1>5
<1>7. AllSignalled(sl, S, quotes, day, m, shares, confirmed) = iter[S]
  BY DEF AllSignalled, FoldSet, MapThenFoldSet
<1> HIDE DEF iter, step
<1>8. iter[{}] \in G
  BY <1>6
<1>9. \A T \in SUBSET S : T # {} /\ iter[T \ {SomeOf(T)}] \in G => iter[T] \in G
  <2> SUFFICES ASSUME NEW T \in SUBSET S, T # {}, NEW x, x = SomeOf(T), iter[T \ {x}] \in G
               PROVE  iter[T] \in G
    OBVIOUS
  <2>1. iter[T] = Signalled(iter[T \ {x}], m, shares, x, quotes[x], day, confirmed)
    BY <1>6 DEF SomeOf
  <2>2. x \in S
    BY <1>3
  <2> QED
    BY <2>1, <2>2
<1> QED
  BY <1>7, <1>8, <1>9, FoldPreserves

ValueOf(S, sl, quotes) ==
  MapThenSumSet(LAMBDA s : sl.shares[s] * quotes[s].close, S)

\* The value of what is held is a number.
LEMMA ValueIsNat ==
  ASSUME NEW S, IsFiniteSet(S), NEW sl, NEW quotes, \A s \in S : sl.shares[s] * quotes[s].close \in Nat
  PROVE  ValueOf(S, sl, quotes) \in Nat
<1> DEFINE step == [p \in S \X Nat |-> (sl.shares[p[1]] * quotes[p[1]].close) + p[2]]
           Eq(f) == f = [T \in SUBSET S |->
                           IF T = {} THEN 0
                           ELSE LET x == CHOOSE x \in T : TRUE IN
                                (sl.shares[x] * quotes[x].close) + f[T \ {x}]]
           iter == CHOOSE f : Eq(f)
<1>1. step \in [S \X Nat -> Nat]
  <2>1. \A p \in S \X Nat : sl.shares[p[1]] * quotes[p[1]].close \in Nat /\ p[2] \in Nat
    OBVIOUS
  <2> QED
    BY <2>1
<1>2. PICK f \in [SUBSET S -> Nat] : FoldsTo(f, SUBSET S, 0, step)
  BY <1>1, FoldExists
<1>3. \A T \in SUBSET S : T # {} => SomeOf(T) \in S /\ T \ {SomeOf(T)} \in SUBSET S
  BY SomeOfIn
<1>4. \A T \in SUBSET S : T # {} =>
        LET x == SomeOf(T) IN step[<<x, f[T \ {x}]>>] = (sl.shares[x] * quotes[x].close) + f[T \ {x}]
  BY <1>3
<1>5. Eq(f)
  <2> HIDE DEF step
  <2> QED
    BY <1>2, <1>4 DEF FoldsTo, SomeOf
<1>6. Eq(iter)
  BY <1>5
<1>7. ValueOf(S, sl, quotes) = iter[S]
  BY DEF ValueOf, MapThenSumSet, MapThenFoldSet
<1> HIDE DEF iter, step
<1>8. iter[{}] \in Nat
  BY <1>6
<1>9. \A T \in SUBSET S : T # {} /\ iter[T \ {SomeOf(T)}] \in Nat => iter[T] \in Nat
  <2> TAKE T \in SUBSET S
  <2>1. T # {} => iter[T] = LET x == SomeOf(T) IN (sl.shares[x] * quotes[x].close) + iter[T \ {x}]
    BY <1>3, <1>6 DEF SomeOf
  <2>2. T # {} => LET x == SomeOf(T) IN sl.shares[x] * quotes[x].close \in Nat
    BY <1>3
  <2> QED
    BY <2>1, <2>2
<1> QED
  BY <1>7, <1>8, <1>9, FoldPreserves

NeedOf(S, m) ==
  MapThenSumSet(LAMBDA s : s.budget + (IF m = "U" THEN Fee(s.budget) ELSE 0), S)

\* What orders need is a number.
LEMMA NeedIsNat ==
  ASSUME NEW S, IsFiniteSet(S), NEW m,
         \A s \in S : s.budget + (IF m = "U" THEN Fee(s.budget) ELSE 0) \in Nat
  PROVE  NeedOf(S, m) \in Nat
<1> DEFINE step == [p \in S \X Nat |-> (p[1].budget + (IF m = "U" THEN Fee(p[1].budget) ELSE 0)) + p[2]]
           Eq(f) == f = [T \in SUBSET S |->
                           IF T = {} THEN 0
                           ELSE LET x == CHOOSE x \in T : TRUE IN
                                (x.budget + (IF m = "U" THEN Fee(x.budget) ELSE 0)) + f[T \ {x}]]
           iter == CHOOSE f : Eq(f)
<1>1. step \in [S \X Nat -> Nat]
  <2>1. \A p \in S \X Nat :
          p[1].budget + (IF m = "U" THEN Fee(p[1].budget) ELSE 0) \in Nat /\ p[2] \in Nat
    OBVIOUS
  <2> QED
    BY <2>1
<1>2. PICK f \in [SUBSET S -> Nat] : FoldsTo(f, SUBSET S, 0, step)
  BY <1>1, FoldExists
<1>3. \A T \in SUBSET S : T # {} => SomeOf(T) \in S /\ T \ {SomeOf(T)} \in SUBSET S
  BY SomeOfIn
<1>4. \A T \in SUBSET S : T # {} =>
        LET x == SomeOf(T) IN
        step[<<x, f[T \ {x}]>>] = (x.budget + (IF m = "U" THEN Fee(x.budget) ELSE 0)) + f[T \ {x}]
  BY <1>3
<1>5. Eq(f)
  <2> HIDE DEF step
  <2> QED
    BY <1>2, <1>4 DEF FoldsTo, SomeOf
<1>6. Eq(iter)
  BY <1>5
<1>7. NeedOf(S, m) = iter[S]
  BY DEF NeedOf, MapThenSumSet, MapThenFoldSet
<1> HIDE DEF iter, step
<1>8. iter[{}] \in Nat
  BY <1>6
<1>9. \A T \in SUBSET S : T # {} /\ iter[T \ {SomeOf(T)}] \in Nat => iter[T] \in Nat
  <2> TAKE T \in SUBSET S
  <2>1. T # {} => iter[T] = LET x == SomeOf(T) IN
                            (x.budget + (IF m = "U" THEN Fee(x.budget) ELSE 0)) + iter[T \ {x}]
    BY <1>3, <1>6 DEF SomeOf
  <2>2. T # {} => LET x == SomeOf(T) IN x.budget + (IF m = "U" THEN Fee(x.budget) ELSE 0) \in Nat
    BY <1>3
  <2> QED
    BY <2>1, <2>2
<1> QED
  BY <1>7, <1>8, <1>9, FoldPreserves

-----------------------------------------------------------------------------
(* Money.                                                                  *)

LEMMA Quotient ==
  ASSUME NEW a \in Nat, NEW b \in Nat, b > 0
  PROVE  a \div b \in Nat /\ b * (a \div b) <= a /\ a < b * (a \div b) + b
  OBVIOUS

LEMMA ProductOrder ==
  ASSUME NEW a \in Int, NEW b \in Int, NEW n \in Nat, a <= b
  PROVE  n * a <= n * b /\ n * a \in Int /\ n * b \in Int
  OBVIOUS

LEMMA FactorOrder ==
  ASSUME NEW a \in Int, NEW b \in Int, NEW n \in Nat, n > 0, n * a < n * b
  PROVE  a < b
<1> SUFFICES ASSUME b <= a PROVE FALSE
  OBVIOUS
<1> QED
  BY ProductOrder

LEMMA FeeParted == FeeParts \in Nat /\ FeeParts > 0
  BY AllocationBookAssumption

\* The fee of a trade is at most its amount.
LEMMA FeeBounds ==
  ASSUME NEW g \in Nat
  PROVE  Fee(g) \in Nat /\ Fee(g) <= g /\ FeeParts * Fee(g) < g + FeeParts
<1> DEFINE f == Fee(g)
<1>1. f \in Nat /\ FeeParts * f <= g + FeeParts - 1
  BY FeeParted, Quotient DEF Fee
<1>2. FeeParts * f \in Nat /\ FeeParts * f < g + FeeParts
  BY <1>1, FeeParted
<1>3. FeeParts * g >= g /\ FeeParts * g \in Nat
  BY FeeParted
<1>4. FeeParts * (g + 1) = FeeParts * g + FeeParts
  BY FeeParted
<1>5. FeeParts * f < FeeParts * (g + 1)
  BY <1>2, <1>3, <1>4, FeeParted
<1>6. f < g + 1
  BY <1>1, <1>5, FactorOrder, FeeParted
<1> QED
  BY <1>1, <1>2, <1>6

\* What is bought is paid with its fee.
LEMMA AffordablePaid ==
  ASSUME NEW money \in Nat, NEW price \in Nat, price > 0, NEW n \in Nat, n <= Affordable(money, price)
  PROVE  n * price \in Nat /\ n * price + Fee(n * price) <= money
<1> DEFINE F == FeeParts
           unit == price * (F + 1)
           g == n * price
<1>1. money * F \in Nat /\ unit \in Nat /\ unit > 0 /\ F \in Nat /\ F > 0
  BY FeeParted
<1>2. Affordable(money, price) \in Nat /\ unit * Affordable(money, price) <= money * F
  BY <1>1, Quotient DEF Affordable
<1>3. unit * n <= money * F
  BY <1>1, <1>2, ProductOrder
<1>4. g \in Nat /\ unit * n = g * F + g /\ g * F \in Nat
  BY <1>1
<1>5. Fee(g) \in Nat /\ F * Fee(g) < g + F
  BY <1>4, FeeBounds
<1>6. F * (g + Fee(g)) = g * F + F * Fee(g) /\ F * (money + 1) = money * F + F
  BY <1>1, <1>4, <1>5
<1>7. F * Fee(g) \in Nat
  BY <1>1, <1>5
<1>8. F * (g + Fee(g)) < F * (money + 1)
  BY <1>1, <1>3, <1>4, <1>5, <1>6, <1>7
<1>9. g + Fee(g) < money + 1
  BY <1>1, <1>4, <1>5, <1>8, FactorOrder
<1> QED
  BY <1>4, <1>5, <1>9

LEMMA AffordableNat ==
  ASSUME NEW money \in Nat, NEW price \in Nat, price > 0
  PROVE  Affordable(money, price) \in Nat
<1>1. money * FeeParts \in Nat /\ price * (FeeParts + 1) \in Nat /\ price * (FeeParts + 1) > 0
  BY FeeParted
<1> QED
  BY <1>1, Quotient DEF Affordable

-----------------------------------------------------------------------------
(* One trade or order at a time.                                           *)

LEMMA DaysAreNat == AllocationBookDays \subseteq Nat /\ \A d \in AllocationBookDays : d > 0
  BY AllocationBookAssumption DEF AllocationBookDays

LEMMA OfSleeveDay ==
  ASSUME NEW m, NEW share, NEW day, NEW start, NEW sl
  PROVE  sl \in SleeveDay(m, share, day, start) <=>
           sl \in SleeveStates(m) /\ SleeveInv(sl, m, share, day) /\ sl.cash - sl.flow = start
  BY DEF SleeveDay

\* A sleeve is the record of its parts.
LEMMA SleeveRecord ==
  ASSUME NEW m, NEW sl \in SleeveStates(m)
  PROVE  sl = [cash |-> sl.cash, nav |-> sl.nav, sized |-> sl.sized, shares |-> sl.shares,
               orders |-> sl.orders, exits |-> sl.exits, onsets |-> sl.onsets,
               windows |-> sl.windows, observed |-> sl.observed, sold |-> sl.sold,
               flow |-> sl.flow]
  BY DEF SleeveStates

LEMMA SleeveParts ==
  ASSUME NEW m, NEW sl \in SleeveStates(m)
  PROVE  /\ sl.cash \in Nat /\ sl.nav \in Nat \cup {None} /\ sl.sized \in Nat \cup {None}
         /\ sl.shares \in [ListedIn[m] -> Nat] /\ sl.orders \subseteq Orders
         /\ sl.exits \subseteq ListedIn[m]
         /\ sl.onsets \subseteq [symbol : ListedIn[m], day : AllocationBookDays]
         /\ sl.windows \subseteq Windows /\ sl.observed \subseteq AllocationBookDays
         /\ sl.sold \subseteq ListedIn[m] /\ sl.flow \in Int
  BY DEF SleeveStates

LEMMA SleeveOf ==
  ASSUME NEW m, NEW r, NEW cash \in Nat, NEW nav \in Nat \cup {None},
         NEW sized \in Nat \cup {None}, NEW shares \in [ListedIn[m] -> Nat],
         NEW orders, orders \subseteq Orders, NEW exits, exits \subseteq ListedIn[m],
         NEW onsets, onsets \subseteq [symbol : ListedIn[m], day : AllocationBookDays],
         NEW windows, windows \subseteq Windows,
         NEW observed, observed \subseteq AllocationBookDays,
         NEW sold, sold \subseteq ListedIn[m], NEW flow \in Int,
         r = [cash |-> cash, nav |-> nav, sized |-> sized, shares |-> shares, orders |-> orders,
              exits |-> exits, onsets |-> onsets, windows |-> windows, observed |-> observed,
              sold |-> sold, flow |-> flow]
  PROVE  /\ r \in SleeveStates(m)
         /\ r.cash = cash /\ r.nav = nav /\ r.sized = sized /\ r.shares = shares
         /\ r.orders = orders /\ r.exits = exits /\ r.onsets = onsets /\ r.windows = windows
         /\ r.observed = observed /\ r.sold = sold /\ r.flow = flow
  BY DEF SleeveStates

\* What is sold of a stock.
SaleOf(sl, s, limit) == Least(sl.shares[s], limit)
Closing(sl, s, n, day, w) ==
  IF n = sl.shares[s] /\ w.symbol = s /\ w.exit = 0 THEN [w EXCEPT !.exit = day] ELSE w
ClosedWindows(sl, s, n, day) == {Closing(sl, s, n, day, w) : w \in sl.windows}

LEMMA SaleFields ==
  ASSUME NEW m \in Sleeves, NEW day \in AllocationBookDays, NEW sl \in SleeveStates(m),
         NEW s \in ListedIn[m], NEW price \in Nat, NEW limit \in Nat,
         NEW n, n = SaleOf(sl, s, limit), n # 0, NEW r, r = Sold(sl, s, price, limit, day)
  PROVE  /\ n \in Nat /\ n <= sl.shares[s] /\ r \in SleeveStates(m)
         /\ r.cash - r.flow = sl.cash - sl.flow
         /\ \A t \in ListedIn[m] :
              /\ t # s => r.shares[t] = sl.shares[t]
              /\ t = s => r.shares[t] = sl.shares[s] - n
         /\ r.exits \subseteq sl.exits /\ (n = sl.shares[s] => s \notin r.exits)
         /\ r.windows = ClosedWindows(sl, s, n, day)
         /\ r.orders = sl.orders \ OrderOf(sl, s)
<1>1. sl.shares \in [ListedIn[m] -> Nat] /\ sl.cash \in Nat /\ sl.flow \in Int
  BY SleeveParts
<1>2. n \in Nat /\ n <= sl.shares[s]
  BY <1>1 DEF SaleOf, Least
<1>3. PICK p \in Nat : p = n * price - Fee(n * price)
  <2>1. n * price \in Nat
    BY <1>2
  <2> QED
    BY <2>1, FeeBounds
<1>4. ClosedWindows(sl, s, n, day) \subseteq Windows
  <2> SUFFICES ASSUME NEW w \in sl.windows PROVE Closing(sl, s, n, day, w) \in Windows
    BY DEF ClosedWindows
  <2>1. w \in Windows
    BY SleeveParts
  <2> QED
    BY <2>1, AllocationBookAssumption DEF Closing, Windows, AllocationBookDays
<1>5. r = [sl EXCEPT
             !.cash = @ + p, !.flow = @ + p, !.shares[s] = @ - n,
             !.exits = IF n = sl.shares[s] THEN @ \ {s} ELSE @,
             !.windows = {IF n = sl.shares[s] /\ w.symbol = s /\ w.exit = 0
                          THEN [w EXCEPT !.exit = day] ELSE w : w \in @},
             !.orders = @ \ OrderOf(sl, s), !.sold = @ \cup {s}]
  BY <1>3 DEF Sold, SaleOf
<1>6. @ = [sl EXCEPT
             !.cash = @ + p, !.flow = @ + p, !.shares[s] = @ - n,
             !.exits = IF n = sl.shares[s] THEN @ \ {s} ELSE @,
             !.windows = ClosedWindows(sl, s, n, day),
             !.orders = @ \ OrderOf(sl, s), !.sold = @ \cup {s}]
  BY DEF ClosedWindows, Closing
<1>7. r = [sl EXCEPT
             !.cash = sl.cash + p, !.flow = sl.flow + p,
             !.shares = [sl.shares EXCEPT ![s] = sl.shares[s] - n],
             !.exits = IF n = sl.shares[s] THEN sl.exits \ {s} ELSE sl.exits,
             !.windows = ClosedWindows(sl, s, n, day),
             !.orders = sl.orders \ OrderOf(sl, s), !.sold = sl.sold \cup {s}]
  BY <1>5, <1>6
<1> HIDE <1>5, <1>6
<1>8. r = [cash |-> sl.cash + p, nav |-> sl.nav, sized |-> sl.sized,
           shares |-> [sl.shares EXCEPT ![s] = sl.shares[s] - n],
           orders |-> sl.orders \ OrderOf(sl, s),
           exits |-> IF n = sl.shares[s] THEN sl.exits \ {s} ELSE sl.exits,
           onsets |-> sl.onsets, windows |-> ClosedWindows(sl, s, n, day),
           observed |-> sl.observed, sold |-> sl.sold \cup {s}, flow |-> sl.flow + p]
  BY <1>7, SleeveRecord
<1>9. [sl.shares EXCEPT ![s] = sl.shares[s] - n] \in [ListedIn[m] -> Nat]
  BY <1>1, <1>2
<1>10. /\ r \in SleeveStates(m) /\ r.cash = sl.cash + p /\ r.flow = sl.flow + p
       /\ r.shares = [sl.shares EXCEPT ![s] = sl.shares[s] - n]
       /\ r.exits = IF n = sl.shares[s] THEN sl.exits \ {s} ELSE sl.exits
       /\ r.windows = ClosedWindows(sl, s, n, day)
       /\ r.orders = sl.orders \ OrderOf(sl, s)
  <2>1. /\ sl.cash + p \in Nat /\ sl.flow + p \in Int /\ sl.orders \ OrderOf(sl, s) \subseteq Orders
        /\ (IF n = sl.shares[s] THEN sl.exits \ {s} ELSE sl.exits) \subseteq ListedIn[m]
        /\ sl.sold \cup {s} \subseteq ListedIn[m]
    BY <1>1, <1>3, SleeveParts
  <2> QED
    BY <1>4, <1>8, <1>9, <2>1, SleeveOf, SleeveParts
<1>11. r.cash - r.flow = sl.cash - sl.flow
  BY <1>1, <1>3, <1>10
<1>12. /\ \A t \in ListedIn[m] :
             /\ t # s => r.shares[t] = sl.shares[t]
             /\ t = s => r.shares[t] = sl.shares[s] - n
       /\ r.exits \subseteq sl.exits /\ (n = sl.shares[s] => s \notin r.exits)
  BY <1>1, <1>10
<1> QED
  BY <1>2, <1>10, <1>11, <1>12

LEMMA SoldStays ==
  ASSUME NEW m \in Sleeves, NEW share, NEW day \in AllocationBookDays, NEW start,
         NEW sl \in SleeveDay(m, share, day, start),
         NEW s \in ListedIn[m], NEW price \in Nat, NEW limit \in Nat
  PROVE  Sold(sl, s, price, limit, day) \in SleeveDay(m, share, day, start)
<1> DEFINE n == SaleOf(sl, s, limit)
           r == Sold(sl, s, price, limit, day)
<1>1. sl \in SleeveStates(m) /\ SleeveInv(sl, m, share, day) /\ sl.cash - sl.flow = start
  BY OfSleeveDay
<1>2. CASE n = 0
  BY <1>2 DEF Sold, SaleOf
<1>3. CASE n # 0
  <2> HIDE DEF n, r
  <2>1. /\ n \in Nat /\ n <= sl.shares[s] /\ r \in SleeveStates(m)
        /\ r.cash - r.flow = start
        /\ r.exits \subseteq sl.exits /\ (n = sl.shares[s] => s \notin r.exits)
        /\ r.windows = ClosedWindows(sl, s, n, day)
        /\ r.orders = sl.orders \ OrderOf(sl, s)
    BY <1>1, <1>3, SaleFields DEF n, r
  <2>2. /\ sl.shares \in [ListedIn[m] -> Nat] /\ r.shares \in [ListedIn[m] -> Nat]
        /\ \A w \in sl.windows : w \in Windows
        /\ sl.exits \subseteq ListedIn[m] /\ day # 0 /\ day \in Nat
    BY <1>1, <2>1, DaysAreNat, SleeveParts
  <2>3. \A t \in ListedIn[m] :
          /\ t # s => r.shares[t] = sl.shares[t]
          /\ t = s => r.shares[t] = sl.shares[s] - n
    BY <1>1, <1>3, SaleFields DEF n, r
  <2>4. \A w \in sl.windows :
          LET v == Closing(sl, s, n, day, w) IN
          /\ v.symbol = w.symbol /\ v.origin = w.origin /\ v.entry = w.entry
          /\ (w.symbol # s \/ w.exit # 0 \/ n # sl.shares[s]) => v = w
          /\ (w.symbol = s /\ n = sl.shares[s]) => v.exit # 0
    BY <2>2 DEF Closing, Windows
  <2>5. /\ \A v \in r.windows : \E w \in sl.windows : v = Closing(sl, s, n, day, w)
        /\ \A w \in sl.windows : Closing(sl, s, n, day, w) \in r.windows
    BY <2>1 DEF ClosedWindows
  <2>6. share = 0 => r.orders = {}
    BY <1>1, <2>1 DEF SleeveInv
  <2>7. \A t \in r.exits : r.shares[t] > 0
    <3> TAKE t \in r.exits
    <3>1. t \in sl.exits /\ (t = s => n # sl.shares[s])
      BY <2>1
    <3>2. t \in ListedIn[m] /\ sl.shares[t] > 0 /\ sl.shares[t] \in Nat /\ n \in Nat /\ n <= sl.shares[s]
      BY <1>1, <2>1, <2>2, <3>1 DEF SleeveInv
    <3> QED
      BY <2>3, <3>1, <3>2
  <2>8. OrdersInv(r, m)
    <3>1. \A o \in r.orders : o \in sl.orders /\ o.symbol # s
      BY <2>1 DEF OrderOf
    <3>2. ASSUME NEW o \in r.orders
          PROVE  /\ o.symbol \in ListedIn[m] /\ o.symbol \notin r.exits
                 /\ m # "U" => r.shares[o.symbol] = 0
      BY <1>1, <2>1, <2>3, <3>1 DEF SleeveInv, OrdersInv
    <3>3. ASSUME NEW o \in r.orders, NEW v \in r.windows, v.symbol = o.symbol, v.exit # 0
          PROVE  v.exit < o.origin
      <4>1. PICK w \in sl.windows : v = Closing(sl, s, n, day, w)
        BY <2>5
      <4>2. v = w
        BY <2>4, <3>1, <3>3, <4>1
      <4> QED
        BY <1>1, <3>1, <3>3, <4>2 DEF SleeveInv, OrdersInv
    <3> QED
      BY <1>1, <3>1, <3>2, <3>3 DEF SleeveInv, OrdersInv
  <2>9. WindowsInv(r, m, day)
    <3>1. ASSUME NEW t \in ListedIn[m]
          PROVE  r.shares[t] > 0 <=> \E v \in r.windows : v.symbol = t /\ v.exit = 0
      <4>1. sl.shares[t] > 0 <=> \E w \in sl.windows : w.symbol = t /\ w.exit = 0
        BY <1>1 DEF SleeveInv, WindowsInv
      <4>2. CASE t = s /\ n = sl.shares[s]
        <5>1. r.shares[t] = 0
          BY <2>1, <2>3, <4>2
        <5>2. \A v \in r.windows : v.symbol = t => v.exit # 0
          BY <2>4, <2>5, <4>2
        <5> QED
          BY <5>1, <5>2
      <4>3. CASE ~(t = s /\ n = sl.shares[s])
        <5>1. r.shares[t] > 0 <=> sl.shares[t] > 0
          <6>1. sl.shares[t] \in Nat /\ n \in Nat /\ n <= sl.shares[s] /\ n # 0
            BY <1>3, <2>1, <2>2
          <6> QED
            BY <2>3, <4>3, <6>1
        <5>2. (\E v \in r.windows : v.symbol = t /\ v.exit = 0)
                <=> \E w \in sl.windows : w.symbol = t /\ w.exit = 0
          BY <2>4, <2>5, <4>3
        <5> QED
          BY <4>1, <5>1, <5>2
      <4> QED
        BY <4>2, <4>3
    <3>2. \A v \in r.windows : v.entry <= day
      BY <1>1, <2>4, <2>5 DEF SleeveInv, WindowsInv
    <3>3. ASSUME NEW v \in r.windows, NEW u \in r.windows, v.symbol = u.symbol, v.entry < u.entry
          PROVE  v.exit # 0 /\ v.exit < u.origin
      <4>1. PICK w \in sl.windows : v = Closing(sl, s, n, day, w)
        BY <2>5
      <4>2. PICK x \in sl.windows : u = Closing(sl, s, n, day, x)
        BY <2>5
      <4>3. w.exit # 0 /\ w.exit < x.origin
        BY <1>1, <2>4, <3>3, <4>1, <4>2 DEF SleeveInv, WindowsInv
      <4> QED
        BY <2>4, <4>1, <4>2, <4>3
    <3> QED
      BY <3>1, <3>2, <3>3 DEF WindowsInv
  <2>10. r \in SleeveDay(m, share, day, start)
    BY <2>1, <2>6, <2>7, <2>8, <2>9, OfSleeveDay DEF SleeveInv
  <2> QED
    BY <2>10 DEF r
<1> QED
  BY <1>2, <1>3

LEMMA QuoteParts ==
  ASSUME NEW q \in QuoteTypes
  PROVE  /\ q.open \in Nat /\ q.close \in Nat /\ q.size \in Nat
         /\ q.forcedOpen \in Nat /\ q.forcedClose \in Nat
  BY DEF QuoteTypes

LEMMA ForcedStays ==
  ASSUME NEW m \in Sleeves, NEW share, NEW day \in AllocationBookDays, NEW start,
         NEW sl \in SleeveDay(m, share, day, start), NEW s \in ListedIn[m], NEW price \in Nat
  PROVE  Forced(sl, s, price, day) \in SleeveDay(m, share, day, start)
<1>1. sl.shares[s] \in Nat
  BY OfSleeveDay, SleeveParts
<1> QED
  BY <1>1, SoldStays DEF Forced

\* Giving up an exit of what is not held changes nothing that the invariant knows.
LEMMA ExitsDropped ==
  ASSUME NEW m \in Sleeves, NEW share, NEW day \in AllocationBookDays, NEW start,
         NEW sl \in SleeveDay(m, share, day, start), NEW s
  PROVE  [sl EXCEPT !.exits = @ \ {s}] \in SleeveDay(m, share, day, start)
<1> DEFINE r == [sl EXCEPT !.exits = @ \ {s}]
<1>1. sl \in SleeveStates(m) /\ SleeveInv(sl, m, share, day) /\ sl.cash - sl.flow = start
  BY OfSleeveDay
<1>2. /\ r \in SleeveStates(m) /\ r.exits = sl.exits \ {s}
      /\ r.cash = sl.cash /\ r.flow = sl.flow /\ r.shares = sl.shares
      /\ r.orders = sl.orders /\ r.windows = sl.windows
  BY <1>1 DEF SleeveStates
<1> HIDE DEF r
<1>3. SleeveInv(r, m, share, day)
  BY <1>1, <1>2 DEF SleeveInv, OrdersInv, WindowsInv
<1>4. r \in SleeveDay(m, share, day, start)
  BY <1>1, <1>2, <1>3, OfSleeveDay
<1> QED
  BY <1>4 DEF r

LEMMA ExitedStays ==
  ASSUME NEW m \in Sleeves, NEW share, NEW day \in AllocationBookDays, NEW start,
         NEW sl \in SleeveDay(m, share, day, start), NEW s \in ListedIn[m], NEW q \in QuoteTypes
  PROVE  Exited(sl, m, s, q, day) \in SleeveDay(m, share, day, start)
<1>1. sl.shares[s] \in Nat
  BY OfSleeveDay, SleeveParts
<1>2. q.open \in Nat /\ q.size \in Nat
  BY QuoteParts
<1>3. (IF m = "U" THEN q.size ELSE sl.shares[s]) \in Nat
  BY <1>1, <1>2
<1> QED
  BY <1>2, <1>3, SoldStays, ExitsDropped DEF Exited

-----------------------------------------------------------------------------
(* Entries.                                                                *)

WantedBy(m, o, q) ==
  IF m # "U" THEN Affordable(o.budget, q.open)
  ELSE IF o.left = None THEN o.budget \div q.open ELSE o.left

\* What is bought is wanted, within the order's budget, and paid.
LEMMA QuantityBounds ==
  ASSUME NEW m \in Sleeves, NEW sl \in SleeveStates(m), NEW o \in Orders, NEW q \in QuoteTypes,
         q.open > 0, NEW n, n = Quantity(sl, m, o, q)
  PROVE  /\ n \in Nat /\ n * q.open \in Nat /\ n * q.open + Fee(n * q.open) <= sl.cash
         /\ WantedBy(m, o, q) \in Nat
         /\ m = "U" => n <= WantedBy(m, o, q) /\ n * q.open <= o.budget
<1>1. /\ o.budget \in Nat /\ o.left \in Nat \cup {None} /\ sl.cash \in Nat
      /\ q.open \in Nat /\ q.size \in Nat
  BY SleeveParts, QuoteParts DEF Orders
<1>2. WantedBy(m, o, q) \in Nat /\ o.budget \div q.open \in Nat
  BY <1>1, AffordableNat, Quotient DEF WantedBy
<1>3. CASE m # "U"
  <2>1. Least(o.budget, sl.cash) \in Nat /\ Least(o.budget, sl.cash) <= sl.cash
    BY <1>1 DEF Least
  <2>2. n = Affordable(Least(o.budget, sl.cash), q.open)
    BY <1>3 DEF Quantity
  <2>3. n \in Nat
    BY <1>1, <2>1, <2>2, AffordableNat
  <2>4. n * q.open \in Nat /\ n * q.open + Fee(n * q.open) <= Least(o.budget, sl.cash)
    BY <1>1, <2>1, <2>2, <2>3, AffordablePaid
  <2>5. Fee(n * q.open) \in Nat
    BY <2>4, FeeBounds
  <2> QED
    BY <1>1, <1>2, <1>3, <2>1, <2>3, <2>4, <2>5
<1>4. CASE m = "U"
  <2> DEFINE money == Least(o.budget + Fee(o.budget), sl.cash)
             most == Affordable(money, q.open)
             parts == o.budget \div q.open
             some == Least(WantedBy(m, o, q), q.size)
  <2>1. money \in Nat /\ money <= sl.cash
    BY <1>1, FeeBounds DEF Least
  <2> HIDE DEF money
  <2>2. n = Least(some, Least(most, parts))
    BY <1>4 DEF Quantity, WantedBy, money
  <2>3. most \in Nat
    BY <1>1, <2>1, AffordableNat
  <2> HIDE DEF most
  <2>4. parts \in Nat /\ q.open * parts <= o.budget
    BY <1>1, Quotient
  <2> HIDE DEF parts
  <2>5. n \in Nat /\ n <= WantedBy(m, o, q) /\ n <= most /\ n <= parts
    BY <1>1, <1>2, <2>2, <2>3, <2>4 DEF Least
  <2>6. n * q.open \in Nat /\ n * q.open + Fee(n * q.open) <= money
    BY <1>1, <2>1, <2>5, AffordablePaid DEF most
  <2>7. q.open * n <= q.open * parts /\ n * q.open = q.open * n
    BY <1>1, <2>4, <2>5, ProductOrder
  <2>8. Fee(n * q.open) \in Nat
    BY <2>6, FeeBounds
  <2>9. q.open * parts \in Nat
    BY <1>1, <2>4
  <2> QED
    BY <1>1, <1>2, <2>1, <2>4, <2>5, <2>6, <2>7, <2>8, <2>9
<1> QED
  BY <1>3, <1>4

\* An order that is filled in part stays for what is left.
RestOf(o, m, q, n) ==
  [o EXCEPT !.left = WantedBy(m, o, q) - n, !.budget = @ - n * q.open]
\* Orders after o, which became those of kept.
ReplacedBy(sl, o, kept) == (sl.orders \ {o}) \cup kept
\* The orders after o was filled: nothing of it is left, or in the US a rest.
LeftOf(orders, sl, o, m) ==
  \E kept : /\ orders = ReplacedBy(sl, o, kept)
            /\ m # "U" => kept = {}
            /\ \A p \in kept : p.symbol = o.symbol /\ p.origin = o.origin
            /\ \A p, v \in kept : p = v
NewWindow(o, day) == [symbol |-> o.symbol, origin |-> o.origin, entry |-> day, exit |-> 0]

\* An order may be replaced by one of the same stock and onset.
LEMMA OrdersReplaced ==
  ASSUME NEW m, NEW sl, OrdersInv(sl, m), NEW o \in sl.orders, NEW kept,
         \A p \in kept : p.symbol = o.symbol /\ p.origin = o.origin,
         \A p, v \in kept : p = v
  PROVE  /\ \A p \in ReplacedBy(sl, o, kept) :
              \E v \in sl.orders : p.symbol = v.symbol /\ p.origin = v.origin
         /\ \A p, v \in ReplacedBy(sl, o, kept) : p.symbol = v.symbol => p = v
         /\ \A p \in ReplacedBy(sl, o, kept) : p.symbol = o.symbol => p \in kept
  BY DEF OrdersInv, ReplacedBy

LEMMA FilledFields ==
  ASSUME NEW m \in Sleeves, NEW day \in AllocationBookDays, NEW sl \in SleeveStates(m),
         NEW s \in ListedIn[m], NEW o \in sl.orders, o.symbol = s, NEW q \in QuoteTypes,
         q.open > 0, NEW n, n = Quantity(sl, m, o, q), n # 0,
         NEW r, r = Filled(sl, m, o, q, day)
  PROVE  /\ r \in SleeveStates(m) /\ n \in Nat
         /\ r.cash - r.flow = sl.cash - sl.flow
         /\ \A t \in ListedIn[m] :
              /\ t # s => r.shares[t] = sl.shares[t]
              /\ t = s => r.shares[t] = sl.shares[s] + n
         /\ r.exits = sl.exits
         /\ s \in HeldIn(sl) => r.windows = sl.windows
         /\ s \notin HeldIn(sl) => r.windows = sl.windows \cup {NewWindow(o, day)}
         /\ LeftOf(r.orders, sl, o, m)
<1>3. o \in Orders /\ o.symbol \in Listed /\ o.origin \in AllocationBookDays
  BY SleeveParts DEF Orders
<1>4. /\ n \in Nat /\ n # 0 /\ n * q.open \in Nat /\ n * q.open + Fee(n * q.open) <= sl.cash
      /\ WantedBy(m, o, q) \in Nat
      /\ m = "U" => n <= WantedBy(m, o, q) /\ n * q.open <= o.budget
  BY <1>3, QuantityBounds
<1>5. PICK spend \in Nat : spend = n * q.open + Fee(n * q.open) /\ spend <= sl.cash
  BY <1>4, FeeBounds
<1>6. PICK kept : kept = IF m = "U" /\ RestOf(o, m, q, n).left > 0 THEN {RestOf(o, m, q, n)} ELSE {}
  OBVIOUS
<1>7. kept \subseteq Orders /\ \A p \in kept : p.symbol = o.symbol /\ p.origin = o.origin
  <2>1. m = "U" => /\ RestOf(o, m, q, n) \in Orders
                   /\ RestOf(o, m, q, n).symbol = o.symbol /\ RestOf(o, m, q, n).origin = o.origin
    <3> SUFFICES ASSUME m = "U"
                 PROVE  /\ RestOf(o, m, q, n) \in Orders
                        /\ RestOf(o, m, q, n).symbol = o.symbol
                        /\ RestOf(o, m, q, n).origin = o.origin
      OBVIOUS
    <3>1. o.budget \in Nat
      BY <1>3 DEF Orders
    <3>2. WantedBy(m, o, q) - n \in Nat /\ o.budget - n * q.open \in Nat
      BY <1>4, <3>1
    <3> QED
      BY <1>3, <3>2 DEF RestOf, Orders
  <2> QED
    BY <1>6, <2>1
<1>8. PICK windows : windows = IF o.symbol \in HeldIn(sl) THEN sl.windows
                               ELSE sl.windows \cup {NewWindow(o, day)}
  OBVIOUS
<1>9. windows \subseteq Windows
  <2>1. NewWindow(o, day) \in Windows
    BY <1>3, AllocationBookAssumption DEF NewWindow, Windows
  <2> QED
    BY <1>8, <2>1, SleeveParts
<1>10. r = [sl EXCEPT
              !.cash = @ - spend, !.flow = @ - spend, !.shares[o.symbol] = @ + n,
              !.windows = IF o.symbol \in HeldIn(sl) THEN @
                          ELSE @ \cup {[symbol |-> o.symbol, origin |-> o.origin, entry |-> day,
                                        exit |-> 0]},
              !.orders = (@ \ {o}) \cup (IF m = "U" /\ RestOf(o, m, q, n).left > 0
                                         THEN {RestOf(o, m, q, n)} ELSE {})]
  BY <1>4, <1>5 DEF Filled, RestOf, WantedBy
<1>11. PICK shares, cash, flow, orders :
         /\ shares = [sl.shares EXCEPT ![s] = sl.shares[s] + n]
         /\ cash = sl.cash - spend /\ flow = sl.flow - spend /\ orders = ReplacedBy(sl, o, kept)
  OBVIOUS
<1>21. r = [sl EXCEPT !.cash = cash, !.flow = flow, !.shares = shares, !.windows = windows,
                      !.orders = orders]
  BY <1>6, <1>8, <1>10, <1>11 DEF ReplacedBy, NewWindow
<1>12. r = [cash |-> cash, nav |-> sl.nav, sized |-> sl.sized, shares |-> shares,
            orders |-> orders, exits |-> sl.exits, onsets |-> sl.onsets, windows |-> windows,
            observed |-> sl.observed, sold |-> sl.sold, flow |-> flow]
  <2>1. sl = [cash |-> sl.cash, nav |-> sl.nav, sized |-> sl.sized, shares |-> sl.shares,
              orders |-> sl.orders, exits |-> sl.exits, onsets |-> sl.onsets,
              windows |-> sl.windows, observed |-> sl.observed, sold |-> sl.sold,
              flow |-> sl.flow]
    BY SleeveRecord
  <2> QED
    BY <1>21, <2>1
<1>13. cash \in Nat /\ flow \in Int /\ orders \subseteq Orders
  BY <1>5, <1>7, <1>11, SleeveParts DEF ReplacedBy
<1>14. shares \in [ListedIn[m] -> Nat]
  BY <1>4, <1>11, SleeveParts
<1>15. /\ r \in SleeveStates(m) /\ r.cash = cash /\ r.flow = flow /\ r.shares = shares
       /\ r.exits = sl.exits /\ r.windows = windows /\ r.orders = orders
  BY <1>9, <1>12, <1>13, <1>14, SleeveOf, SleeveParts
<1>16. r.cash - r.flow = sl.cash - sl.flow
  BY <1>5, <1>11, <1>15, SleeveParts
<1>17. \A t \in ListedIn[m] :
         /\ t # s => r.shares[t] = sl.shares[t]
         /\ t = s => r.shares[t] = sl.shares[s] + n
  BY <1>11, <1>15, SleeveParts
<1>18. \A p, v \in kept : p = v
  BY <1>6
<1>19. m # "U" => kept = {}
  BY <1>6
<1>20. LeftOf(r.orders, sl, o, m)
  BY <1>7, <1>11, <1>15, <1>18, <1>19 DEF LeftOf
<1> QED
  BY <1>4, <1>8, <1>15, <1>16, <1>17, <1>20

LEMMA FilledStays ==
  ASSUME NEW m \in Sleeves, NEW share, NEW day \in AllocationBookDays, NEW start,
         NEW sl \in SleeveDay(m, share, day, start), NEW s \in ListedIn[m],
         NEW o \in sl.orders, o.symbol = s, NEW q \in QuoteTypes, q.open > 0
  PROVE  Filled(sl, m, o, q, day) \in SleeveDay(m, share, day, start)
<1>1. sl \in SleeveStates(m) /\ SleeveInv(sl, m, share, day) /\ sl.cash - sl.flow = start
  BY OfSleeveDay
<1>2. o \in Orders /\ WantedBy(m, o, q) \in Nat
  <2>1. o \in Orders
    BY <1>1, SleeveParts
  <2> QED
    BY <1>1, <2>1, QuantityBounds
<1>3. CASE Quantity(sl, m, o, q) = 0
  <2> DEFINE p == [o EXCEPT !.left = WantedBy(m, o, q)]
             r == [sl EXCEPT !.orders = ReplacedBy(sl, o, {p})]
  <2>1. Filled(sl, m, o, q, day) = r
    BY <1>3 DEF Filled, WantedBy, ReplacedBy
  <2>2. p \in Orders /\ p.symbol = o.symbol /\ p.origin = o.origin
    BY <1>2 DEF Orders
  <2>9. PICK kept : kept = {p}
    OBVIOUS
  <2> HIDE DEF p
  <2>3. ReplacedBy(sl, o, {p}) \subseteq Orders
    BY <1>1, <2>2, SleeveParts DEF ReplacedBy
  <2>4. /\ r \in SleeveStates(m) /\ r.orders = ReplacedBy(sl, o, {p}) /\ r.exits = sl.exits
        /\ r.cash = sl.cash /\ r.flow = sl.flow /\ r.shares = sl.shares /\ r.windows = sl.windows
    BY <1>1, <2>3 DEF SleeveStates
  <2> HIDE DEF r
  <2>5. OrdersInv(sl, m)
    BY <1>1 DEF SleeveInv
  <2>6. /\ \A v \in r.orders : \E w \in sl.orders : v.symbol = w.symbol /\ v.origin = w.origin
        /\ \A v, w \in r.orders : v.symbol = w.symbol => v = w
    <3>1. /\ \A v \in kept : v.symbol = o.symbol /\ v.origin = o.origin
          /\ \A v, w \in kept : v = w
      BY <2>2, <2>9
    <3>2. r.orders = ReplacedBy(sl, o, kept)
      BY <2>4, <2>9
    <3> QED
      BY <2>5, <3>1, <3>2, OrdersReplaced
  <2>7. OrdersInv(r, m)
    <3>1. ASSUME NEW v \in r.orders
          PROVE  /\ v.symbol \in ListedIn[m] /\ v.symbol \notin r.exits
                 /\ m # "U" => r.shares[v.symbol] = 0
                 /\ \A w \in r.windows : w.symbol = v.symbol /\ w.exit # 0 => w.exit < v.origin
      <4>1. PICK w \in sl.orders : v.symbol = w.symbol /\ v.origin = w.origin
        BY <2>6
      <4> QED
        BY <2>4, <2>5, <4>1 DEF OrdersInv
    <3> QED
      BY <2>6, <3>1 DEF OrdersInv
  <2>8. SleeveInv(r, m, share, day)
    BY <1>1, <2>4, <2>7 DEF SleeveInv, WindowsInv
  <2> QED
    BY <1>1, <2>1, <2>4, <2>8, OfSleeveDay
<1>4. CASE Quantity(sl, m, o, q) # 0
  <2>1. PICK n : n = Quantity(sl, m, o, q)
    OBVIOUS
  <2>2. PICK r : r = Filled(sl, m, o, q, day)
    OBVIOUS
  <2>3. /\ r \in SleeveStates(m) /\ n \in Nat /\ n # 0
        /\ r.cash - r.flow = start
        /\ \A t \in ListedIn[m] :
             /\ t # s => r.shares[t] = sl.shares[t]
             /\ t = s => r.shares[t] = sl.shares[s] + n
        /\ r.exits = sl.exits
        /\ s \in HeldIn(sl) => r.windows = sl.windows
        /\ s \notin HeldIn(sl) => r.windows = sl.windows \cup {NewWindow(o, day)}
        /\ LeftOf(r.orders, sl, o, m)
    <3>1. Quantity(sl, m, o, q) # 0
      BY <1>4
    <3>2. sl \in SleeveStates(m) /\ sl.cash - sl.flow = start
      BY <1>1
    <3> QED
      BY <2>1, <2>2, <3>1, <3>2, FilledFields
  <2>4. PICK kept : /\ r.orders = ReplacedBy(sl, o, kept)
                    /\ m # "U" => kept = {}
                    /\ \A p \in kept : p.symbol = o.symbol /\ p.origin = o.origin
                    /\ \A p, v \in kept : p = v
    BY <2>3 DEF LeftOf
  <2>5. sl.shares \in [ListedIn[m] -> Nat] /\ r.shares \in [ListedIn[m] -> Nat]
    BY <1>1, <2>3, SleeveParts
  <2>6. \A t \in ListedIn[m] : sl.shares[t] \in Nat /\ (sl.shares[t] > 0 => r.shares[t] > 0)
    BY <2>3, <2>5
  <2>7. r.shares[s] > 0
    BY <2>3, <2>5
  <2>8. /\ day \in Nat /\ day # 0
        /\ s \in HeldIn(sl) <=> sl.shares[s] > 0
    BY <2>5, DaysAreNat DEF HeldIn
  <2>9. OrdersInv(sl, m) /\ WindowsInv(sl, m, day)
    BY <1>1 DEF SleeveInv
  <2>10. /\ \A p \in r.orders : \E v \in sl.orders : p.symbol = v.symbol /\ p.origin = v.origin
         /\ \A p, v \in r.orders : p.symbol = v.symbol => p = v
         /\ \A p \in r.orders : p.symbol = s => p \in kept
    BY <2>4, <2>9, OrdersReplaced
  <2>11. share = 0 => r.orders = {}
    BY <1>1 DEF SleeveInv
  <2>12. \A t \in r.exits : r.shares[t] > 0
    BY <1>1, <2>3, <2>6, SleeveParts DEF SleeveInv
  <2>13. \A w \in r.windows : w \in sl.windows \/ (w = NewWindow(o, day) /\ s \notin HeldIn(sl))
    BY <2>3
  <2>14. OrdersInv(r, m)
    <3>1. ASSUME NEW p \in r.orders
          PROVE  /\ p.symbol \in ListedIn[m] /\ p.symbol \notin r.exits
                 /\ m # "U" => r.shares[p.symbol] = 0
                 /\ \A w \in r.windows : w.symbol = p.symbol /\ w.exit # 0 => w.exit < p.origin
      <4>1. PICK v \in sl.orders : p.symbol = v.symbol /\ p.origin = v.origin
        BY <2>10
      <4>2. m # "U" => p.symbol # s
        BY <2>4, <2>10
      <4>3. \A w \in r.windows : w.exit # 0 => w \in sl.windows
        BY <2>13 DEF NewWindow
      <4> QED
        BY <2>3, <2>9, <4>1, <4>2, <4>3 DEF OrdersInv
    <3> QED
      BY <2>10, <3>1 DEF OrdersInv
  <2>15. WindowsInv(r, m, day)
    <3>1. CASE s \in HeldIn(sl)
      BY <2>3, <2>5, <2>6, <2>8, <2>9, <3>1 DEF WindowsInv
    <3>2. CASE s \notin HeldIn(sl)
      <4> DEFINE x == NewWindow(o, day)
      <4>1. r.windows = sl.windows \cup {x} /\ x.symbol = s /\ x.exit = 0 /\ x.entry = day
              /\ x.origin = o.origin
        BY <2>3, <3>2 DEF NewWindow
      <4> HIDE DEF x
      <4>2. \A w \in sl.windows : w.symbol = s => w.exit # 0 /\ w.exit < o.origin
        BY <2>8, <2>9, <3>2 DEF OrdersInv, WindowsInv
      <4>3. \A t \in ListedIn[m] : r.shares[t] > 0 <=> \E w \in r.windows : w.symbol = t /\ w.exit = 0
        BY <2>3, <2>7, <2>9, <4>1 DEF WindowsInv
      <4>4. \A w \in r.windows : w.entry <= day
        BY <2>8, <2>9, <4>1 DEF WindowsInv
      <4>5. \A w \in r.windows : ~(day < w.entry)
        <5> TAKE w \in r.windows
        <5>1. w.entry \in Nat
          <6>1. w \in Windows
            BY <2>3, SleeveParts
          <6>2. w.entry \in AllocationBookDays
            BY <6>1 DEF Windows
          <6> QED
            BY <6>2, DaysAreNat
        <5> QED
          BY <2>8, <4>4, <5>1
      <4>6. \A w, v \in r.windows :
              w.symbol = v.symbol /\ w.entry < v.entry => w.exit # 0 /\ w.exit < v.origin
        BY <2>9, <4>1, <4>2, <4>5 DEF WindowsInv
      <4> QED
        BY <4>3, <4>4, <4>6 DEF WindowsInv
    <3> QED
      BY <3>1, <3>2
  <2>16. SleeveInv(r, m, share, day)
    BY <2>11, <2>12, <2>14, <2>15 DEF SleeveInv
  <2> QED
    BY <2>2, <2>3, <2>16, OfSleeveDay
<1> QED
  BY <1>3, <1>4

LEMMA EnteredStays ==
  ASSUME NEW m \in Sleeves, NEW share, NEW day \in AllocationBookDays, NEW start,
         NEW sl \in SleeveDay(m, share, day, start), NEW s \in ListedIn[m], NEW q \in QuoteTypes
  PROVE  Entered(sl, m, s, q, day) \in SleeveDay(m, share, day, start)
<1> DEFINE o == CHOOSE o \in OrderOf(sl, s) : TRUE
<1>1. OrderOf(sl, s) # {} => o \in sl.orders /\ o.symbol = s
  BY DEF OrderOf
<1> HIDE DEF o
<1>2. OrderOf(sl, s) # {} /\ q.open > 0 =>
        Filled(sl, m, o, q, day) \in SleeveDay(m, share, day, start)
  BY <1>1, FilledStays
<1>3. Entered(sl, m, s, q, day) \in {sl} \cup
        {x \in {Filled(sl, m, o, q, day)} : OrderOf(sl, s) # {} /\ q.open > 0}
  BY DEF Entered, o
<1> QED
  BY <1>2, <1>3

-----------------------------------------------------------------------------
(* The close and its signals.                                              *)

LEMMA SleevesListed == \A m \in Sleeves : ListedIn[m] \subseteq Listed /\ IsFiniteSet(ListedIn[m])
  BY AllocationBookAssumption DEF Listed

\* The quotes of a day for one market.
MarketQuotes(quotes, m) ==
  \A s \in ListedIn[m] : quotes[s] \in QuoteTypes /\ (m = "U" => ~quotes[s].stop)

LEMMA HeldFinite ==
  ASSUME NEW m \in Sleeves, NEW sl \in SleeveStates(m)
  PROVE  HeldIn(sl) \subseteq ListedIn[m] /\ IsFiniteSet(HeldIn(sl))
<1>1. HeldIn(sl) \in SUBSET ListedIn[m]
  BY SleeveParts DEF HeldIn
<1> QED
  BY <1>1, SleevesListed, FS_Subset

LEMMA NavIsNat ==
  ASSUME NEW m \in Sleeves, NEW sl \in SleeveStates(m), NEW quotes, MarketQuotes(quotes, m)
  PROVE  Marked(sl, m, quotes).nav \in Nat \cup {None}
<1> DEFINE worth == ValueOf(HeldIn(sl), sl, quotes)
<1>1. \A s \in HeldIn(sl) : sl.shares[s] * quotes[s].close \in Nat
  <2> TAKE s \in HeldIn(sl)
  <2>1. sl.shares[s] \in Nat /\ quotes[s].close \in Nat
    BY HeldFinite, SleeveParts, QuoteParts DEF MarketQuotes
  <2> QED
    BY <2>1
<1>2. worth \in Nat
  <2>1. IsFiniteSet(HeldIn(sl))
    BY HeldFinite
  <2> QED
    BY <1>1, <2>1, ValueIsNat
<1> HIDE DEF worth
<1>3. sl.cash \in Nat
  BY SleeveParts
<1>4. Marked(sl, m, quotes).nav =
        IF \A s \in HeldIn(sl) : quotes[s].close > 0 THEN sl.cash + worth ELSE None
  <2>1. sl = [cash |-> sl.cash, nav |-> sl.nav, sized |-> sl.sized, shares |-> sl.shares,
              orders |-> sl.orders, exits |-> sl.exits, onsets |-> sl.onsets,
              windows |-> sl.windows, observed |-> sl.observed, sold |-> sl.sold,
              flow |-> sl.flow]
    BY SleeveRecord
  <2> QED
    BY <2>1 DEF Marked, worth, ValueOf
<1> QED
  BY <1>2, <1>3, <1>4

LEMMA MarkedStays ==
  ASSUME NEW m \in Sleeves, NEW share, NEW day \in AllocationBookDays, NEW start,
         NEW sl \in SleeveDay(m, share, day, start), NEW quotes, MarketQuotes(quotes, m)
  PROVE  Marked(sl, m, quotes) \in SleeveDay(m, share, day, start)
<1>1. sl \in SleeveStates(m) /\ SleeveInv(sl, m, share, day) /\ sl.cash - sl.flow = start
  BY OfSleeveDay
<1>2. PICK r : r = Marked(sl, m, quotes)
  OBVIOUS
<1>3. PICK nav \in Nat \cup {None} : nav = Marked(sl, m, quotes).nav
  BY <1>1, NavIsNat
<1>4. PICK stopped : stopped = {s \in HeldIn(sl) : quotes[s].stop}
  OBVIOUS
<1>5. PICK sized \in Nat \cup {None} : sized = IF m = "E" THEN nav ELSE sl.sized
  BY <1>1, <1>3, SleeveParts
<1>6. sl = [cash |-> sl.cash, nav |-> sl.nav, sized |-> sl.sized, shares |-> sl.shares,
            orders |-> sl.orders, exits |-> sl.exits, onsets |-> sl.onsets,
            windows |-> sl.windows, observed |-> sl.observed, sold |-> sl.sold,
            flow |-> sl.flow]
  BY <1>1, SleeveRecord
<1>7. PICK worth : r = [sl EXCEPT !.nav = worth, !.sized = IF m = "E" THEN worth ELSE @,
                                  !.exits = @ \cup stopped]
  BY <1>2, <1>4 DEF Marked
<1>8. r.nav = worth
  BY <1>6, <1>7
<1>9. worth = nav
  BY <1>2, <1>3, <1>8
<1>10. r = [sl EXCEPT !.nav = nav, !.sized = sized, !.exits = sl.exits \cup stopped]
  BY <1>5, <1>7, <1>9
<1>11. stopped \subseteq ListedIn[m] /\ \A s \in stopped : sl.shares[s] > 0 /\ m # "U"
  BY <1>1, <1>4, HeldFinite DEF MarketQuotes, HeldIn
<1>12. sl.exits \cup stopped \subseteq ListedIn[m]
  BY <1>1, <1>11, SleeveParts
<1>13. /\ r \in SleeveStates(m) /\ r.exits = sl.exits \cup stopped /\ r.orders = sl.orders
       /\ r.cash = sl.cash /\ r.flow = sl.flow /\ r.shares = sl.shares /\ r.windows = sl.windows
  BY <1>1, <1>10, <1>12 DEF SleeveStates
<1>14. OrdersInv(sl, m)
  BY <1>1 DEF SleeveInv
<1>15. ASSUME NEW o \in sl.orders PROVE o.symbol \notin stopped
  <2>1. m # "U" => sl.shares[o.symbol] = 0
    BY <1>14 DEF OrdersInv
  <2> QED
    BY <1>11, <2>1
<1>16. OrdersInv(r, m)
  BY <1>13, <1>14, <1>15 DEF OrdersInv
<1>17. SleeveInv(r, m, share, day)
  BY <1>1, <1>11, <1>13, <1>16 DEF SleeveInv, WindowsInv
<1> QED
  BY <1>1, <1>2, <1>13, <1>17, OfSleeveDay

LEMMA ObservedStays ==
  ASSUME NEW m \in Sleeves, NEW share, NEW day \in AllocationBookDays, NEW start,
         NEW sl \in SleeveDay(m, share, day, start), NEW quotes
  PROVE  Observed(sl, m, quotes, day) \in SleeveDay(m, share, day, start)
<1>1. sl \in SleeveStates(m) /\ SleeveInv(sl, m, share, day) /\ sl.cash - sl.flow = start
  BY OfSleeveDay
<1>2. PICK r : r = Observed(sl, m, quotes, day)
  OBVIOUS
<1>3. PICK onsets : onsets = sl.onsets \cup {[symbol |-> s, day |-> day] :
                                               s \in {t \in ListedIn[m] : quotes[t].onset}}
  OBVIOUS
<1>4. PICK observed : observed = IF \E s \in ListedIn[m] : quotes[s].close > 0
                                 THEN sl.observed \cup {day} ELSE sl.observed
  OBVIOUS
<1>5. /\ onsets \subseteq [symbol : ListedIn[m], day : AllocationBookDays]
      /\ observed \subseteq AllocationBookDays
  BY <1>1, <1>3, <1>4, SleeveParts
<1>6. r = [sl EXCEPT !.onsets = onsets, !.observed = observed]
  BY <1>2, <1>3, <1>4 DEF Observed
<1>7. /\ r \in SleeveStates(m) /\ r.exits = sl.exits /\ r.orders = sl.orders
      /\ r.cash = sl.cash /\ r.flow = sl.flow /\ r.shares = sl.shares /\ r.windows = sl.windows
  BY <1>1, <1>5, <1>6 DEF SleeveStates
<1>8. SleeveInv(r, m, share, day)
  BY <1>1, <1>7 DEF SleeveInv, OrdersInv, WindowsInv
<1> QED
  BY <1>1, <1>2, <1>7, <1>8, OfSleeveDay

LEMMA BudgetIsNat ==
  ASSUME NEW m \in Sleeves, NEW sl \in SleeveStates(m)
  PROVE  Budget(sl, m) \in Nat
<1>1. BudgetParts[m] \in Nat /\ BudgetParts[m] > 0
  BY AllocationBookAssumption
<1>2. sl.sized \in Nat \cup {None}
  BY SleeveParts
<1> QED
  BY <1>1, <1>2, Quotient DEF Budget

LEMMA OrderedStays ==
  ASSUME NEW m \in Sleeves, NEW shares, NEW day \in AllocationBookDays, NEW start,
         NEW sl \in SleeveDay(m, shares.of[m], day, start), NEW s \in ListedIn[m],
         NEW origin \in AllocationBookDays
  PROVE  Ordered(sl, m, shares, s, origin) \in SleeveDay(m, shares.of[m], day, start)
<1> DEFINE allowed == Budget(sl, m) > 0 /\ shares.of[m] > 0 /\ Free(sl, s, origin)
<1>1. sl \in SleeveStates(m) /\ SleeveInv(sl, m, shares.of[m], day) /\ sl.cash - sl.flow = start
  BY OfSleeveDay
<1>2. CASE ~allowed
  BY <1>2 DEF Ordered
<1>3. CASE allowed
  <2>1. PICK r : r = Ordered(sl, m, shares, s, origin)
    OBVIOUS
  <2>2. PICK o : o = [symbol |-> s, origin |-> origin, budget |-> Budget(sl, m), left |-> None]
    OBVIOUS
  <2>3. o \in Orders /\ o.symbol = s /\ o.origin = origin
    BY <1>1, <2>2, BudgetIsNat, SleevesListed DEF Orders
  <2>4. r = [sl EXCEPT !.orders = @ \cup {o}]
    BY <1>3, <2>1, <2>2 DEF Ordered
  <2>5. sl.orders \cup {o} \subseteq Orders
    BY <1>1, <2>3, SleeveParts
  <2>6. /\ r \in SleeveStates(m) /\ r.exits = sl.exits /\ r.orders = sl.orders \cup {o}
        /\ r.cash = sl.cash /\ r.flow = sl.flow /\ r.shares = sl.shares /\ r.windows = sl.windows
    BY <1>1, <2>4, <2>5 DEF SleeveStates
  <2>7. /\ s \notin sl.exits /\ sl.shares[s] = 0 /\ shares.of[m] # 0
        /\ \A p \in sl.orders : p.symbol # s
        /\ \A w \in sl.windows : w.symbol = s => w.exit # 0 /\ w.exit < origin
    <3>1. s \notin HeldIn(sl) /\ OrderOf(sl, s) = {}
      BY <1>3 DEF Free
    <3>2. sl.shares \in [ListedIn[m] -> Nat]
      BY <1>1, SleeveParts
    <3>3. sl.shares[s] = 0
      BY <3>1, <3>2 DEF HeldIn
    <3>4. \A p \in sl.orders : p.symbol # s
      BY <3>1 DEF OrderOf
    <3> QED
      BY <1>3, <3>3, <3>4 DEF Free
  <2>8. OrdersInv(sl, m)
    BY <1>1 DEF SleeveInv
  <2>9. OrdersInv(r, m)
    <3>1. \A p, v \in r.orders : p.symbol = v.symbol => p = v
      BY <2>3, <2>6, <2>7, <2>8 DEF OrdersInv
    <3>2. ASSUME NEW p \in r.orders
          PROVE  /\ p.symbol \in ListedIn[m] /\ p.symbol \notin r.exits
                 /\ m # "U" => r.shares[p.symbol] = 0
                 /\ \A w \in r.windows : w.symbol = p.symbol /\ w.exit # 0 => w.exit < p.origin
      <4>1. CASE p = o
        BY <2>3, <2>6, <2>7, <4>1
      <4>2. CASE p \in sl.orders
        BY <2>6, <2>8, <4>2 DEF OrdersInv
      <4> QED
        BY <2>6, <4>1, <4>2
    <3> QED
      BY <3>1, <3>2 DEF OrdersInv
  <2>10. SleeveInv(r, m, shares.of[m], day)
    BY <1>1, <2>6, <2>7, <2>9 DEF SleeveInv, WindowsInv
  <2> QED
    BY <1>1, <2>1, <2>6, <2>10, OfSleeveDay
<1> QED
  BY <1>2, <1>3

LEMMA SignalledStays ==
  ASSUME NEW m \in Sleeves, NEW shares, NEW day \in AllocationBookDays, NEW start,
         NEW sl \in SleeveDay(m, shares.of[m], day, start), NEW s \in ListedIn[m], NEW q,
         NEW confirmed, s \in confirmed => day - OriginLag[s] \in AllocationBookDays
  PROVE  Signalled(sl, m, shares, s, q, day, confirmed) \in SleeveDay(m, shares.of[m], day, start)
<1>1. sl \in SleeveStates(m) /\ SleeveInv(sl, m, shares.of[m], day) /\ sl.cash - sl.flow = start
  BY OfSleeveDay
<1>2. CASE Sells(sl, m, s, q)
  <2>1. PICK r : r = Signalled(sl, m, shares, s, q, day, confirmed)
    OBVIOUS
  <2>2. PICK exits : exits = sl.exits \cup ({s} \cap HeldIn(sl))
    OBVIOUS
  <2>3. r = [sl EXCEPT !.orders = sl.orders \ OrderOf(sl, s), !.exits = exits]
    BY <1>2, <2>1, <2>2 DEF Signalled
  <2>4. exits \subseteq ListedIn[m] /\ sl.orders \ OrderOf(sl, s) \subseteq Orders
    BY <1>1, <2>2, SleeveParts
  <2>5. /\ r \in SleeveStates(m) /\ r.exits = exits /\ r.orders = sl.orders \ OrderOf(sl, s)
        /\ r.cash = sl.cash /\ r.flow = sl.flow /\ r.shares = sl.shares /\ r.windows = sl.windows
    BY <1>1, <2>3, <2>4 DEF SleeveStates
  <2>6. \A o \in r.orders : o \in sl.orders /\ o.symbol # s
    BY <2>5 DEF OrderOf
  <2>7. OrdersInv(r, m)
    BY <1>1, <2>2, <2>5, <2>6 DEF SleeveInv, OrdersInv
  <2>8. \A t \in r.exits : r.shares[t] > 0
    BY <1>1, <2>2, <2>5 DEF SleeveInv, HeldIn
  <2>9. shares.of[m] = 0 => r.orders = {}
    BY <1>1, <2>5 DEF SleeveInv
  <2>10. SleeveInv(r, m, shares.of[m], day)
    BY <1>1, <2>5, <2>7, <2>8, <2>9 DEF SleeveInv, WindowsInv
  <2> QED
    BY <1>1, <2>1, <2>5, <2>10, OfSleeveDay
<1>3. CASE ~Sells(sl, m, s, q)
  BY <1>3, OrderedStays DEF Signalled
<1> QED
  BY <1>2, <1>3

-----------------------------------------------------------------------------
(* A day of one sleeve.                                                    *)

LEMMA ConfirmedOrigin ==
  ASSUME NEW m \in Sleeves, NEW sl \in SleeveStates(m), NEW quotes, NEW day,
         NEW s \in ConfirmedIn(sl, m, quotes, day)
  PROVE  s \in ListedIn[m] /\ day - OriginLag[s] \in AllocationBookDays
<1>1. s \in ListedIn[m] /\ [symbol |-> s, day |-> day - OriginLag[s]] \in sl.onsets
  BY DEF ConfirmedIn
<1>2. [symbol |-> s, day |-> day - OriginLag[s]] \in [symbol : ListedIn[m], day : AllocationBookDays]
  BY <1>1, SleeveParts
<1> QED
  BY <1>1, <1>2

LEMMA AfterSessionStays ==
  ASSUME NEW m \in Sleeves, NEW shares, NEW day \in AllocationBookDays, NEW start,
         NEW sl \in SleeveDay(m, shares.of[m], day, start), NEW quotes, MarketQuotes(quotes, m)
  PROVE  /\ AfterSession(sl, m, quotes, shares, day) \in SleeveDay(m, shares.of[m], day, start)
         /\ AfterSession(sl, m, quotes, shares, day).sold = {}
<1> DEFINE G == SleeveDay(m, shares.of[m], day, start)
           opened == ForcedAtOpen(sl, HeldIn(sl), quotes, day)
           exited == AllExited(opened, ListedIn[m], quotes, day, m)
           entered == AllEntered(exited, ListedIn[m], quotes, day, m)
           closed == ForcedAtClose(entered, HeldIn(entered), quotes, day)
           seen == Observed(Marked(closed, m, quotes), m, quotes, day)
           confirmed == ConfirmedIn(seen, m, quotes, day)
           signalled == AllSignalled(seen, ListedIn[m], quotes, day, m, shares, confirmed)
<1>1. AfterSession(sl, m, quotes, shares, day) = [signalled EXCEPT !.sold = {}]
  BY DEF AfterSession
<1>2. IsFiniteSet(ListedIn[m])
  BY SleevesListed
<1>3. \A s \in ListedIn[m] : quotes[s] \in QuoteTypes
  BY DEF MarketQuotes
<1>4. \A a \in G : a \in SleeveStates(m) /\ HeldIn(a) \subseteq ListedIn[m] /\ IsFiniteSet(HeldIn(a))
  BY OfSleeveDay, HeldFinite
<1> HIDE DEF opened, exited, entered, closed, seen, confirmed, signalled
<1>5. opened \in G
  <2>1. \A s \in HeldIn(sl) : \A a \in G : Forced(a, s, quotes[s].forcedOpen, day) \in G
    BY <1>3, <1>4, ForcedStays, QuoteParts
  <2> QED
    BY <1>4, <2>1, ForcedOpenPhase DEF opened
<1>6. exited \in G
  <2>1. \A s \in ListedIn[m] : \A a \in G : Exited(a, m, s, quotes[s], day) \in G
    BY <1>3, ExitedStays
  <2> QED
    BY <1>2, <1>5, <2>1, ExitPhase DEF exited
<1>7. entered \in G
  <2>1. \A s \in ListedIn[m] : \A a \in G : Entered(a, m, s, quotes[s], day) \in G
    BY <1>3, EnteredStays
  <2> QED
    BY <1>2, <1>6, <2>1, EntryPhase DEF entered
<1>8. closed \in G
  <2>1. \A s \in HeldIn(entered) : \A a \in G : Forced(a, s, quotes[s].forcedClose, day) \in G
    BY <1>3, <1>4, <1>7, ForcedStays, QuoteParts
  <2> QED
    BY <1>4, <1>7, <2>1, ForcedClosePhase DEF closed
<1>9. seen \in G
  BY <1>8, MarkedStays, ObservedStays DEF seen
<1>10. signalled \in G
  <2>1. \A s \in confirmed : day - OriginLag[s] \in AllocationBookDays
    BY <1>4, <1>9, ConfirmedOrigin DEF confirmed
  <2>2. \A s \in ListedIn[m] : \A a \in G :
          Signalled(a, m, shares, s, quotes[s], day, confirmed) \in G
    BY <2>1, SignalledStays
  <2> QED
    BY <1>2, <1>9, <2>2, SignalPhase DEF signalled
<1>11. PICK r : r = AfterSession(sl, m, quotes, shares, day)
  OBVIOUS
<1>12. /\ r \in SleeveStates(m) /\ r.exits = signalled.exits /\ r.orders = signalled.orders
       /\ r.cash = signalled.cash /\ r.flow = signalled.flow /\ r.shares = signalled.shares
       /\ r.windows = signalled.windows /\ r.sold = {}
  BY <1>1, <1>4, <1>10, <1>11 DEF SleeveStates
<1>13. /\ SleeveInv(signalled, m, shares.of[m], day)
       /\ signalled.cash - signalled.flow = start
  BY <1>10, OfSleeveDay
<1>14. SleeveInv(r, m, shares.of[m], day)
  BY <1>12, <1>13 DEF SleeveInv, OrdersInv, WindowsInv
<1>15. r \in G
  BY <1>12, <1>13, <1>14, OfSleeveDay
<1> QED
  BY <1>11, <1>12, <1>15

\* What an order book needs is a number: it has an order of each stock at most.
LEMMA WantedIsNat ==
  ASSUME NEW m \in Sleeves, NEW sl \in SleeveStates(m), OrdersInv(sl, m)
  PROVE  Wanted(sl, m) \in Nat
<1> DEFINE f == [o \in sl.orders |-> o.symbol]
<1>1. f \in Injection(sl.orders, ListedIn[m])
  <2>1. f \in [sl.orders -> ListedIn[m]]
    BY DEF OrdersInv
  <2>2. \A o, p \in sl.orders : f[o] = f[p] => o = p
    BY DEF OrdersInv
  <2> HIDE DEF f
  <2> QED
    BY <2>1, <2>2 DEF Injection, IsInjective
<1>2. IsFiniteSet(sl.orders)
  BY <1>1, SleevesListed, FS_Injection
<1>3. \A o \in sl.orders : o.budget + (IF m = "U" THEN Fee(o.budget) ELSE 0) \in Nat
  <2> TAKE o \in sl.orders
  <2>1. o.budget \in Nat
    BY SleeveParts DEF Orders
  <2> QED
    BY <2>1, FeeBounds
<1>4. NeedOf(sl.orders, m) \in Nat
  BY <1>2, <1>3, NeedIsNat
<1> QED
  BY <1>4 DEF Wanted, NeedOf

-----------------------------------------------------------------------------
(* The review of a month.                                                  *)

LEMMA TargetIsNat ==
  ASSUME NEW money \in Nat, NEW shares \in Targets, NEW m \in {"K", "E", "U", "C"}
  PROVE  TargetAmount(money, shares, m) \in Nat
<1>1. shares.of[m] \in Nat /\ shares.den \in Nat /\ shares.den > 0
  BY DEF Targets
<1>2. money * shares.of[m] \in Nat
  BY <1>1
<1> QED
  BY <1>1, <1>2, Quotient DEF TargetAmount

\* One market: what is taken is idle and above its share, and then it lacks nothing.
LEMMA TakenAndLacking ==
  ASSUME NEW cash \in Nat, NEW nav \in Nat, NEW wanted \in Nat, NEW goal \in Nat,
         NEW taken, taken = AboveZero(Least(cash - Least(cash, wanted), nav - goal)),
         NEW lacking, lacking = AboveZero(goal - (nav - taken))
  PROVE  /\ taken \in Nat /\ lacking \in Nat /\ taken <= cash /\ taken <= nav
         /\ taken > 0 => cash - taken >= wanted /\ lacking = 0
  BY DEF AboveZero, Least

\* The parts of what is paid are no more than it.
LEMMA PartsOfPaid ==
  ASSUME NEW paid \in Nat, NEW k \in Nat, NEW e \in Nat, NEW u \in Nat,
         NEW needed, needed = k + e + u, needed # 0
  PROVE  /\ (paid * k) \div needed \in Nat /\ (paid * e) \div needed \in Nat
         /\ (paid * u) \div needed \in Nat
         /\ (paid * k) \div needed + (paid * e) \div needed + (paid * u) \div needed <= paid
<1>1. needed \in Nat /\ needed > 0
  OBVIOUS
<1>2. paid * k \in Nat /\ paid * e \in Nat /\ paid * u \in Nat
  OBVIOUS
<1>3. PICK a \in Nat : a = (paid * k) \div needed /\ needed * a <= paid * k
  BY <1>1, <1>2, Quotient
<1>4. PICK b \in Nat : b = (paid * e) \div needed /\ needed * b <= paid * e
  BY <1>1, <1>2, Quotient
<1>5. PICK c \in Nat : c = (paid * u) \div needed /\ needed * c <= paid * u
  BY <1>1, <1>2, Quotient
<1>6. needed * (a + b + c) = needed * a + needed * b + needed * c
  BY <1>1
<1>7. paid * needed = paid * k + paid * e + paid * u /\ needed * (paid + 1) = paid * needed + needed
  BY <1>1
<1>8. needed * a \in Nat /\ needed * b \in Nat /\ needed * c \in Nat /\ paid * needed \in Nat
  BY <1>1
<1>9. needed * (a + b + c) < needed * (paid + 1)
  BY <1>1, <1>2, <1>3, <1>4, <1>5, <1>6, <1>7, <1>8
<1>10. a + b + c < paid + 1
  BY <1>1, <1>9, FactorOrder
<1> QED
  BY <1>3, <1>4, <1>5, <1>10

LEMMA SleevesCounted == IsFiniteSet(Sleeves) /\ Cardinality(Sleeves) = 3
<1>1. IsFiniteSet({"K"}) /\ Cardinality({"K"}) = 1
  BY FS_Singleton
<1>2. IsFiniteSet({"K"} \cup {"E"}) /\ Cardinality({"K"} \cup {"E"}) = 2
  BY <1>1, FS_AddElement
<1>3. IsFiniteSet(({"K"} \cup {"E"}) \cup {"U"}) /\ Cardinality(({"K"} \cup {"E"}) \cup {"U"}) = 3
  BY <1>2, FS_AddElement
<1>4. Sleeves = ({"K"} \cup {"E"}) \cup {"U"}
  BY DEF Sleeves
<1> QED
  BY <1>3, <1>4

LEMMA SharesForTyped ==
  ASSUME NEW active, active \subseteq Sleeves
  PROVE  SharesFor(active) \in Targets
<1> DEFINE n == Cardinality(active)
<1>1. n \in {0, 1, 2, 3}
  BY SleevesCounted, FS_Subset, FS_CardinalityType
<1> DEFINE one(k) == [m \in {"K", "E", "U"} |-> IF m \in active THEN k ELSE 0]
<1>2. \A k \in Nat : one(k).K \in Nat /\ one(k).E \in Nat /\ one(k).U \in Nat
  OBVIOUS
<1>3. \A d \in Nat \ {0}, k, e, u, c \in Nat : Shares(d, k, e, u, c) \in Targets
  BY DEF Shares, Targets
<1>4. SharesFor(active) =
        CASE n = 0 -> Shares(1, 0, 0, 0, 1)
          [] n = 1 -> Shares(5, one(3).K, one(3).E, one(3).U, 2)
          [] n \in {2, 3} -> Shares(n, one(1).K, one(1).E, one(1).U, 0)
  BY DEF SharesFor
<1> HIDE DEF one, n
<1>5. CASE n = 0
  <2>1. SharesFor(active) = Shares(1, 0, 0, 0, 1)
    BY <1>4, <1>5
  <2> QED
    BY <1>3, <2>1
<1>6. CASE n = 1
  <2>1. SharesFor(active) = Shares(5, one(3).K, one(3).E, one(3).U, 2)
    BY <1>4, <1>6
  <2> QED
    BY <1>2, <1>3, <2>1
<1>7. CASE n \in {2, 3}
  <2>1. SharesFor(active) = Shares(n, one(1).K, one(1).E, one(1).U, 0)
    BY <1>4, <1>7
  <2>2. n \in Nat \ {0}
    BY <1>7
  <2> QED
    BY <1>2, <1>3, <2>1, <2>2
<1> QED
  BY <1>1, <1>5, <1>6, <1>7

\* A market without a share drops its orders.
LEMMA KeptStays ==
  ASSUME NEW m \in Sleeves, NEW sl \in SleeveStates(m), NEW old, NEW share, NEW day,
         SleeveInv(sl, m, old, day), NEW r, r = KeptOf(sl, share)
  PROVE  /\ r \in SleeveStates(m) /\ SleeveInv(r, m, share, day)
         /\ r.cash = sl.cash /\ r.nav = sl.nav /\ r.flow = sl.flow /\ r.sold = sl.sold
<1>1. CASE share = 0
  <2>1. /\ r \in SleeveStates(m) /\ r.exits = sl.exits /\ r.orders = {} /\ r.shares = sl.shares
        /\ r.windows = sl.windows /\ r.cash = sl.cash /\ r.nav = sl.nav /\ r.flow = sl.flow
        /\ r.sold = sl.sold
    BY <1>1 DEF KeptOf, SleeveStates
  <2> QED
    BY <2>1 DEF SleeveInv, OrdersInv, WindowsInv
<1>2. CASE share # 0
  BY <1>2 DEF KeptOf, SleeveInv
<1> QED
  BY <1>1, <1>2

LEMMA PaidStays ==
  ASSUME NEW m \in Sleeves, NEW sl \in SleeveStates(m), NEW share, NEW day,
         SleeveInv(sl, m, share, day), sl.nav # None,
         NEW taken \in Nat, NEW given \in Nat, taken <= sl.cash, taken <= sl.nav,
         NEW r, r = PaidOf(sl, taken, given)
  PROVE  /\ r \in SleeveStates(m) /\ SleeveInv(r, m, share, day)
         /\ r.cash = sl.cash - taken + given /\ r.flow = sl.flow /\ r.sold = sl.sold
         /\ r.orders = sl.orders
<1>1. PICK cash, nav : cash = sl.cash - taken + given /\ nav = sl.nav - taken + given
  OBVIOUS
<1>2. cash \in Nat /\ nav \in Nat
  BY <1>1, SleeveParts
<1>3. r = [sl EXCEPT !.cash = cash, !.nav = nav]
  BY <1>1 DEF PaidOf
<1>4. /\ r \in SleeveStates(m) /\ r.exits = sl.exits /\ r.orders = sl.orders
      /\ r.shares = sl.shares /\ r.windows = sl.windows /\ r.cash = cash /\ r.flow = sl.flow
      /\ r.sold = sl.sold
  BY <1>2, <1>3 DEF SleeveStates
<1>5. SleeveInv(r, m, share, day)
  BY <1>4 DEF SleeveInv, OrdersInv, WindowsInv
<1> QED
  BY <1>1, <1>4, <1>5

ByMarket(k, e, u) == [K |-> k, E |-> e, U |-> u]

\* The parts of a review, one inside the other.
AllPaid(k, t, g, pool, shares) ==
  /\ sleeve' = Each(LAMBDA m : PaidOf(k[m], t[m], g[m]))
  /\ central' = pool - Total(g)
  /\ target' = shares
  /\ transfers' = [taken |-> t, given |-> g]
Pays(k, t, l, pool, needed, paid, shares) ==
  \E g \in {Each(LAMBDA m : PartOf(paid, l[m], needed))} : AllPaid(k, t, g, pool, shares)
Settles(k, t, l, goal, shares) ==
  LET pool == central + Total(t) IN
  Pays(k, t, l, pool, Total(l), Least(AboveZero(pool - goal["C"]), Total(l)), shares)
Gives(k, t, goal, shares) ==
  \E l \in {Each(LAMBDA m : LackingOf(k[m], t[m], goal[m]))} : Settles(k, t, l, goal, shares)
Takes(k, goal, shares) ==
  \E t \in {Each(LAMBDA m : TakenOf(k[m], m, goal[m]))} : Gives(k, t, goal, shares)
Keeps(stepped, goal, shares) ==
  \E k \in {Each(LAMBDA m : KeptOf(stepped[m], shares.of[m]))} : Takes(k, goal, shares)
GoalOf(money, shares) == [m \in {"K", "E", "U", "C"} |-> TargetAmount(money, shares, m)]

\* What a review computes.
ReviewOf(stepped, shares, goal, kept, taken, lacking, pool, paid, given) ==
  /\ goal = GoalOf(central + (stepped.K.nav + stepped.E.nav + stepped.U.nav), shares)
  /\ kept = ByMarket(KeptOf(stepped.K, shares.of["K"]), KeptOf(stepped.E, shares.of["E"]),
                     KeptOf(stepped.U, shares.of["U"]))
  /\ taken = ByMarket(TakenOf(kept.K, "K", goal["K"]), TakenOf(kept.E, "E", goal["E"]),
                      TakenOf(kept.U, "U", goal["U"]))
  /\ lacking = ByMarket(LackingOf(kept.K, taken.K, goal["K"]), LackingOf(kept.E, taken.E, goal["E"]),
                        LackingOf(kept.U, taken.U, goal["U"]))
  /\ pool = central + Total(taken)
  /\ paid = Least(AboveZero(pool - goal["C"]), Total(lacking))
  /\ given = ByMarket(PartOf(paid, lacking.K, Total(lacking)), PartOf(paid, lacking.E, Total(lacking)),
                      PartOf(paid, lacking.U, Total(lacking)))

LEMMA ReviewedFields ==
  ASSUME NEW stepped, NEW shares, Reviewed(stepped, shares)
  PROVE  \E goal, kept, taken, lacking, pool, paid, given :
           /\ ReviewOf(stepped, shares, goal, kept, taken, lacking, pool, paid, given)
           /\ sleeve' = ByMarket(PaidOf(kept.K, taken.K, given.K), PaidOf(kept.E, taken.E, given.E),
                                 PaidOf(kept.U, taken.U, given.U))
           /\ central' = pool - Total(given)
           /\ target' = shares /\ transfers' = [taken |-> taken, given |-> given]
<1>1. PICK goal : goal = GoalOf(central + (stepped.K.nav + stepped.E.nav + stepped.U.nav), shares)
  OBVIOUS
<1>2. PICK kept : kept = ByMarket(KeptOf(stepped.K, shares.of["K"]), KeptOf(stepped.E, shares.of["E"]),
                                  KeptOf(stepped.U, shares.of["U"]))
  OBVIOUS
<1>3. PICK taken : taken = ByMarket(TakenOf(kept.K, "K", goal["K"]), TakenOf(kept.E, "E", goal["E"]),
                                    TakenOf(kept.U, "U", goal["U"]))
  OBVIOUS
<1>4. PICK lacking : lacking = ByMarket(LackingOf(kept.K, taken.K, goal["K"]),
                                        LackingOf(kept.E, taken.E, goal["E"]),
                                        LackingOf(kept.U, taken.U, goal["U"]))
  OBVIOUS
<1>5. PICK pool : pool = central + Total(taken)
  OBVIOUS
<1>6. PICK paid : paid = Least(AboveZero(pool - goal["C"]), Total(lacking))
  OBVIOUS
<1>7. PICK given : given = ByMarket(PartOf(paid, lacking.K, Total(lacking)),
                                    PartOf(paid, lacking.E, Total(lacking)),
                                    PartOf(paid, lacking.U, Total(lacking)))
  OBVIOUS
<1>8. Keeps(stepped, goal, shares)
  <2>1. Keeps(stepped, GoalOf(central + Total(Each(LAMBDA m : stepped[m].nav)), shares), shares)
    BY DEF Reviewed, Keeps, Takes, Gives, Settles, Pays, AllPaid, GoalOf
  <2> QED
    BY <1>1, <2>1 DEF Each, Total
<1>9. Takes(kept, goal, shares)
  BY ONLY <1>8, <1>2 DEF Keeps, Each, ByMarket
<1>10. Gives(kept, taken, goal, shares)
  BY ONLY <1>9, <1>3 DEF Takes, Each, ByMarket
<1>11. Settles(kept, taken, lacking, goal, shares)
  BY ONLY <1>10, <1>4 DEF Gives, Each, ByMarket
<1>12. Pays(kept, taken, lacking, pool, Total(lacking), paid, shares)
  BY ONLY <1>11, <1>5, <1>6 DEF Settles
<1>13. AllPaid(kept, taken, given, pool, shares)
  BY ONLY <1>12, <1>7 DEF Pays, Each, ByMarket
<1>14. /\ sleeve' = ByMarket(PaidOf(kept.K, taken.K, given.K), PaidOf(kept.E, taken.E, given.E),
                            PaidOf(kept.U, taken.U, given.U))
      /\ central' = pool - Total(given)
      /\ target' = shares /\ transfers' = [taken |-> taken, given |-> given]
  BY ONLY <1>13 DEF AllPaid, Each, ByMarket
<1>15. ReviewOf(stepped, shares, goal, kept, taken, lacking, pool, paid, given)
  BY ONLY <1>1, <1>2, <1>3, <1>4, <1>5, <1>6, <1>7 DEF ReviewOf
<1> QED
  BY ONLY <1>14, <1>15

LEMMA WantedOfOrders ==
  ASSUME NEW m, NEW sl, NEW r, r.orders = sl.orders
  PROVE  Wanted(r, m) = Wanted(sl, m)
<1>1. Wanted(r, m) = NeedOf(r.orders, m)
  BY DEF Wanted, NeedOf
<1>2. Wanted(sl, m) = NeedOf(sl.orders, m)
  BY DEF Wanted, NeedOf
<1> QED
  BY <1>1, <1>2

Collects(sl, m, share, goal, kept, taken, lacking) ==
  /\ kept = KeptOf(sl, share) /\ taken = TakenOf(kept, m, goal)
  /\ lacking = LackingOf(kept, taken, goal)

\* One market before it is paid.
LEMMA SleeveCollected ==
  ASSUME NEW m \in Sleeves, NEW sl \in SleeveStates(m), NEW old, NEW share, NEW day,
         SleeveInv(sl, m, old, day), sl.nav # None, NEW goal \in Nat,
         NEW kept, NEW taken, NEW lacking, Collects(sl, m, share, goal, kept, taken, lacking)
  PROVE  /\ kept \in SleeveStates(m) /\ SleeveInv(kept, m, share, day)
         /\ kept.cash = sl.cash /\ kept.nav = sl.nav /\ kept.flow = sl.flow /\ kept.sold = sl.sold
         /\ taken \in Nat /\ lacking \in Nat /\ taken <= kept.cash /\ taken <= kept.nav
         /\ taken > 0 => kept.cash - taken >= Wanted(kept, m) /\ lacking = 0
<1>1. /\ kept \in SleeveStates(m) /\ SleeveInv(kept, m, share, day)
      /\ kept.cash = sl.cash /\ kept.nav = sl.nav /\ kept.flow = sl.flow /\ kept.sold = sl.sold
  BY KeptStays DEF Collects
<1>2. PICK wanted : wanted = Wanted(kept, m)
  OBVIOUS
<1>3. wanted \in Nat
  BY <1>1, <1>2, WantedIsNat DEF SleeveInv
<1>4. PICK cash, nav : cash = kept.cash /\ nav = kept.nav
  OBVIOUS
<1>5. cash \in Nat /\ nav \in Nat
  BY <1>1, <1>4, SleeveParts
<1>6. /\ taken = AboveZero(Least(cash - Least(cash, wanted), nav - goal))
      /\ lacking = AboveZero(goal - (nav - taken))
  BY <1>2, <1>4 DEF Collects, TakenOf, LackingOf, IdleCash, Reserved
<1>7. /\ taken \in Nat /\ lacking \in Nat /\ taken <= cash /\ taken <= nav
      /\ taken > 0 => cash - taken >= wanted /\ lacking = 0
  BY <1>3, <1>5, <1>6, TakenAndLacking
<1> QED
  BY <1>1, <1>2, <1>4, <1>7

\* One market when it is paid.
LEMMA SleevePaid ==
  ASSUME NEW m \in Sleeves, NEW kept \in SleeveStates(m), NEW share, NEW day,
         SleeveInv(kept, m, share, day), kept.nav # None,
         NEW taken \in Nat, NEW given \in Nat, taken <= kept.cash, taken <= kept.nav,
         taken > 0 => kept.cash - taken >= Wanted(kept, m) /\ given = 0,
         NEW r, r = PaidOf(kept, taken, given)
  PROVE  /\ r \in SleeveStates(m) /\ SleeveInv(r, m, share, day) /\ r.sold = kept.sold
         /\ r.cash = kept.cash - taken + given /\ r.flow = kept.flow
         /\ taken > 0 => r.cash >= Wanted(r, m)
<1>1. /\ r \in SleeveStates(m) /\ SleeveInv(r, m, share, day)
      /\ r.cash = kept.cash - taken + given /\ r.flow = kept.flow /\ r.sold = kept.sold
      /\ r.orders = kept.orders
  BY PaidStays
<1>2. Wanted(r, m) = Wanted(kept, m)
  BY <1>1, WantedOfOrders
<1>3. kept.cash \in Nat
  BY SleeveParts
<1> QED
  BY <1>1, <1>2, <1>3

Divides(pool, goal, k, e, u, a, b, c) ==
  LET needed == k + e + u
      paid == Least(AboveZero(pool - goal), needed) IN
  a = PartOf(paid, k, needed) /\ b = PartOf(paid, e, needed) /\ c = PartOf(paid, u, needed)

\* What the markets get is no more than the pool, and none that was taken from.
LEMMA GivenFromPool ==
  ASSUME NEW pool \in Nat, NEW goal \in Nat, NEW k \in Nat, NEW e \in Nat, NEW u \in Nat,
         NEW a, NEW b, NEW c, Divides(pool, goal, k, e, u, a, b, c)
  PROVE  /\ a \in Nat /\ b \in Nat /\ c \in Nat /\ a + b + c <= pool
         /\ (k = 0 => a = 0) /\ (e = 0 => b = 0) /\ (u = 0 => c = 0)
<1> DEFINE needed == k + e + u
           paid == Least(AboveZero(pool - goal), needed)
<1>1. needed \in Nat /\ paid \in Nat /\ paid <= pool
  BY DEF Least, AboveZero
<1>2. a = PartOf(paid, k, needed) /\ b = PartOf(paid, e, needed) /\ c = PartOf(paid, u, needed)
  BY DEF Divides
<1>3. needed = k + e + u
  OBVIOUS
<1> HIDE DEF needed, paid
<1>4. CASE needed = 0
  BY <1>1, <1>4, <1>2, <1>3 DEF PartOf
<1>5. CASE needed # 0
  <2>1. a = (paid * k) \div needed /\ b = (paid * e) \div needed /\ c = (paid * u) \div needed
    BY <1>5, <1>2 DEF PartOf
  <2>2. /\ (paid * k) \div needed \in Nat /\ (paid * e) \div needed \in Nat
        /\ (paid * u) \div needed \in Nat
        /\ (paid * k) \div needed + (paid * e) \div needed + (paid * u) \div needed <= paid
    BY <1>1, <1>5, <1>3, PartsOfPaid
  <2>3. (paid * 0) \div needed = 0
    BY <1>1, <1>5
  <2>4. (k = 0 => a = 0) /\ (e = 0 => b = 0) /\ (u = 0 => c = 0)
    BY <2>1, <2>3
  <2>5. a \in Nat /\ b \in Nat /\ c \in Nat /\ a + b + c <= paid
    BY <2>1, <2>2
  <2> QED
    BY <1>1, <2>4, <2>5
<1> QED
  BY <1>4, <1>5

\* A review keeps the money and every sleeve's own invariant, for the new shares.
LEMMA ReviewedStays ==
  ASSUME NEW stepped, NEW old, NEW shares \in Targets, NEW day, central \in Nat,
         \A m \in Sleeves :
           /\ stepped[m] \in SleeveStates(m) /\ SleeveInv(stepped[m], m, old.of[m], day)
           /\ stepped[m].nav # None /\ stepped[m].sold = {},
         Reviewed(stepped, shares)
  PROVE  /\ sleeve' = [K |-> sleeve'.K, E |-> sleeve'.E, U |-> sleeve'.U]
         /\ \A m \in Sleeves :
              /\ sleeve'[m] \in SleeveStates(m) /\ SleeveInv(sleeve'[m], m, shares.of[m], day)
              /\ sleeve'[m].sold = {} /\ sleeve'[m].flow = stepped[m].flow
              /\ transfers'.taken[m] > 0 =>
                   sleeve'[m].cash >= Wanted(sleeve'[m], m) /\ transfers'.given[m] = 0
         /\ central' \in Nat /\ target' = shares
         /\ transfers' \in [taken : [K : Nat, E : Nat, U : Nat], given : [K : Nat, E : Nat, U : Nat]]
         /\ central' + (sleeve'.K.cash + sleeve'.E.cash + sleeve'.U.cash)
              = central + (stepped.K.cash + stepped.E.cash + stepped.U.cash)
<1>1. PICK goal, kept, taken, lacking, pool, paid, given :
        /\ ReviewOf(stepped, shares, goal, kept, taken, lacking, pool, paid, given)
        /\ sleeve' = ByMarket(PaidOf(kept.K, taken.K, given.K), PaidOf(kept.E, taken.E, given.E),
                              PaidOf(kept.U, taken.U, given.U))
        /\ central' = pool - Total(given)
        /\ target' = shares /\ transfers' = [taken |-> taken, given |-> given]
  BY ReviewedFields
<1>2. goal = GoalOf(central + (stepped.K.nav + stepped.E.nav + stepped.U.nav), shares)
  BY <1>1 DEF ReviewOf
<1>3. kept = ByMarket(KeptOf(stepped.K, shares.of["K"]), KeptOf(stepped.E, shares.of["E"]),
                      KeptOf(stepped.U, shares.of["U"]))
  BY <1>1 DEF ReviewOf
<1>4. taken = ByMarket(TakenOf(kept.K, "K", goal["K"]), TakenOf(kept.E, "E", goal["E"]),
                       TakenOf(kept.U, "U", goal["U"]))
  BY <1>1 DEF ReviewOf
<1>5. lacking = ByMarket(LackingOf(kept.K, taken.K, goal["K"]), LackingOf(kept.E, taken.E, goal["E"]),
                         LackingOf(kept.U, taken.U, goal["U"]))
  BY <1>1 DEF ReviewOf
<1>6. PICK needed : pool = central + Total(taken) /\ needed = Total(lacking)
  BY <1>1 DEF ReviewOf
<1>7. paid = Least(AboveZero(pool - goal["C"]), needed)
  BY ONLY <1>1, <1>6 DEF ReviewOf
<1>8. given = ByMarket(PartOf(paid, lacking.K, needed), PartOf(paid, lacking.E, needed),
                       PartOf(paid, lacking.U, needed))
  <2>1. given = ByMarket(PartOf(paid, lacking.K, Total(lacking)),
                         PartOf(paid, lacking.E, Total(lacking)),
                         PartOf(paid, lacking.U, Total(lacking)))
    BY <1>1 DEF ReviewOf
  <2> QED
    BY ONLY <1>6, <2>1
<1>9. /\ sleeve' = ByMarket(PaidOf(kept.K, taken.K, given.K), PaidOf(kept.E, taken.E, given.E),
                            PaidOf(kept.U, taken.U, given.U))
      /\ central' = pool - Total(given)
      /\ target' = shares /\ transfers' = [taken |-> taken, given |-> given]
  BY <1>1
<1>10. \A m \in {"K", "E", "U", "C"} : goal[m] \in Nat
  <2>1. \A m \in Sleeves : stepped[m].nav \in Nat
    BY SleeveParts
  <2>2. stepped.K.nav \in Nat /\ stepped.E.nav \in Nat /\ stepped.U.nav \in Nat
    BY <2>1 DEF Sleeves
  <2>3. PICK money \in Nat : money = central + (stepped.K.nav + stepped.E.nav + stepped.U.nav)
    BY <2>2
  <2>4. goal = [m \in {"K", "E", "U", "C"} |-> TargetAmount(money, shares, m)]
    BY <1>2, <2>3 DEF GoalOf
  <2> QED
    BY <2>4, TargetIsNat
<1>11. \A m \in Sleeves :
         /\ kept[m] = KeptOf(stepped[m], shares.of[m])
         /\ taken[m] = TakenOf(kept[m], m, goal[m])
         /\ lacking[m] = LackingOf(kept[m], taken[m], goal[m])
  <2>1. \A m \in Sleeves : kept[m] = KeptOf(stepped[m], shares.of[m])
    BY <1>3 DEF Sleeves, ByMarket
  <2>2. \A m \in Sleeves : taken[m] = TakenOf(kept[m], m, goal[m])
    BY <1>4 DEF Sleeves, ByMarket
  <2>3. \A m \in Sleeves : lacking[m] = LackingOf(kept[m], taken[m], goal[m])
    BY <1>5 DEF Sleeves, ByMarket
  <2> QED
    BY <2>1, <2>2, <2>3
<1>12. \A m \in Sleeves :
         /\ kept[m] \in SleeveStates(m) /\ SleeveInv(kept[m], m, shares.of[m], day)
         /\ kept[m].cash = stepped[m].cash /\ kept[m].nav = stepped[m].nav
         /\ kept[m].flow = stepped[m].flow /\ kept[m].sold = stepped[m].sold
         /\ taken[m] \in Nat /\ lacking[m] \in Nat
         /\ taken[m] <= kept[m].cash /\ taken[m] <= kept[m].nav
         /\ taken[m] > 0 => kept[m].cash - taken[m] >= Wanted(kept[m], m) /\ lacking[m] = 0
  <2> TAKE m \in Sleeves
  <2>1. PICK g \in Nat : g = goal[m]
    BY <1>10 DEF Sleeves
  <2>2. PICK sl, k, t, l, o, share :
          /\ sl = stepped[m] /\ k = kept[m] /\ t = taken[m] /\ l = lacking[m]
          /\ o = old.of[m] /\ share = shares.of[m]
    OBVIOUS
  <2>3. sl \in SleeveStates(m) /\ SleeveInv(sl, m, o, day) /\ sl.nav # None
    BY <2>2
  <2>4. Collects(sl, m, share, g, k, t, l)
    BY <1>11, <2>1, <2>2 DEF Collects
  <2>5. /\ k \in SleeveStates(m) /\ SleeveInv(k, m, share, day)
        /\ k.cash = sl.cash /\ k.nav = sl.nav /\ k.flow = sl.flow /\ k.sold = sl.sold
        /\ t \in Nat /\ l \in Nat /\ t <= k.cash /\ t <= k.nav
        /\ t > 0 => k.cash - t >= Wanted(k, m) /\ l = 0
    BY ONLY <2>3, <2>4, SleeveCollected, m \in Sleeves, g \in Nat
  <2> QED
    BY <2>2, <2>5
<1>13. /\ taken.K \in Nat /\ taken.E \in Nat /\ taken.U \in Nat
       /\ lacking.K \in Nat /\ lacking.E \in Nat /\ lacking.U \in Nat
  BY <1>12 DEF Sleeves
<1>14. /\ given.K \in Nat /\ given.E \in Nat /\ given.U \in Nat
       /\ given.K + given.E + given.U <= pool /\ pool \in Nat
       /\ (lacking.K = 0 => given.K = 0) /\ (lacking.E = 0 => given.E = 0)
       /\ (lacking.U = 0 => given.U = 0)
  <2>1. pool \in Nat /\ goal["C"] \in Nat
    BY <1>6, <1>10, <1>13 DEF Total
  <2>2. /\ given.K = PartOf(paid, lacking.K, needed) /\ given.E = PartOf(paid, lacking.E, needed)
        /\ given.U = PartOf(paid, lacking.U, needed)
    BY <1>8 DEF ByMarket
  <2>3. needed = lacking.K + lacking.E + lacking.U
    BY <1>6 DEF Total
  <2>4. /\ given.K \in Nat /\ given.E \in Nat /\ given.U \in Nat
        /\ given.K + given.E + given.U <= pool
        /\ (lacking.K = 0 => given.K = 0) /\ (lacking.E = 0 => given.E = 0)
        /\ (lacking.U = 0 => given.U = 0)
    <3>1. PICK c \in Nat, k \in Nat, e \in Nat, u \in Nat :
            c = goal["C"] /\ k = lacking.K /\ e = lacking.E /\ u = lacking.U
      BY <1>13, <2>1
    <3>2. Divides(pool, c, k, e, u, given.K, given.E, given.U)
      BY ONLY <1>7, <2>2, <2>3, <3>1 DEF Divides
    <3>3. pool \in Nat
      BY <2>1
    <3>4. /\ given.K \in Nat /\ given.E \in Nat /\ given.U \in Nat
          /\ given.K + given.E + given.U <= pool
          /\ (k = 0 => given.K = 0) /\ (e = 0 => given.E = 0) /\ (u = 0 => given.U = 0)
      BY ONLY <3>2, <3>3, GivenFromPool, c \in Nat, k \in Nat, e \in Nat, u \in Nat
    <3> QED
      BY <3>1, <3>4
  <2> QED
    BY <2>1, <2>4
<1>15. \A m \in Sleeves : given[m] \in Nat /\ (lacking[m] = 0 => given[m] = 0)
  BY <1>14 DEF Sleeves
<1>16. \A m \in Sleeves : sleeve'[m] = PaidOf(kept[m], taken[m], given[m])
  BY <1>9 DEF Sleeves, ByMarket
<1>17. \A m \in Sleeves :
         /\ sleeve'[m] \in SleeveStates(m) /\ SleeveInv(sleeve'[m], m, shares.of[m], day)
         /\ sleeve'[m].sold = kept[m].sold /\ sleeve'[m].cash = kept[m].cash - taken[m] + given[m]
         /\ sleeve'[m].flow = kept[m].flow
         /\ taken[m] > 0 => sleeve'[m].cash >= Wanted(sleeve'[m], m)
  <2> TAKE m \in Sleeves
  <2>1. PICK r : r = sleeve'[m]
    OBVIOUS
  <2>2. kept[m].nav # None
    BY <1>12
  <2>3. /\ r \in SleeveStates(m) /\ SleeveInv(r, m, shares.of[m], day)
        /\ r.sold = kept[m].sold /\ r.cash = kept[m].cash - taken[m] + given[m]
        /\ r.flow = kept[m].flow /\ (taken[m] > 0 => r.cash >= Wanted(r, m))
    BY <1>12, <1>15, <1>16, <2>1, <2>2, SleevePaid
  <2> QED
    BY <2>1, <2>3
<1>18. \A m \in Sleeves :
         transfers'.taken[m] > 0 =>
           sleeve'[m].cash >= Wanted(sleeve'[m], m) /\ transfers'.given[m] = 0
  <2>1. transfers'.taken = taken /\ transfers'.given = given
    BY <1>9
  <2> QED
    BY <1>12, <1>15, <1>17, <2>1
<1>19. /\ taken \in [K : Nat, E : Nat, U : Nat] /\ given \in [K : Nat, E : Nat, U : Nat]
  <2>1. taken = [K |-> taken.K, E |-> taken.E, U |-> taken.U]
    BY <1>4 DEF ByMarket
  <2>2. given = [K |-> given.K, E |-> given.E, U |-> given.U]
    BY <1>8 DEF ByMarket
  <2> QED
    BY <1>13, <1>14, <2>1, <2>2
<1>20. central' + (sleeve'.K.cash + sleeve'.E.cash + sleeve'.U.cash)
         = central + (stepped.K.cash + stepped.E.cash + stepped.U.cash)
  <2>1. /\ sleeve'.K.cash = stepped.K.cash - taken.K + given.K
        /\ sleeve'.E.cash = stepped.E.cash - taken.E + given.E
        /\ sleeve'.U.cash = stepped.U.cash - taken.U + given.U
    BY <1>12, <1>17 DEF Sleeves
  <2>2. stepped.K.cash \in Nat /\ stepped.E.cash \in Nat /\ stepped.U.cash \in Nat
    <3>1. \A m \in Sleeves : stepped[m].cash \in Nat
      BY SleeveParts
    <3> QED
      BY <3>1 DEF Sleeves
  <2>3. /\ central' = pool - (given.K + given.E + given.U)
        /\ pool = central + (taken.K + taken.E + taken.U)
    BY <1>6, <1>9 DEF Total
  <2>4. PICK a, b, c, d, e, f : /\ a = sleeve'.K.cash /\ b = sleeve'.E.cash /\ c = sleeve'.U.cash
                                /\ d = stepped.K.cash /\ e = stepped.E.cash /\ f = stepped.U.cash
    OBVIOUS
  <2>5. central' + (a + b + c) = central + (d + e + f)
    BY <1>13, <1>14, <2>1, <2>2, <2>3, <2>4
  <2> QED
    BY <2>4, <2>5
<1>21. central' \in Nat
  BY <1>9, <1>14 DEF Total
<1>22. sleeve' = [K |-> sleeve'.K, E |-> sleeve'.E, U |-> sleeve'.U]
  BY <1>9 DEF ByMarket
<1>23. \A m \in Sleeves : sleeve'[m].sold = {} /\ sleeve'[m].flow = stepped[m].flow
  BY <1>12, <1>17
<1> QED
  BY <1>9, <1>17, <1>18, <1>19, <1>20, <1>21, <1>22, <1>23

-----------------------------------------------------------------------------
(* A publication: the day of the three sleeves, and the review.            *)

LEMMA QuotesOfMarket ==
  ASSUME NEW quotes \in QuoteTables, NEW m \in Sleeves
  PROVE  MarketQuotes(quotes, m)
<1>1. \A s \in ListedIn[m] : s \in Listed
  BY SleevesListed
<1>2. \A s \in Listed : quotes[s] \in QuotesOf[s]
  BY DEF QuoteTables
<1>3. \A s \in Listed : quotes[s] \in QuoteTypes
  BY <1>2, AllocationBookAssumption
<1>4. m = "U" => \A s \in ListedIn[m] : ~quotes[s].stop
  BY <1>1, <1>2, AllocationBookAssumption
<1> QED
  BY <1>1, <1>3, <1>4 DEF MarketQuotes

LEMMA SleeveSession ==
  ASSUME AllocationBookInv, NEW day \in AllocationBookDays, day = allocationDay + 1,
         NEW quotes \in QuoteTables, NEW m \in Sleeves,
         NEW r, r = AfterSession(sleeve[m], m, quotes, target, day)
  PROVE  /\ r \in SleeveStates(m) /\ SleeveInv(r, m, target.of[m], day) /\ r.sold = {}
         /\ r.cash - r.flow = sleeve[m].cash - sleeve[m].flow
<1>1. PICK sl, start : sl = sleeve[m] /\ start = sl.cash - sl.flow
  OBVIOUS
<1>2. sl \in SleeveStates(m) /\ SleeveInv(sl, m, target.of[m], allocationDay)
  BY <1>1 DEF AllocationBookInv
<1>3. SleeveInv(sl, m, target.of[m], day)
  <2>1. \A w \in sl.windows : w.entry <= day
    <3>1. \A w \in sl.windows : w.entry \in Nat /\ w.entry <= allocationDay
      <4>1. \A w \in sl.windows : w \in Windows
        BY <1>2, SleeveParts
      <4>2. \A w \in Windows : w.entry \in Nat
        BY DaysAreNat DEF Windows
      <4> QED
        BY <1>2, <4>1, <4>2 DEF SleeveInv, WindowsInv
    <3>2. allocationDay \in Nat /\ day \in Nat
      BY AllocationBookAssumption DEF AllocationBookInv
    <3> QED
      BY <3>1, <3>2
  <2> QED
    BY <1>2, <2>1 DEF SleeveInv, WindowsInv
<1>4. sl \in SleeveDay(m, target.of[m], day, start)
  BY <1>1, <1>2, <1>3, OfSleeveDay
<1>5. MarketQuotes(quotes, m)
  BY QuotesOfMarket
<1>6. /\ AfterSession(sl, m, quotes, target, day) \in SleeveDay(m, target.of[m], day, start)
      /\ AfterSession(sl, m, quotes, target, day).sold = {}
  BY <1>4, <1>5, AfterSessionStays
<1>7. r \in SleeveDay(m, target.of[m], day, start) /\ r.sold = {}
  BY <1>1, <1>6
<1> QED
  BY <1>1, <1>7, OfSleeveDay

LEMMA DeliveriesTyped ==
  ASSUME NEW stepped, NEW quotes, NEW day \in AllocationBookDays,
         \A m \in Sleeves : stepped[m] \in SleeveStates(m), NEW d \in Deliveries(stepped, quotes, day)
  PROVE  d \in [market : Sleeves, symbol : Listed, origin : AllocationBookDays,
                confirmed : AllocationBookDays]
<1>1. /\ d \in [market : Sleeves, symbol : Listed, origin : {day - 1, day}, confirmed : {day}]
      /\ d.origin = day - OriginLag[d.symbol]
      /\ d.symbol \in ConfirmedIn(stepped[d.market], d.market, quotes, day)
  BY DEF Deliveries
<1>2. PICK m \in Sleeves : m = d.market
  BY <1>1
<1>3. day - OriginLag[d.symbol] \in AllocationBookDays
  BY <1>1, <1>2, ConfirmedOrigin
<1> QED
  BY <1>1, <1>3

LEMMA ReviewStays ==
  ASSUME NEW stepped, NEW day, NEW deliveries, central \in Nat, target \in Targets,
         deliveries \subseteq [market : Sleeves, symbol : Listed, origin : AllocationBookDays,
                               confirmed : AllocationBookDays],
         stepped = [K |-> stepped.K, E |-> stepped.E, U |-> stepped.U],
         \A m \in Sleeves :
           /\ stepped[m] \in SleeveStates(m) /\ SleeveInv(stepped[m], m, target.of[m], day)
           /\ stepped[m].sold = {},
         Review(stepped, deliveries, day)
  PROVE  /\ sleeve' = [K |-> sleeve'.K, E |-> sleeve'.E, U |-> sleeve'.U]
         /\ \A m \in Sleeves :
              /\ sleeve'[m] \in SleeveStates(m) /\ SleeveInv(sleeve'[m], m, target'.of[m], day)
              /\ sleeve'[m].sold = {} /\ sleeve'[m].flow = stepped[m].flow
              /\ transfers'.taken[m] > 0 =>
                   sleeve'[m].cash >= Wanted(sleeve'[m], m) /\ transfers'.given[m] = 0
         /\ central' \in Nat /\ target' \in Targets
         /\ transfers' \in [taken : [K : Nat, E : Nat, U : Nat], given : [K : Nat, E : Nat, U : Nat]]
         /\ central' + (sleeve'.K.cash + sleeve'.E.cash + sleeve'.U.cash)
              = central + (stepped.K.cash + stepped.E.cash + stepped.U.cash)
<1>1. PICK active : active = {d.market : d \in {e \in deliveries : e.confirmed \in DaysOfMonth(day)}}
  OBVIOUS
<1>2. active \subseteq Sleeves
  BY <1>1
<1>3. SharesFor(active) \in Targets
  BY <1>2, SharesForTyped
<1>4. \/ (\A m \in Sleeves : stepped[m].nav # None) /\ Reviewed(stepped, SharesFor(active))
      \/ /\ sleeve' = stepped /\ transfers' = [taken |-> NoTransfers, given |-> NoTransfers]
         /\ central' = central /\ target' = target
  BY <1>1 DEF Review
<1>5. CASE (\A m \in Sleeves : stepped[m].nav # None) /\ Reviewed(stepped, SharesFor(active))
  <2>1. PICK shares \in Targets : shares = SharesFor(active)
    BY <1>3
  <2>2. Reviewed(stepped, shares)
    BY <1>5, <2>1
  <2>3. \A m \in Sleeves :
          /\ stepped[m] \in SleeveStates(m) /\ SleeveInv(stepped[m], m, target.of[m], day)
          /\ stepped[m].nav # None /\ stepped[m].sold = {}
    BY <1>5
  <2>4. /\ sleeve' = [K |-> sleeve'.K, E |-> sleeve'.E, U |-> sleeve'.U]
        /\ \A m \in Sleeves :
             /\ sleeve'[m] \in SleeveStates(m) /\ SleeveInv(sleeve'[m], m, shares.of[m], day)
             /\ sleeve'[m].sold = {} /\ sleeve'[m].flow = stepped[m].flow
             /\ transfers'.taken[m] > 0 =>
                  sleeve'[m].cash >= Wanted(sleeve'[m], m) /\ transfers'.given[m] = 0
        /\ central' \in Nat /\ target' = shares
        /\ transfers' \in [taken : [K : Nat, E : Nat, U : Nat], given : [K : Nat, E : Nat, U : Nat]]
        /\ central' + (sleeve'.K.cash + sleeve'.E.cash + sleeve'.U.cash)
             = central + (stepped.K.cash + stepped.E.cash + stepped.U.cash)
    BY <2>2, <2>3, ReviewedStays
  <2> QED
    BY <2>4
<1>6. CASE /\ sleeve' = stepped /\ transfers' = [taken |-> NoTransfers, given |-> NoTransfers]
           /\ central' = central /\ target' = target
  <2>1. NoTransfers = [K |-> 0, E |-> 0, U |-> 0]
    BY DEF NoTransfers, Each
  <2>2. \A m \in Sleeves : transfers'.taken[m] = 0
    BY <1>6, <2>1 DEF Sleeves
  <2>3. transfers' \in [taken : [K : Nat, E : Nat, U : Nat], given : [K : Nat, E : Nat, U : Nat]]
    BY <1>6, <2>1
  <2> QED
    BY <1>6, <2>2, <2>3
<1> QED
  BY <1>4, <1>5, <1>6

PublishedAs(stepped, quotes, day) ==
  /\ delivered' = delivered \cup Deliveries(stepped, quotes, day)
  /\ Review(stepped, delivered', day)
PublishedDay(quotes, day) ==
  /\ allocationDay' = day
  /\ \E stepped \in {Each(LAMBDA m : AfterSession(sleeve[m], m, quotes, target, day))} :
       PublishedAs(stepped, quotes, day)
  /\ UNCHANGED kind

\* A publication in one step: the markets' sessions, the deliveries, the review.
LEMMA PublicationParts ==
  ASSUME NEW quotes, NEW day, day = allocationDay + 1, AllocationPublication(quotes)
  PROVE  \E stepped :
           /\ stepped = ByMarket(AfterSession(sleeve.K, "K", quotes, target, day),
                                 AfterSession(sleeve.E, "E", quotes, target, day),
                                 AfterSession(sleeve.U, "U", quotes, target, day))
           /\ allocationDay' = day /\ kind' = kind
           /\ delivered' = delivered \cup Deliveries(stepped, quotes, day)
           /\ Review(stepped, delivered', day)
<1>1. PublishedDay(quotes, allocationDay + 1)
  BY DEF AllocationPublication, PublishedDay, PublishedAs
<1>2. PublishedDay(quotes, day)
  BY <1>1
<1>3. PICK stepped : stepped = ByMarket(AfterSession(sleeve.K, "K", quotes, target, day),
                                        AfterSession(sleeve.E, "E", quotes, target, day),
                                        AfterSession(sleeve.U, "U", quotes, target, day))
  OBVIOUS
<1>4. PublishedAs(stepped, quotes, day) /\ allocationDay' = day /\ kind' = kind
  BY ONLY <1>2, <1>3 DEF PublishedDay, Each, ByMarket
<1> QED
  BY ONLY <1>3, <1>4 DEF PublishedAs

\* The difference between cash and trades that a book starts with is its capital.
MoneyStands(book, money) ==
  money + (book.K.cash + book.E.cash + book.U.cash)
    = Capital + (book.K.flow + book.E.flow + book.U.flow)

LEMMA MoneyAdds ==
  /\ MoneyIsKept <=> /\ MoneyStands(sleeve, central)
                     /\ central >= 0 /\ \A m \in Sleeves : sleeve[m].cash >= 0
  /\ (MoneyIsKept <=> /\ MoneyStands(sleeve, central)
                      /\ central >= 0 /\ \A m \in Sleeves : sleeve[m].cash >= 0)'
  BY DEF MoneyIsKept, MoneyStands, Each, Total

LEMMA MoneyMoves ==
  ASSUME NEW old, NEW stepped, NEW money \in Nat, MoneyStands(old, money),
         \A m \in Sleeves : /\ old[m].cash \in Nat /\ old[m].flow \in Int
                            /\ stepped[m].cash \in Nat /\ stepped[m].flow \in Int
                            /\ stepped[m].cash - stepped[m].flow = old[m].cash - old[m].flow
  PROVE  MoneyStands(stepped, money)
<1>1. /\ old.K.cash \in Nat /\ old.E.cash \in Nat /\ old.U.cash \in Nat
      /\ old.K.flow \in Int /\ old.E.flow \in Int /\ old.U.flow \in Int
      /\ stepped.K.cash \in Nat /\ stepped.E.cash \in Nat /\ stepped.U.cash \in Nat
      /\ stepped.K.flow \in Int /\ stepped.E.flow \in Int /\ stepped.U.flow \in Int
  BY DEF Sleeves
<1>2. /\ stepped.K.cash - stepped.K.flow = old.K.cash - old.K.flow
      /\ stepped.E.cash - stepped.E.flow = old.E.cash - old.E.flow
      /\ stepped.U.cash - stepped.U.flow = old.U.cash - old.U.flow
  BY DEF Sleeves
<1>3. PICK a \in Nat, b \in Nat, c \in Nat, p \in Nat, q \in Nat, r \in Nat :
        /\ a = old.K.cash /\ b = old.E.cash /\ c = old.U.cash
        /\ p = stepped.K.cash /\ q = stepped.E.cash /\ r = stepped.U.cash
  BY <1>1
<1>4. PICK d \in Int, e \in Int, f \in Int, x \in Int, y \in Int, z \in Int :
        /\ d = old.K.flow /\ e = old.E.flow /\ f = old.U.flow
        /\ x = stepped.K.flow /\ y = stepped.E.flow /\ z = stepped.U.flow
  BY <1>1
<1>5. p - x = a - d /\ q - y = b - e /\ r - z = c - f
  BY <1>2, <1>3, <1>4
<1>6. PICK capital \in Nat : capital = Capital
  BY AllocationBookAssumption
<1>7. money + (a + b + c) = capital + (d + e + f)
  BY <1>3, <1>4, <1>6 DEF MoneyStands
<1>8. money + (p + q + r) = capital + (x + y + z)
  BY ONLY <1>5, <1>7, money \in Nat, capital \in Nat, a \in Nat, b \in Nat, c \in Nat,
          p \in Nat, q \in Nat, r \in Nat, d \in Int, e \in Int, f \in Int,
          x \in Int, y \in Int, z \in Int
<1> QED
  BY <1>3, <1>4, <1>6, <1>8 DEF MoneyStands

LEMMA PublicationStays ==
  ASSUME AllocationBookInv, allocationDay < LastAllocationDay, NEW quotes \in QuoteTables,
         AllocationPublication(quotes)
  PROVE  AllocationBookInv'
<1>1. PICK day \in AllocationBookDays : day = allocationDay + 1
  <2>1. allocationDay + 1 \in AllocationBookDays
    BY AllocationBookAssumption DEF AllocationBookInv, AllocationBookDays
  <2> QED
    BY <2>1
<1>2. PICK stepped :
        /\ stepped = ByMarket(AfterSession(sleeve.K, "K", quotes, target, day),
                              AfterSession(sleeve.E, "E", quotes, target, day),
                              AfterSession(sleeve.U, "U", quotes, target, day))
        /\ allocationDay' = day /\ kind' = kind
        /\ delivered' = delivered \cup Deliveries(stepped, quotes, day)
        /\ Review(stepped, delivered', day)
  BY <1>1, PublicationParts
<1>3. \A m \in Sleeves : stepped[m] = AfterSession(sleeve[m], m, quotes, target, day)
  BY <1>2 DEF ByMarket, Sleeves
<1>4. \A m \in Sleeves :
        /\ stepped[m] \in SleeveStates(m) /\ SleeveInv(stepped[m], m, target.of[m], day)
        /\ stepped[m].sold = {}
        /\ stepped[m].cash - stepped[m].flow = sleeve[m].cash - sleeve[m].flow
  BY <1>1, <1>3, SleeveSession
<1>5. stepped = [K |-> stepped.K, E |-> stepped.E, U |-> stepped.U]
  BY <1>2 DEF ByMarket
<1>6. delivered' \subseteq [market : Sleeves, symbol : Listed, origin : AllocationBookDays,
                           confirmed : AllocationBookDays]
  <2>1. \A d \in Deliveries(stepped, quotes, day) :
          d \in [market : Sleeves, symbol : Listed, origin : AllocationBookDays,
                 confirmed : AllocationBookDays]
    BY <1>4, DeliveriesTyped
  <2> QED
    BY <1>2, <2>1 DEF AllocationBookInv
<1>7. central \in Nat /\ target \in Targets
  BY DEF AllocationBookInv
<1>8. /\ sleeve' = [K |-> sleeve'.K, E |-> sleeve'.E, U |-> sleeve'.U]
      /\ \A m \in Sleeves :
           /\ sleeve'[m] \in SleeveStates(m) /\ SleeveInv(sleeve'[m], m, target'.of[m], day)
           /\ sleeve'[m].sold = {} /\ sleeve'[m].flow = stepped[m].flow
           /\ transfers'.taken[m] > 0 =>
                sleeve'[m].cash >= Wanted(sleeve'[m], m) /\ transfers'.given[m] = 0
      /\ central' \in Nat /\ target' \in Targets
      /\ transfers' \in [taken : [K : Nat, E : Nat, U : Nat], given : [K : Nat, E : Nat, U : Nat]]
      /\ central' + (sleeve'.K.cash + sleeve'.E.cash + sleeve'.U.cash)
           = central + (stepped.K.cash + stepped.E.cash + stepped.U.cash)
  <2>1. \A m \in Sleeves :
          /\ stepped[m] \in SleeveStates(m) /\ SleeveInv(stepped[m], m, target.of[m], day)
          /\ stepped[m].sold = {}
    BY <1>4
  <2>2. Review(stepped, delivered', day)
    BY <1>2
  <2>3. PICK deliveries : deliveries = delivered'
    OBVIOUS
  <2>4. /\ deliveries \subseteq [market : Sleeves, symbol : Listed, origin : AllocationBookDays,
                                 confirmed : AllocationBookDays]
        /\ Review(stepped, deliveries, day)
    BY <1>6, <2>2, <2>3
  <2> QED
    BY <1>5, <1>7, <2>1, <2>4, ReviewStays
<1>9. MoneyStands(sleeve', central')
  <2>1. \A m \in Sleeves : /\ sleeve[m].cash \in Nat /\ sleeve[m].flow \in Int
                           /\ stepped[m].cash \in Nat /\ stepped[m].flow \in Int
    BY <1>4, SleeveParts DEF AllocationBookInv
  <2>2. MoneyStands(sleeve, central)
    BY MoneyAdds DEF AllocationBookInv
  <2>3. MoneyStands(stepped, central)
    BY <1>4, <1>7, <2>1, <2>2, MoneyMoves
  <2>4. /\ sleeve'.K.flow = stepped.K.flow /\ sleeve'.E.flow = stepped.E.flow
        /\ sleeve'.U.flow = stepped.U.flow
    BY <1>8 DEF Sleeves
  <2> QED
    BY <1>8, <2>3, <2>4 DEF MoneyStands
<1>10. \A m \in Sleeves : sleeve'[m].cash >= 0
  BY <1>8, SleeveParts
<1>11. MoneyIsKept'
  BY <1>8, <1>9, <1>10, MoneyAdds
<1>12. OrdersKeepTheirMoney'
  BY <1>8 DEF OrdersKeepTheirMoney
<1>13. kind' \in {"O1", "S07"} /\ allocationDay' \in 0 .. LastAllocationDay
  BY <1>1, <1>2 DEF AllocationBookInv, AllocationBookDays
<1>14. \A m \in Sleeves :
         /\ sleeve'[m] \in SleeveStates(m) /\ SleeveInv(sleeve'[m], m, target'.of[m], allocationDay')
         /\ sleeve'[m].sold = {}
  BY <1>2, <1>8
<1> QED
  BY <1>6, <1>8, <1>11, <1>12, <1>13, <1>14 DEF AllocationBookInv

-----------------------------------------------------------------------------
LEMMA FreshStays ==
  ASSUME NEW m \in Sleeves, NEW amount \in Nat
  PROVE  LET f == Fresh(m, amount) IN
         /\ f \in SleeveStates(m) /\ \A share : SleeveInv(f, m, share, 0)
         /\ f.sold = {} /\ f.cash = amount /\ f.flow = 0
<1>1. PICK f : f = Fresh(m, amount)
  OBVIOUS
<1>2. /\ f \in SleeveStates(m) /\ f.cash = amount /\ f.flow = 0 /\ f.orders = {} /\ f.exits = {}
      /\ f.windows = {} /\ f.sold = {} /\ f.shares = [s \in ListedIn[m] |-> 0]
  BY <1>1 DEF Fresh, SleeveStates
<1>3. \A share : SleeveInv(f, m, share, 0)
  BY <1>2 DEF SleeveInv, OrdersInv, WindowsInv
<1> QED
  BY <1>1, <1>2, <1>3

\* The inductive invariant implies the types.
LEMMA InvTypes ==
  ASSUME AllocationBookInv
  PROVE  AllocationBookTypeOK
<1>1. \A m \in Sleeves :
        LET sl == sleeve[m] IN
        /\ sl.cash \in Int /\ sl.flow \in Int /\ {sl.nav, sl.sized} \subseteq Nat \cup {None}
        /\ sl.shares \in [ListedIn[m] -> Nat] /\ sl.orders \subseteq Orders
        /\ sl.exits \subseteq ListedIn[m] /\ sl.sold = {} /\ sl.windows \subseteq Windows
        /\ sl.onsets \subseteq [symbol : ListedIn[m], day : AllocationBookDays]
        /\ sl.observed \subseteq AllocationBookDays
  <2> TAKE m \in Sleeves
  <2>1. sleeve[m] \in SleeveStates(m) /\ sleeve[m].sold = {}
    BY DEF AllocationBookInv
  <2> QED
    BY <2>1, SleeveParts
<1>2. \A t \in [K : Nat, E : Nat, U : Nat] : t \in [Sleeves -> Nat]
  BY DEF Sleeves
<1>3. transfers \in [taken : [Sleeves -> Nat], given : [Sleeves -> Nat]]
  BY <1>2 DEF AllocationBookInv
<1>4. target.den \in Nat \ {0} /\ target.of \in [{"K", "E", "U", "C"} -> Nat]
  BY DEF AllocationBookInv, Targets
<1> QED
  BY <1>1, <1>3, <1>4 DEF AllocationBookInv, AllocationBookTypeOK

\* And the policy: one order or one exit of a stock.
LEMMA InvPolicy ==
  ASSUME AllocationBookInv
  PROVE  OrdersFollowThePolicy
<1> SUFFICES ASSUME NEW m \in Sleeves, NEW sl, sl = sleeve[m]
             PROVE  /\ target.of[m] = 0 => sl.orders = {}
                    /\ \A s \in ListedIn[m] :
                         /\ Cardinality(OrderOf(sl, s)) + Cardinality({s} \cap sl.exits) <= 1
                         /\ s \in HeldIn(sl) <=> \E w \in sl.windows : w.symbol = s /\ w.exit = 0
                    /\ sl.exits \subseteq HeldIn(sl)
                    /\ \A w, v \in sl.windows :
                         w.symbol = v.symbol /\ w.entry < v.entry => w.exit # 0 /\ w.exit < v.origin
  BY DEF OrdersFollowThePolicy
<1>1. sl \in SleeveStates(m) /\ SleeveInv(sl, m, target.of[m], allocationDay)
  BY DEF AllocationBookInv
<1>2. /\ sl.shares \in [ListedIn[m] -> Nat] /\ sl.exits \subseteq ListedIn[m]
      /\ HeldIn(sl) = {s \in ListedIn[m] : sl.shares[s] > 0}
  BY <1>1, SleeveParts DEF HeldIn
<1>3. ASSUME NEW s \in ListedIn[m]
      PROVE  Cardinality(OrderOf(sl, s)) + Cardinality({s} \cap sl.exits) <= 1
  <2>1. CASE OrderOf(sl, s) = {}
    <3>1. {s} \cap sl.exits = {} \/ {s} \cap sl.exits = {s}
      OBVIOUS
    <3>2. Cardinality({s} \cap sl.exits) \in {0, 1}
      BY <3>1, FS_EmptySet, FS_Singleton
    <3>3. Cardinality(OrderOf(sl, s)) = 0
      BY <2>1, FS_EmptySet
    <3> QED
      BY <3>2, <3>3
  <2>2. CASE OrderOf(sl, s) # {}
    <3>1. PICK o : o \in sl.orders /\ o.symbol = s
      BY <2>2 DEF OrderOf
    <3>2. OrderOf(sl, s) = {o}
      BY <1>1, <3>1 DEF OrderOf, SleeveInv, OrdersInv
    <3>3. {s} \cap sl.exits = {}
      BY <1>1, <3>1 DEF SleeveInv, OrdersInv
    <3>4. Cardinality(OrderOf(sl, s)) = 1 /\ Cardinality({s} \cap sl.exits) = 0
      BY <3>2, <3>3, FS_EmptySet, FS_Singleton
    <3> QED
      BY <3>4
  <2> QED
    BY <2>1, <2>2
<1>4. \A s \in ListedIn[m] : s \in HeldIn(sl) <=> \E w \in sl.windows : w.symbol = s /\ w.exit = 0
  BY <1>1, <1>2 DEF SleeveInv, WindowsInv
<1>5. sl.exits \subseteq HeldIn(sl)
  BY <1>1, <1>2 DEF SleeveInv
<1> QED
  BY <1>1, <1>3, <1>4, <1>5 DEF SleeveInv, WindowsInv

LEMMA BookStarts ==
  ASSUME AllocationBookInit
  PROVE  AllocationBookInv
<1>1. kind \in {"O1", "S07"} /\ target = InitialTarget[kind]
  BY DEF AllocationBookInit
<1>2. target = Shares(3, 1, 1, 1, 0) \/ target = Shares(5, 3, 1, 1, 0)
  BY <1>1 DEF InitialTarget
<1>3. PICK den, k, e, u : /\ target = [den |-> den, of |-> [K |-> k, E |-> e, U |-> u, C |-> 0]]
                          /\ \/ den = 3 /\ k = 1 /\ e = 1 /\ u = 1
                             \/ den = 5 /\ k = 3 /\ e = 1 /\ u = 1
  BY <1>2 DEF Shares
<1>4. target \in Targets
  BY <1>3 DEF Targets
<1>5. PICK n \in Nat : Capital = 15 * n
  <2>1. Capital \in Nat /\ Capital % 15 = 0
    BY AllocationBookAssumption
  <2>2. Capital = 15 * (Capital \div 15) /\ Capital \div 15 \in Nat
    BY <2>1
  <2> QED
    BY <2>2
<1>6. PICK a, b, c : /\ a = TargetAmount(Capital, target, "K") /\ b = TargetAmount(Capital, target, "E")
                     /\ c = TargetAmount(Capital, target, "U")
  OBVIOUS
<1>7. a \in Nat /\ b \in Nat /\ c \in Nat /\ a + b + c = Capital
  <2>1. a = (Capital * k) \div den /\ b = (Capital * e) \div den /\ c = (Capital * u) \div den
    BY <1>3, <1>6 DEF TargetAmount
  <2>2. CASE den = 3
    BY <1>3, <1>5, <2>1, <2>2
  <2>3. CASE den = 5
    BY <1>3, <1>5, <2>1, <2>3
  <2> QED
    BY <1>3, <2>2, <2>3
<1>8. sleeve = ByMarket(Fresh("K", a), Fresh("E", b), Fresh("U", c))
  BY <1>6 DEF AllocationBookInit, Each, ByMarket
<1>9. \A m \in Sleeves, amount \in Nat : LET f == Fresh(m, amount) IN
        /\ f \in SleeveStates(m) /\ \A share : SleeveInv(f, m, share, 0)
        /\ f.sold = {} /\ f.cash = amount /\ f.flow = 0
  BY FreshStays
<1>10. \A m \in Sleeves :
         /\ sleeve[m] \in SleeveStates(m) /\ SleeveInv(sleeve[m], m, target.of[m], 0)
         /\ sleeve[m].sold = {} /\ sleeve[m].cash >= 0
  BY <1>7, <1>8, <1>9 DEF ByMarket, Sleeves
<1>11. /\ sleeve.K.cash = a /\ sleeve.E.cash = b /\ sleeve.U.cash = c
       /\ sleeve.K.flow = 0 /\ sleeve.E.flow = 0 /\ sleeve.U.flow = 0
  BY <1>7, <1>8, <1>9 DEF ByMarket, Sleeves
<1>12. central = 0 /\ allocationDay = 0 /\ delivered = {}
       /\ transfers = [taken |-> NoTransfers, given |-> NoTransfers]
  BY DEF AllocationBookInit
<1>13. NoTransfers = [K |-> 0, E |-> 0, U |-> 0]
  BY DEF NoTransfers, Each
<1>14. MoneyIsKept
  <2>1. MoneyStands(sleeve, central)
    BY <1>5, <1>7, <1>11, <1>12 DEF MoneyStands
  <2> QED
    BY <1>10, <1>12, <2>1, MoneyAdds
<1>15. OrdersKeepTheirMoney
  BY <1>12, <1>13 DEF OrdersKeepTheirMoney, Sleeves
<1>16. transfers \in [taken : [K : Nat, E : Nat, U : Nat], given : [K : Nat, E : Nat, U : Nat]]
  BY <1>12, <1>13
<1>17. sleeve = [K |-> sleeve.K, E |-> sleeve.E, U |-> sleeve.U]
  BY <1>8 DEF ByMarket
<1>18. allocationDay \in 0 .. LastAllocationDay
  BY <1>12, AllocationBookAssumption
<1> QED
  BY <1>1, <1>4, <1>10, <1>12, <1>14, <1>15, <1>16, <1>17, <1>18 DEF AllocationBookInv

\* In every reachable state, whatever the stocks, their quotes, the capital and
\* the number of days, the inductive invariant of an allocation book holds.
THEOREM AllocationBookInvariant == AllocationBookSpec => []AllocationBookInv
<1>1. AllocationBookInit => AllocationBookInv
  BY BookStarts
<1>2. AllocationBookInv /\ [AllocationBookNext]_allocationBookVars => AllocationBookInv'
  <2> SUFFICES ASSUME AllocationBookInv, [AllocationBookNext]_allocationBookVars
               PROVE  AllocationBookInv'
    OBVIOUS
  <2>1. CASE AllocationBookNext
    BY <2>1, PublicationStays DEF AllocationBookNext
  <2>2. CASE UNCHANGED allocationBookVars
    <3>1. /\ kind' = kind /\ allocationDay' = allocationDay /\ sleeve' = sleeve /\ central' = central
          /\ target' = target /\ delivered' = delivered /\ transfers' = transfers
      BY <2>2 DEF allocationBookVars
    <3>2. MoneyIsKept'
      BY <3>1, MoneyAdds DEF AllocationBookInv
    <3>3. OrdersKeepTheirMoney'
      BY <3>1 DEF AllocationBookInv, OrdersKeepTheirMoney
    <3> QED
      BY <3>1, <3>2, <3>3 DEF AllocationBookInv
  <2> QED
    BY <2>1, <2>2
<1> QED
  BY <1>1, <1>2, PTL DEF AllocationBookSpec

\* Every variable of an allocation book keeps its type.
THEOREM AllocationBookTypes == AllocationBookSpec => []AllocationBookTypeOK
<1>1. AllocationBookInv => AllocationBookTypeOK
  BY InvTypes
<1> QED
  BY <1>1, AllocationBookInvariant, PTL

\* The book is sound: reviews keep the money to the last unit and leave every
\* sleeve what its orders need, and orders, exits and holdings follow the policy.
THEOREM AllocationBookStaysSound == AllocationBookSpec => []AllocationBookIsSound
<1>1. AllocationBookInv => AllocationBookIsSound
  BY InvPolicy DEF AllocationBookInv, AllocationBookIsSound
<1> QED
  BY <1>1, AllocationBookInvariant, PTL
=============================================================================
