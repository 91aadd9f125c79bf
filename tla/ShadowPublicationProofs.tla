----------------------- MODULE ShadowPublicationProofs -----------------------
(***************************************************************************)
(* Theorems about ShadowPublication, for every number of books, sessions,  *)
(* versions and runs, and every bound on faults.                           *)
(***************************************************************************)
EXTENDS ShadowPublication, WellFoundedInduction, TLAPS

-----------------------------------------------------------------------------
(* The inductive invariant.                                                *)

\* The dates with rows are the first ones.
InOrder == \A d, e \in Dates : e < d /\ source[d] > 0 => source[e] > 0

\* A book has no gaps.
Contiguous ==
  \A b \in Books, d, e \in Dates : e < d /\ Recorded(b, d) => Recorded(b, e)

\* A prepared publication has a run for every book.
Filled == \A b \in Books, d \in Dates : IsPrepared(d) => prepared[d].entries[b].run # <<>>

\* What a run relies on, by the step it is at.
Working(own) == own.pc \notin {"idle", "heads"}

HasRows(own) == own.pc # "idle" => \A d \in 1 .. own.through : own.data[d] > 0

HeadsRead(own, sess) ==
  own.pc = "heads" =>
    \A b \in Books : own.heads[b] \in Dates => sess[b][own.heads[b]] # <<>>

DaysBefore(own, sess) ==
  Working(own) => /\ own.date <= own.through
                  /\ \A b \in Books, d \in 1 .. own.date - 1 : sess[b][d] # <<>>

RunsComputed(own) ==
  /\ own.pc \in {"session", "latest"} =>
       \A b \in 1 .. own.book - 1 : own.entries[b].run # <<>>
  /\ own.pc = "stage" => \A b \in Books : own.entries[b].run # <<>>

AsPrepared(own, prep, sess) ==
  own.pc \in {"persist", "append"} =>
    /\ prep[own.date].input # 0 /\ own.entries = prep[own.date].entries
    /\ \A b \in 1 .. own.book - 1 : sess[b][own.date] # <<>>

RunInv(own, prep, sess) ==
  /\ HasRows(own) /\ HeadsRead(own, sess) /\ DaysBefore(own, sess)
  /\ RunsComputed(own) /\ AsPrepared(own, prep, sess)

Inv ==
  /\ TypeOK /\ InOrder /\ Contiguous /\ Filled /\ OneDecision
  /\ \A r \in Runs : RunInv(run[r], prepared, session)

-----------------------------------------------------------------------------
(* The newest of a set of dates.                                           *)

LEMMA Newest ==
  ASSUME NEW S \in SUBSET Dates
  PROVE  \E n \in 0 .. MaxDate : /\ n # 0 => n \in S
                                 /\ \A d \in S : d <= n
<1> DEFINE T == {MaxDate - d : d \in S}
           R == {ss \in Nat \X Nat : ss[1] < ss[2]}
<1> USE PublicationAssumption DEF Dates
<1>1. CASE S = {}
  BY <1>1
<1>2. CASE S # {}
  <2>1. T \subseteq Nat /\ T # {}
    <3>1. \A d \in S : MaxDate - d \in Nat
      OBVIOUS
    <3> QED
      BY <3>1, <1>2, Zenon
  <2>2. IsWellFoundedOn(R, Nat)
    BY NatLessThanWellFounded, Zenon DEF OpToRel
  <2>3. PICK x \in T : \A y \in T : ~ (<<y, x>> \in R)
    <3> HIDE DEF T, R
    <3> QED
      BY <2>1, <2>2, WFMin
  <2>4. \A y \in T : ~ (y < x)
    <3> HIDE DEF T
    <3> QED
      BY <2>1, <2>3
  <2>5. PICK n \in S : x = MaxDate - n
    OBVIOUS
  <2>6. ASSUME NEW d \in S
        PROVE  d <= n
    <3>1. ~ (MaxDate - d < MaxDate - n)
      BY <2>4, <2>5
    <3> QED
      BY <3>1
  <2> QED
    BY <2>6
<1> QED
  BY <1>1, <1>2

LEMMA LatestIsNewest ==
  ASSUME NEW b \in Books
  PROVE  /\ Latest(b) \in 0 .. MaxDate
         /\ Latest(b) # 0 => Recorded(b, Latest(b))
         /\ \A d \in Dates : Recorded(b, d) => d <= Latest(b)
<1> DEFINE S == {d \in Dates : Recorded(b, d)}
<1>1. \E n \in 0 .. MaxDate : (n # 0 => n \in S) /\ \A d \in S : d <= n
  <2> HIDE DEF S
  <2>1. S \in SUBSET Dates
    BY DEF S
  <2> QED
    BY <2>1, Newest
<1>2. \E n \in 0 .. MaxDate : /\ n # 0 => Recorded(b, n)
                              /\ \A d \in Dates : Recorded(b, d) => d <= n
  BY <1>1
<1> QED
  BY <1>2, Zenon DEF Latest

\* When the dates with rows are the first ones, Through is the last of them.
LEMMA ThroughIsLast ==
  ASSUME TypeOK, InOrder
  PROVE  /\ Through(source) \in 0 .. MaxDate
         /\ \A d \in Dates : source[d] > 0 <=> d <= Through(source)
<1> DEFINE S == {d \in Dates : source[d] > 0}
<1>1. PICK n \in 0 .. MaxDate : (n # 0 => n \in S) /\ \A d \in S : d <= n
  <2> HIDE DEF S
  <2>1. S \in SUBSET Dates
    BY DEF S
  <2> QED
    BY <2>1, Newest
<1>2. ASSUME NEW d \in Dates
      PROVE  source[d] > 0 <=> d <= n
  BY <1>1, PublicationAssumption DEF InOrder, Dates, TypeOK
<1>3. \E m \in 0 .. MaxDate : \A d \in Dates : source[d] > 0 <=> d <= m
  BY <1>2
<1> QED
  BY <1>3, Zenon DEF Through

-----------------------------------------------------------------------------
(* Steps of one run.                                                       *)

\* Prepared days stay as they are, and so do recorded sessions.
LEMMA RunInvStays ==
  ASSUME NEW own \in RunState, NEW prep, NEW sess, NEW prep2, NEW sess2,
         \A d \in Dates : prep[d].input # 0 => prep2[d] = prep[d],
         \A b \in Books, d \in Dates : sess[b][d] # <<>> => sess2[b][d] = sess[b][d],
         RunInv(own, prep, sess)
  PROVE  RunInv(own, prep2, sess2)
<1> USE PublicationAssumption
<1>1. own.date \in Dates /\ own.book \in Books /\ 1 .. own.date - 1 \subseteq Dates
      /\ 1 .. own.book - 1 \subseteq Books
  BY DEF RunState, Dates, Books
<1>2. HasRows(own) /\ RunsComputed(own)
  BY DEF RunInv
<1>3. HeadsRead(own, sess2)
  BY DEF RunInv, HeadsRead
<1>4. DaysBefore(own, sess2)
  BY <1>1 DEF RunInv, DaysBefore
<1>5. AsPrepared(own, prep2, sess2)
  BY <1>1 DEF RunInv, AsPrepared
<1> QED
  BY <1>2, <1>3, <1>4, <1>5 DEF RunInv

\* A step that only moves one run keeps the invariant when the run is sound.
LEMMA QuietStep ==
  ASSUME Inv, NEW r \in Runs, NEW own \in RunState,
         Become(r, own), RunInv(own, prepared, session),
         UNCHANGED <<source, prepared, session>>, faults' \in 0 .. MaxFaults
  PROVE  Inv'
<1>1. run' \in [Runs -> RunState] /\ \A q \in Runs : run'[q] = IF q = r THEN own ELSE run[q]
  BY DEF Inv, TypeOK, Become
<1>2. TypeOK'
  BY <1>1 DEF Inv, TypeOK
<1>3. (InOrder /\ Contiguous /\ Filled /\ OneDecision)'
  BY DEF Inv, InOrder, Contiguous, Filled, OneDecision, Recorded, IsPrepared
<1>4. \A q \in Runs : RunInv(run[q], prepared, session)'
  <2> TAKE q \in Runs
  <2>1. RunInv(run'[q], prepared, session)
    BY <1>1 DEF Inv
  <2> QED
    BY <2>1
<1> QED
  BY <1>2, <1>3, <1>4 DEF Inv

\* A run that stopped relies on nothing.
LEMMA IdleIsSound == Idle \in RunState /\ RunInv(Idle, prepared, session)
<1> USE PublicationAssumption
<1>1. NoEntries \in [Books -> Entry]
  <2>1. <<>> \in History
    BY DEF History
  <2> QED
    BY <2>1 DEF NoEntries, Entry
<1>2. Idle \in RunState
  BY <1>1 DEF Idle, RunState, Dates, Books, Unread
<1>3. Idle.pc = "idle"
  BY DEF Idle
<1> QED
  BY <1>2, <1>3 DEF RunInv, HasRows, HeadsRead, DaysBefore, RunsComputed, AsPrepared, Working

LEMMA StopStep ==
  ASSUME Inv, NEW r \in Runs, Stop(r),
         UNCHANGED <<source, prepared, session>>, faults' \in 0 .. MaxFaults
  PROVE  Inv'
BY IdleIsSound, QuietStep DEF Stop

LEMMA StartReplayStep ==
  ASSUME Inv, NEW r \in Runs, StartReplay(r)
  PROVE  Inv'
<1> DEFINE own == [Idle EXCEPT !.pc = "heads", !.data = source, !.through = Through(source)]
<1>1. Become(r, own) /\ UNCHANGED <<source, prepared, session, faults>>
  BY DEF StartReplay
<1>2. TypeOK /\ InOrder
  BY DEF Inv
<1>3. Through(source) \in 0 .. MaxDate /\ \A d \in Dates : source[d] > 0 <=> d <= Through(source)
  BY <1>2, ThroughIsLast
<1>4. own \in RunState
  BY <1>2, <1>3, IdleIsSound DEF RunState, TypeOK
<1>5. own.pc = "heads" /\ own.data = source /\ own.through = Through(source)
      /\ own.heads = [b \in Books |-> Unread]
  BY DEF Idle
<1>6. HasRows(own)
  BY <1>3, <1>5, PublicationAssumption DEF HasRows, Dates
<1>7. HeadsRead(own, session)
  BY <1>5, PublicationAssumption DEF HeadsRead, Dates, Unread
<1>8. RunInv(own, prepared, session)
  BY <1>5, <1>6, <1>7 DEF RunInv, DaysBefore, RunsComputed, AsPrepared, Working
<1>9. faults' \in 0 .. MaxFaults
  BY <1>1, <1>2 DEF TypeOK
<1> HIDE DEF own
<1> QED
  BY <1>1, <1>4, <1>8, <1>9, QuietStep

LEMMA ReadHeadStep ==
  ASSUME Inv, NEW r \in Runs, NEW b \in Books, ReadHead(r, b)
  PROVE  Inv'
<1> DEFINE own == [run[r] EXCEPT !.heads[b] = Latest(b)]
<1>1. Become(r, own) /\ UNCHANGED <<source, prepared, session, faults>> /\ run[r].pc = "heads"
  BY DEF ReadHead
<1>2. run[r] \in RunState /\ RunInv(run[r], prepared, session) /\ faults' \in 0 .. MaxFaults
  BY <1>1 DEF Inv, TypeOK
<1>3. /\ Latest(b) \in 0 .. MaxDate
      /\ Latest(b) # 0 => session[b][Latest(b)] # <<>>
  BY LatestIsNewest DEF Recorded
<1>4. own \in RunState
  <2>1. [run[r].heads EXCEPT ![b] = Latest(b)] \in [Books -> 0 .. Unread]
    BY <1>2, <1>3, PublicationAssumption DEF RunState, Unread
  <2> QED
    BY <1>2, <2>1 DEF RunState
<1>5. /\ own.pc = "heads" /\ own.data = run[r].data /\ own.through = run[r].through
      /\ own.heads = [run[r].heads EXCEPT ![b] = Latest(b)]
  BY <1>1, <1>2 DEF RunState
<1>6. HeadsRead(own, session)
  <2>1. \A c \in Books : own.heads[c] = IF c = b THEN Latest(b) ELSE run[r].heads[c]
    BY <1>2, <1>5 DEF RunState
  <2> QED
    BY <1>1, <1>2, <1>3, <2>1, PublicationAssumption DEF RunInv, HeadsRead, Dates
<1>7. RunInv(own, prepared, session)
  BY <1>1, <1>2, <1>5, <1>6 DEF RunInv, HasRows, DaysBefore, RunsComputed, AsPrepared, Working
<1> HIDE DEF own
<1> QED
  BY <1>1, <1>2, <1>4, <1>7, QuietStep

\* A book that records a day records every day before it.
LEMMA RecordsBefore ==
  ASSUME Contiguous, NEW d \in 0 .. MaxDate, NEW b \in Books, d # 0 => Recorded(b, d)
  PROVE  \A e \in 1 .. d : Recorded(b, e)
BY PublicationAssumption DEF Contiguous, Dates

LEMMA AlignStep ==
  ASSUME Inv, NEW r \in Runs, Align(r)
  PROVE  Inv'
<1> DEFINE head == run[r].heads[1]
           own == [run[r] EXCEPT !.pc = "lookup", !.date = head + 1]
           aligned == (\A b \in Books : run[r].heads[b] = head) /\ head < run[r].through
<1>1. /\ run[r].pc = "heads" /\ \A b \in Books : run[r].heads[b] # Unread
      /\ IF aligned THEN Become(r, own) ELSE Stop(r)
      /\ UNCHANGED <<source, prepared, session, faults>>
  BY DEF Align
<1>2. run[r] \in RunState /\ RunInv(run[r], prepared, session) /\ faults' \in 0 .. MaxFaults
  BY <1>1 DEF Inv, TypeOK
<1>3. CASE ~ aligned
  <2> HIDE DEF own, aligned
  <2> QED
    BY <1>1, <1>2, <1>3, StopStep
<1>4. CASE aligned
  <2>1. 1 \in Books /\ run[r].heads \in [Books -> 0 .. Unread] /\ run[r].through \in 0 .. MaxDate
    BY <1>2, PublicationAssumption DEF Books, RunState
  <2>2. head \in 0 .. MaxDate /\ head + 1 \in Dates /\ head + 1 <= run[r].through
    BY <1>1, <1>4, <2>1, PublicationAssumption DEF Dates, Unread
  <2>3. own \in RunState
    BY <1>2, <2>2 DEF RunState
  <2>4. /\ own.pc = "lookup" /\ own.data = run[r].data /\ own.through = run[r].through
        /\ own.date = head + 1
    BY <1>2 DEF RunState
  <2>5. ASSUME NEW b \in Books
        PROVE  \A d \in 1 .. head : session[b][d] # <<>>
    <3>1. head # 0 => Recorded(b, head)
      BY <1>1, <1>2, <1>4, <2>2, PublicationAssumption DEF RunInv, HeadsRead, Dates, Recorded
    <3> QED
      BY <2>2, <3>1, RecordsBefore DEF Inv, Recorded
  <2>6. DaysBefore(own, session)
    <3>1. own.date - 1 = head
      BY <2>2, <2>4
    <3> HIDE DEF own, head
    <3> QED
      BY <2>2, <2>4, <2>5, <3>1 DEF DaysBefore
  <2>7. HasRows(own)
    BY <1>1, <1>2, <2>4 DEF RunInv, HasRows
  <2>8. RunInv(own, prepared, session)
    BY <2>4, <2>6, <2>7 DEF RunInv, HeadsRead, RunsComputed, AsPrepared
  <2> HIDE DEF own, aligned
  <2> QED
    BY <1>1, <1>2, <1>4, <2>3, <2>8, QuietStep
<1> QED
  BY <1>3, <1>4

-----------------------------------------------------------------------------
(* Planned and computed entries.                                           *)

LEMMA PlannedEntries ==
  ASSUME NEW date \in Dates, NEW input \in 1 .. MaxVersion, NEW before \in [Books -> History]
  PROVE  /\ Planned(date, input, before) \in [Books -> Entry]
         /\ \A b \in Books : Planned(date, input, before)[b].run # <<>>
<1> DEFINE day == [date |-> date, input |-> input]
<1>1. day \in Day
  BY DEF Day
<1>2. ASSUME NEW b \in Books
      PROVE  Append(before[b], day) \in History /\ Append(before[b], day) # <<>>
  <2> HIDE DEF day
  <2> QED
    BY <1>1 DEF History
<1>3. date - 1 \in 0 .. MaxDate
  BY PublicationAssumption DEF Dates
<1> HIDE DEF day
<1>4. Planned(date, input, before) =
        [b \in Books |-> [run |-> Append(before[b], day),
                          previousDate |-> date - 1, previousHash |-> before[b]]]
  BY DEF Planned, day
<1> QED
  BY <1>2, <1>3, <1>4 DEF Entry

LEMMA StatesAreHistories ==
  ASSUME TypeOK, NEW b \in Books, NEW d \in 0 .. MaxDate
  PROVE  StateAt(b, d) \in History
<1>1. d # 0 => d \in Dates
  BY PublicationAssumption DEF Dates
<1>2. <<>> \in History
  BY DEF History
<1> QED
  BY <1>1, <1>2 DEF StateAt, TypeOK

LEMMA SteppedRun ==
  ASSUME TypeOK, NEW r \in Runs, run[r].data[run[r].date] > 0, NEW before \in History
  PROVE  Stepped(r, before) \in History /\ Stepped(r, before) # <<>>
<1> DEFINE day == [date |-> run[r].date, input |-> run[r].data[run[r].date]]
<1>1. day \in Day
  BY PublicationAssumption DEF Day, TypeOK, RunState
<1> HIDE DEF day
<1>2. Stepped(r, before) = Append(before, day)
  BY DEF Stepped, day
<1> QED
  BY <1>1, <1>2 DEF History

\* A run at work has rows for the day it is at.
LEMMA WorkHasRows ==
  ASSUME NEW own \in RunState, HasRows(own), DaysBefore(own, session), Working(own)
  PROVE  own.data[own.date] \in 1 .. MaxVersion
<1>1. own.date \in Dates /\ own.date \in 1 .. own.through /\ own.pc # "idle"
      /\ own.data[own.date] \in 0 .. MaxVersion
  BY PublicationAssumption DEF RunState, Dates, DaysBefore, Working
<1> QED
  BY <1>1, PublicationAssumption DEF HasRows

LEMMA StartContinuationStep ==
  ASSUME Inv, NEW r \in Runs, NEW base \in 0 .. MaxDate - 1, StartContinuation(r, base)
  PROVE  Inv'
<1> DEFINE through == Through(source)
           before == [b \in Books |-> StateAt(b, base)]
           entries == Planned(base + 1, source[base + 1], before)
           own == [Idle EXCEPT !.pc = "stage", !.data = source, !.through = through,
                     !.date = base + 1, !.entries = entries]
<1>1. /\ base < through /\ PlanAccepts(base, through) /\ Become(r, own)
      /\ UNCHANGED <<source, prepared, session, faults>>
  BY DEF StartContinuation
<1>2. TypeOK /\ InOrder /\ Contiguous
  BY DEF Inv
<1>3. through \in 0 .. MaxDate /\ \A d \in Dates : source[d] > 0 <=> d <= through
  BY <1>2, ThroughIsLast
<1>4. base + 1 \in Dates /\ base + 1 <= through /\ base \in 0 .. MaxDate
  BY <1>1, <1>3, PublicationAssumption DEF Dates
<1>5. source[base + 1] \in 1 .. MaxVersion
  BY <1>2, <1>3, <1>4, PublicationAssumption DEF TypeOK
<1>6. before \in [Books -> History]
  BY <1>2, <1>4, StatesAreHistories
<1>7. entries \in [Books -> Entry] /\ \A b \in Books : entries[b].run # <<>>
  <2> HIDE DEF before
  <2> QED
    BY <1>4, <1>5, <1>6, PlannedEntries
<1> HIDE DEF entries, before
<1>8. own \in RunState
  BY <1>2, <1>3, <1>4, <1>7, IdleIsSound DEF RunState, TypeOK
<1>9. /\ own.pc = "stage" /\ own.data = source /\ own.through = through
      /\ own.date = base + 1 /\ own.entries = entries
  BY DEF Idle
<1>10. HasRows(own)
  BY <1>3, <1>9, PublicationAssumption DEF HasRows, Dates
<1>11. DaysBefore(own, session)
  <2>1. own.date - 1 = base
    BY <1>9
  <2>2. ASSUME NEW b \in Books
        PROVE  \A d \in 1 .. base : session[b][d] # <<>>
    <3>1. base # 0 => Recorded(b, base)
      BY <1>1 DEF PlanAccepts
    <3> QED
      BY <1>2, <1>4, <3>1, RecordsBefore DEF Recorded
  <2> HIDE DEF own, through
  <2> QED
    BY <1>4, <1>9, <2>1, <2>2 DEF DaysBefore
<1>12. RunInv(own, prepared, session)
  <2> HIDE DEF own, through
  <2> QED
    BY <1>7, <1>9, <1>10, <1>11 DEF RunInv, HeadsRead, RunsComputed, AsPrepared
<1>13. faults' \in 0 .. MaxFaults
  BY <1>1, <1>2 DEF TypeOK
<1> HIDE DEF own, through
<1> QED
  BY <1>1, <1>8, <1>12, <1>13, QuietStep

-----------------------------------------------------------------------------
(* One day of a run.                                                       *)

LEMMA LookupStep ==
  ASSUME Inv, NEW r \in Runs, Lookup(r)
  PROVE  Inv'
<1> DEFINE own == run[r]
           saved == prepared[own.date]
           fresh == [own EXCEPT !.pc = "session", !.book = 1, !.entries = NoEntries]
           again == [own EXCEPT !.pc = "persist", !.book = 1, !.entries = saved.entries]
<1>1. own.pc = "lookup" /\ UNCHANGED <<source, prepared, session, faults>>
  BY DEF Lookup
<1>2. own \in RunState /\ RunInv(own, prepared, session) /\ faults' \in 0 .. MaxFaults
  BY <1>1 DEF Inv, TypeOK
<1>3. own.data[own.date] \in 1 .. MaxVersion
  BY <1>1, <1>2, WorkHasRows DEF RunInv, Working
<1>4. 1 \in Books /\ 1 .. 1 - 1 = {} /\ own.date \in Dates
  BY <1>2, PublicationAssumption DEF Books, RunState
<1>5. saved.entries \in [Books -> Entry]
  BY <1>4 DEF Inv, TypeOK
<1>6. CASE Become(r, fresh)
  <2>1. fresh \in RunState
    BY <1>2, <1>4, IdleIsSound DEF RunState, Idle
  <2>2. /\ fresh.pc = "session" /\ fresh.data = own.data /\ fresh.through = own.through
        /\ fresh.date = own.date /\ fresh.book = 1
    BY <1>2 DEF RunState
  <2> HIDE DEF fresh, own
  <2>3. RunInv(fresh, prepared, session)
    BY <1>1, <1>2, <1>4, <2>2
       DEF RunInv, HasRows, HeadsRead, DaysBefore, RunsComputed, AsPrepared, Working
  <2> QED
    BY <1>1, <1>2, <1>6, <2>1, <2>3, QuietStep
<1>7. CASE saved.input = own.data[own.date] /\ Become(r, again)
  <2>1. again \in RunState
    BY <1>2, <1>4, <1>5 DEF RunState
  <2>2. /\ again.pc = "persist" /\ again.data = own.data /\ again.through = own.through
        /\ again.date = own.date /\ again.book = 1 /\ again.entries = prepared[own.date].entries
    BY <1>2 DEF RunState
  <2>3. prepared[own.date].input # 0
    BY <1>3, <1>7
  <2> HIDE DEF again, own
  <2>4. RunInv(again, prepared, session)
    BY <1>1, <1>2, <1>4, <2>2, <2>3
       DEF RunInv, HasRows, HeadsRead, DaysBefore, RunsComputed, AsPrepared, Working
  <2> QED
    BY <1>1, <1>2, <1>7, <2>1, <2>4, QuietStep
<1>8. CASE Stop(r)
  BY <1>1, <1>2, <1>8, StopStep
<1> QED
  BY <1>6, <1>7, <1>8 DEF Lookup

\* With an entry for its current book, a run goes on to the next book or stage.
LEMMA WithEntryIsSound ==
  ASSUME TypeOK, NEW own \in RunState, RunInv(own, prepared, session),
         own.pc \in {"session", "latest"},
         NEW entry \in Entry, entry.run # <<>>
  PROVE  /\ WithEntry(own, entry, "stage") \in RunState
         /\ RunInv(WithEntry(own, entry, "stage"), prepared, session)
<1> DEFINE entries == [own.entries EXCEPT ![own.book] = entry]
           last == [own EXCEPT !.entries[own.book] = entry, !.pc = "stage"]
           more == [own EXCEPT !.entries[own.book] = entry, !.pc = "session", !.book = @ + 1]
<1>1. own.book \in Books /\ own.entries \in [Books -> Entry]
  BY DEF RunState
<1>2. entries \in [Books -> Entry]
      /\ \A b \in Books : entries[b] = IF b = own.book THEN entry ELSE own.entries[b]
  BY <1>1
<1>3. \A b \in 1 .. own.book : entries[b].run # <<>>
  BY <1>1, <1>2, PublicationAssumption DEF RunInv, RunsComputed, Books
<1> HIDE DEF entries
<1>4. CASE own.book = BookCount
  <2>1. last \in RunState
    BY <1>2 DEF RunState, entries
  <2>2. /\ last.pc = "stage" /\ last.data = own.data /\ last.through = own.through
        /\ last.date = own.date /\ last.entries = entries
    BY DEF RunState, entries
  <2> HIDE DEF last
  <2>3. RunInv(last, prepared, session)
    BY <1>3, <1>4, <2>2
       DEF RunInv, HasRows, HeadsRead, DaysBefore, RunsComputed, AsPrepared, Working, Books
  <2> QED
    BY <1>4, <2>1, <2>3 DEF WithEntry, last
<1>5. CASE own.book # BookCount
  <2>1. own.book + 1 \in Books /\ (own.book + 1) - 1 = own.book
    BY <1>1, <1>5, PublicationAssumption DEF Books
  <2>2. more \in RunState
    BY <1>2, <2>1 DEF RunState, entries
  <2>3. /\ more.pc = "session" /\ more.data = own.data /\ more.through = own.through
        /\ more.date = own.date /\ more.entries = entries /\ more.book = own.book + 1
    BY DEF RunState, entries
  <2> HIDE DEF more
  <2>4. RunInv(more, prepared, session)
    BY <1>3, <2>1, <2>3
       DEF RunInv, HasRows, HeadsRead, DaysBefore, RunsComputed, AsPrepared, Working
  <2> QED
    BY <1>5, <2>2, <2>4 DEF WithEntry, more
<1> QED
  BY <1>4, <1>5

LEMMA ReadSessionStep ==
  ASSUME Inv, NEW r \in Runs, ReadSession(r)
  PROVE  Inv'
<1> DEFINE own == run[r]
           saved == session[own.book][own.date]
           later == [own EXCEPT !.pc = "latest"]
           entry == [run |-> saved, previousDate |-> 0, previousHash |-> <<>>]
<1>1. own.pc = "session" /\ UNCHANGED <<source, prepared, session, faults>>
  BY DEF ReadSession
<1>2. own \in RunState /\ RunInv(own, prepared, session) /\ faults' \in 0 .. MaxFaults /\ TypeOK
  BY <1>1 DEF Inv, TypeOK
<1>3. CASE Become(r, later)
  <2>1. later \in RunState
    BY <1>2 DEF RunState
  <2>2. /\ later.pc = "latest" /\ later.data = own.data /\ later.through = own.through
        /\ later.date = own.date /\ later.book = own.book /\ later.entries = own.entries
    BY <1>2 DEF RunState
  <2> HIDE DEF later, own
  <2>3. RunInv(later, prepared, session)
    BY <1>1, <1>2, <2>2
       DEF RunInv, HasRows, HeadsRead, DaysBefore, RunsComputed, AsPrepared, Working
  <2> QED
    BY <1>1, <1>2, <1>3, <2>1, <2>3, QuietStep
<1>4. CASE saved # <<>> /\ Become(r, WithEntry(own, entry, "stage"))
  <2>1. entry \in Entry /\ entry.run # <<>>
    <3>1. saved \in History /\ <<>> \in History
      BY <1>2 DEF TypeOK, RunState, History
    <3> QED
      BY <1>4, <3>1, PublicationAssumption DEF Entry
  <2> HIDE DEF entry, own
  <2>2. /\ WithEntry(own, entry, "stage") \in RunState
        /\ RunInv(WithEntry(own, entry, "stage"), prepared, session)
    BY <1>1, <1>2, <2>1, WithEntryIsSound
  <2> QED
    BY <1>1, <1>2, <1>4, <2>2, QuietStep
<1>5. CASE Stop(r)
  BY <1>1, <1>2, <1>5, StopStep
<1> QED
  BY <1>3, <1>4, <1>5 DEF ReadSession

LEMMA ReadLatestStep ==
  ASSUME Inv, NEW r \in Runs, ReadLatest(r)
  PROVE  Inv'
<1> DEFINE own == run[r]
           latest == Latest(own.book)
           before == StateAt(own.book, latest)
           entry == [run |-> Stepped(r, before), previousDate |-> latest, previousHash |-> before]
<1>1. own.pc = "latest" /\ UNCHANGED <<source, prepared, session, faults>>
  BY DEF ReadLatest
<1>2. own \in RunState /\ RunInv(own, prepared, session) /\ faults' \in 0 .. MaxFaults /\ TypeOK
  BY <1>1 DEF Inv, TypeOK
<1>3. CASE Become(r, WithEntry(own, entry, "stage"))
  <2>1. own.book \in Books
    BY <1>2 DEF RunState
  <2>2. latest \in 0 .. MaxDate
    BY <2>1, LatestIsNewest
  <2>3. before \in History
    BY <1>2, <2>1, <2>2, StatesAreHistories
  <2>4. own.data[own.date] > 0
    <3>1. own.data[own.date] \in 1 .. MaxVersion
      BY <1>1, <1>2, WorkHasRows DEF RunInv, Working
    <3> QED
      BY <3>1, PublicationAssumption
  <2>5. Stepped(r, before) \in History /\ Stepped(r, before) # <<>>
    <3> HIDE DEF before
    <3> QED
      BY <1>2, <2>3, <2>4, SteppedRun
  <2>6. entry \in Entry /\ entry.run # <<>>
    BY <2>2, <2>3, <2>5 DEF Entry
  <2> HIDE DEF entry, own
  <2>7. /\ WithEntry(own, entry, "stage") \in RunState
        /\ RunInv(WithEntry(own, entry, "stage"), prepared, session)
    BY <1>1, <1>2, <2>6, WithEntryIsSound
  <2> QED
    BY <1>1, <1>2, <1>3, <2>7, QuietStep
<1>4. CASE Stop(r)
  BY <1>1, <1>2, <1>4, StopStep
<1> QED
  BY <1>3, <1>4 DEF ReadLatest

\* A step that prepares a day leaves every other run sound.
LEMMA StageStep ==
  ASSUME Inv, NEW r \in Runs, Stage(r)
  PROVE  Inv'
<1> DEFINE own == run[r]
           d == own.date
           mine == [input |-> own.data[d], entries |-> own.entries]
           saved == Kept(d, mine)
           refused == ~Chained(own.entries, d) \/ saved.input # mine.input
           go == [own EXCEPT !.pc = "persist", !.book = 1, !.entries = saved.entries]
           back == [own EXCEPT !.pc = "lookup"]
<1>1. /\ own.pc = "stage" /\ UNCHANGED <<source, session, faults>>
      /\ prepared' = IF refused THEN prepared ELSE [prepared EXCEPT ![d] = saved]
  BY DEF Stage
<1>2. own \in RunState /\ RunInv(own, prepared, session) /\ faults' \in 0 .. MaxFaults /\ TypeOK
  BY <1>1 DEF Inv, TypeOK
<1>3. own.data[d] \in 1 .. MaxVersion /\ d \in Dates /\ 1 \in Books /\ 1 .. 1 - 1 = {}
  <2>1. Working(own)
    BY <1>1 DEF Working
  <2>2. d \in Dates /\ 1 \in Books /\ 1 .. 1 - 1 = {}
    BY <1>2, PublicationAssumption DEF RunState, Books
  <2> HIDE DEF own
  <2> QED
    BY <1>2, <2>1, <2>2, WorkHasRows DEF RunInv
<1>4. refused \/ Stop(r) \/ Become(r, go) \/ Become(r, back)
  BY DEF Stage
<1>5. refused => Stop(r)
  BY DEF Stage
<1>6. CASE refused
  <2>1. prepared' = prepared
    BY <1>1, <1>6
  <2> HIDE DEF refused
  <2> QED
    BY <1>1, <1>2, <1>5, <1>6, <2>1, StopStep
<1>7. CASE ~ refused
  <2>1. /\ prepared' = [prepared EXCEPT ![d] = saved] /\ saved.input = own.data[d]
    BY <1>1, <1>7
  <2>2. /\ mine \in [input : 0 .. MaxVersion, entries : [Books -> Entry]]
        /\ \A b \in Books : mine.entries[b].run # <<>>
    BY <1>1, <1>2, <1>3, PublicationAssumption DEF RunState, RunInv, RunsComputed
  <2>3. /\ saved \in [input : 0 .. MaxVersion, entries : [Books -> Entry]]
        /\ \A b \in Books : saved.entries[b].run # <<>>
        /\ IsPrepared(d) => saved = prepared[d]
    <3> HIDE DEF mine, own
    <3> QED
      BY <1>2, <1>3, <2>2 DEF Kept, Inv, TypeOK, Filled, IsPrepared
  <2>4. saved.input # 0
    BY <1>3, <2>1, PublicationAssumption
  <2>5. \A e \in Dates : prepared'[e] = IF e = d THEN saved ELSE prepared[e]
    BY <1>2, <1>3, <2>1 DEF TypeOK
  <2>6. \A e \in Dates : prepared[e].input # 0 => prepared'[e] = prepared[e]
    BY <2>3, <2>5 DEF IsPrepared
  <2>7. PICK next \in {Idle, go, back} : Become(r, next)
    BY <1>4, <1>7 DEF Stop
  <2>8. next \in RunState /\ RunInv(next, prepared', session)
    <3>1. CASE next = Idle
      <4> QED
        BY <3>1, IdleIsSound, <2>6, RunInvStays
    <3>2. CASE next = go
      <4>1. go \in RunState
        BY <1>2, <1>3, <2>3 DEF RunState
      <4>2. /\ go.pc = "persist" /\ go.data = own.data /\ go.through = own.through
            /\ go.date = d /\ go.book = 1 /\ go.entries = saved.entries
        BY <1>2 DEF RunState
      <4>3. prepared'[d] = saved
        BY <1>3, <2>5
      <4> HIDE DEF go, own, saved
      <4>4. RunInv(go, prepared', session)
        BY <1>1, <1>2, <1>3, <2>4, <4>2, <4>3
           DEF RunInv, HasRows, HeadsRead, DaysBefore, RunsComputed, AsPrepared, Working, own
      <4> QED
        BY <3>2, <4>1, <4>4
    <3>3. CASE next = back
      <4>1. back \in RunState
        BY <1>2 DEF RunState
      <4>2. /\ back.pc = "lookup" /\ back.data = own.data /\ back.through = own.through
            /\ back.date = d
        BY <1>2 DEF RunState
      <4> HIDE DEF back, own
      <4>3. RunInv(back, prepared', session)
        BY <1>1, <1>2, <4>2
           DEF RunInv, HasRows, HeadsRead, DaysBefore, RunsComputed, AsPrepared, Working
      <4> QED
        BY <3>3, <4>1, <4>3
    <3> QED
      BY <3>1, <3>2, <3>3
  <2> HIDE DEF go, back, saved, refused, own
  <2>9. /\ run' \in [Runs -> RunState]
        /\ \A q \in Runs : run'[q] = IF q = r THEN next ELSE run[q]
    BY <1>2, <2>7, <2>8 DEF TypeOK, Become
  <2>10. TypeOK'
    BY <1>1, <1>2, <1>3, <2>1, <2>3, <2>9 DEF TypeOK
  <2>11. (InOrder /\ Contiguous)'
    BY <1>1 DEF Inv, InOrder, Contiguous, Recorded
  <2>12. Filled'
    BY <2>3, <2>5 DEF Inv, Filled, IsPrepared
  <2>13. OneDecision'
    BY <1>1, <2>6 DEF Inv, OneDecision, IsPrepared, Recorded
  <2>14. ASSUME NEW q \in Runs
         PROVE  RunInv(run[q], prepared, session)'
    <3>1. CASE q = r
      BY <1>1, <2>8, <2>9, <3>1
    <3>2. CASE q # r
      <4>1. run[q] \in RunState /\ RunInv(run[q], prepared, session)
        BY DEF Inv, TypeOK
      <4>2. RunInv(run[q], prepared', session)
        BY <2>6, <4>1, RunInvStays
      <4> QED
        BY <1>1, <2>9, <3>2, <4>2
    <3> QED
      BY <3>1, <3>2
  <2> QED
    BY <2>10, <2>11, <2>12, <2>13, <2>14 DEF Inv
<1> QED
  BY <1>6, <1>7

-----------------------------------------------------------------------------
(* Books of a prepared day.                                                *)

\* When every book has the day, the run is done or sound for the next day.
LEMMA NextDayIsSound ==
  ASSUME NEW prep, NEW sess, NEW r \in Runs,
         NEW own \in RunState, RunInv(own, prep, sess), own.pc \in {"persist", "append"},
         \A b \in Books : sess[b][own.date] # <<>>
  PROVE  NextDay(r, own) \in RunState /\ RunInv(NextDay(r, own), prep, sess)
<1> DEFINE next == own.date + 1
           before == [b \in Books |-> own.entries[b].run]
           entries == Planned(next, own.data[next], before)
           ahead == [own EXCEPT !.pc = "lookup", !.date = next]
           planned == [own EXCEPT !.pc = "stage", !.date = next, !.entries = entries]
<1>1. own.date \in Dates /\ own.through \in 0 .. MaxDate /\ own.date <= own.through
      /\ own.data \in [Dates -> 0 .. MaxVersion] /\ own.entries \in [Books -> Entry]
  BY DEF RunState, RunInv, DaysBefore, Working
<1>2. Idle \in RunState /\ RunInv(Idle, prep, sess)
  BY IdleIsSound DEF RunInv, HasRows, HeadsRead, DaysBefore, RunsComputed, AsPrepared,
                     Working, Idle
<1>3. CASE BatchEnds(own)
  BY <1>2, <1>3 DEF NextDay
<1>4. CASE ~ BatchEnds(own)
  <2>1. next \in Dates /\ next <= own.through /\ next - 1 = own.date
        /\ 1 .. own.date = (1 .. own.date - 1) \cup {own.date}
    <3>1. own.date \in 1 .. MaxDate /\ own.date # own.through /\ MaxDate \in Nat
      BY <1>1, <1>4, PublicationAssumption DEF BatchEnds, Dates
    <3>2. next \in 1 .. MaxDate /\ next <= own.through /\ next - 1 = own.date
      BY <1>1, <3>1
    <3>3. 1 .. own.date = (1 .. own.date - 1) \cup {own.date}
      BY <3>1
    <3> QED
      BY <3>2, <3>3 DEF Dates
  <2>2. \A b \in Books, d \in 1 .. own.date : sess[b][d] # <<>>
    BY <2>1 DEF RunInv, DaysBefore, Working
  <2>3. HasRows(own)
    BY DEF RunInv
  <2>4. CASE r \in Replays
    <3>1. ahead \in RunState
      BY <2>1 DEF RunState
    <3>2. /\ ahead.pc = "lookup" /\ ahead.data = own.data /\ ahead.through = own.through
          /\ ahead.date = next
      BY DEF RunState
    <3>3. NextDay(r, own) = ahead
      BY <1>4, <2>4 DEF NextDay
    <3> HIDE DEF ahead
    <3>4. RunInv(ahead, prep, sess)
      BY <2>1, <2>2, <2>3, <3>2
         DEF RunInv, HasRows, HeadsRead, DaysBefore, RunsComputed, AsPrepared, Working
    <3> QED
      BY <3>1, <3>3, <3>4
  <2>5. CASE r \notin Replays
    <3>1. own.data[next] \in 1 .. MaxVersion
      BY <1>1, <2>1, <2>3, PublicationAssumption DEF HasRows, Dates
    <3>2. before \in [Books -> History]
      BY <1>1 DEF Entry
    <3>3. entries \in [Books -> Entry] /\ \A b \in Books : entries[b].run # <<>>
      <4> HIDE DEF before, next
      <4> QED
        BY <2>1, <3>1, <3>2, PlannedEntries
    <3> HIDE DEF entries
    <3>4. planned \in RunState
      BY <2>1, <3>3 DEF RunState
    <3>5. /\ planned.pc = "stage" /\ planned.data = own.data /\ planned.through = own.through
          /\ planned.date = next /\ planned.entries = entries
      BY DEF RunState
    <3>6. NextDay(r, own) = planned
      BY <1>4, <2>5 DEF NextDay, entries
    <3> HIDE DEF planned
    <3>7. RunInv(planned, prep, sess)
      BY <2>1, <2>2, <2>3, <3>3, <3>5
         DEF RunInv, HasRows, HeadsRead, DaysBefore, RunsComputed, AsPrepared, Working
    <3> QED
      BY <3>4, <3>6, <3>7
  <2> QED
    BY <2>4, <2>5
<1> QED
  BY <1>3, <1>4

\* When the current book has the day, the run goes on.
LEMMA AfterBookIsSound ==
  ASSUME NEW prep, NEW sess, NEW r \in Runs,
         NEW own \in RunState, RunInv(own, prep, sess), own.pc \in {"persist", "append"},
         sess[own.book][own.date] # <<>>
  PROVE  AfterBook(r, own) \in RunState /\ RunInv(AfterBook(r, own), prep, sess)
<1> DEFINE more == [own EXCEPT !.pc = "persist", !.book = @ + 1]
<1>1. own.book \in 1 .. BookCount /\ BookCount \in Nat
      /\ \A b \in 1 .. own.book - 1 : sess[b][own.date] # <<>>
  BY PublicationAssumption DEF RunState, Books, RunInv, AsPrepared
<1>2. \A b \in 1 .. own.book : sess[b][own.date] # <<>>
  BY <1>1
<1>3. CASE own.book < BookCount
  <2>1. own.book + 1 \in Books /\ (own.book + 1) - 1 = own.book
    BY <1>1, <1>3 DEF Books
  <2>2. more \in RunState
    BY <2>1 DEF RunState
  <2>3. /\ more.pc = "persist" /\ more.data = own.data /\ more.through = own.through
        /\ more.date = own.date /\ more.entries = own.entries /\ more.book = own.book + 1
    BY DEF RunState
  <2>4. AfterBook(r, own) = more
    BY <1>3 DEF AfterBook
  <2> HIDE DEF more
  <2>5. RunInv(more, prep, sess)
    BY <1>2, <2>1, <2>3
       DEF RunInv, HasRows, HeadsRead, DaysBefore, RunsComputed, AsPrepared, Working
  <2> QED
    BY <2>2, <2>4, <2>5
<1>4. CASE ~ (own.book < BookCount)
  <2>1. \A b \in Books : sess[b][own.date] # <<>>
    BY <1>1, <1>2, <1>4 DEF Books
  <2>2. AfterBook(r, own) = NextDay(r, own)
    BY <1>4 DEF AfterBook
  <2> QED
    BY <2>1, <2>2, NextDayIsSound
<1> QED
  BY <1>3, <1>4

LEMMA PersistStep ==
  ASSUME Inv, NEW r \in Runs, Persist(r)
  PROVE  Inv'
<1> DEFINE own == run[r]
           saved == session[own.book][own.date]
           going == [own EXCEPT !.pc = "append"]
<1>1. own.pc = "persist" /\ UNCHANGED <<source, prepared, session, faults>>
  BY DEF Persist
<1>2. own \in RunState /\ RunInv(own, prepared, session) /\ faults' \in 0 .. MaxFaults
  BY <1>1 DEF Inv, TypeOK
<1>3. CASE saved # <<>> /\ Become(r, AfterReused(r, own))
  <2> HIDE DEF own
  <2>1. /\ AfterBook(r, own) \in RunState
        /\ RunInv(AfterBook(r, own), prepared, session)
    BY <1>1, <1>2, <1>3, AfterBookIsSound
  <2> QED
    BY <1>1, <1>2, <1>3, <2>1, QuietStep DEF AfterReused
<1>4. CASE Become(r, going)
  <2>1. going \in RunState
    BY <1>2 DEF RunState
  <2>2. /\ going.pc = "append" /\ going.data = own.data /\ going.through = own.through
        /\ going.date = own.date /\ going.book = own.book /\ going.entries = own.entries
    BY <1>2 DEF RunState
  <2> HIDE DEF going, own
  <2>3. RunInv(going, prepared, session)
    BY <1>1, <1>2, <2>2
       DEF RunInv, HasRows, HeadsRead, DaysBefore, RunsComputed, AsPrepared, Working
  <2> QED
    BY <1>1, <1>2, <1>4, <2>1, <2>3, QuietStep
<1>5. CASE Stop(r)
  BY <1>1, <1>2, <1>5, StopStep
<1> QED
  BY <1>3, <1>4, <1>5 DEF Persist

\* A book only gets a session of a day after all days before, and as prepared.
LEMMA AppendSessionStep ==
  ASSUME Inv, NEW r \in Runs, AppendSession(r)
  PROVE  Inv'
<1> DEFINE own == run[r]
           book == own.book
           date == own.date
           entry == own.entries[book]
<1>1. own.pc = "append" /\ UNCHANGED <<source, prepared, faults>>
  BY DEF AppendSession
<1>2. own \in RunState /\ RunInv(own, prepared, session) /\ faults' \in 0 .. MaxFaults /\ TypeOK
  BY <1>1 DEF Inv, TypeOK
<1>3. /\ book \in Books /\ date \in Dates /\ entry \in Entry
      /\ IsPrepared(date) /\ entry = prepared[date].entries[book] /\ entry.run # <<>>
  <2>1. book \in Books /\ date \in Dates /\ entry \in Entry
    BY <1>2 DEF RunState
  <2>2. prepared[date].input # 0 /\ own.entries = prepared[date].entries
    BY <1>1, <1>2 DEF RunInv, AsPrepared
  <2> QED
    BY <2>1, <2>2 DEF Inv, Filled, IsPrepared
<1>4. CASE session[book][date] = entry.run /\ Become(r, AfterBook(r, own)) /\ UNCHANGED session
  <2>1. session[own.book][own.date] # <<>>
    BY <1>3, <1>4
  <2> HIDE DEF own
  <2>2. /\ AfterBook(r, own) \in RunState
        /\ RunInv(AfterBook(r, own), prepared, session)
    BY <1>1, <1>2, <2>1, AfterBookIsSound
  <2> QED
    BY <1>1, <1>2, <1>4, <2>2, QuietStep
<1>5. CASE /\ session[book][date] = <<>>
           /\ session' = [session EXCEPT ![book][date] = entry.run]
           /\ Become(r, AfterBook(r, own))
  <2>1. session \in [Books -> [Dates -> History]] /\ entry.run \in History
    BY <1>2, <1>3 DEF TypeOK, Entry
  <2> HIDE DEF entry, own, book, date
  <2>2. /\ session' \in [Books -> [Dates -> History]]
        /\ \A b \in Books, d \in Dates :
             session'[b][d] = IF b = book /\ d = date THEN entry.run ELSE session[b][d]
    <3>1. [session[book] EXCEPT ![date] = entry.run] \in [Dates -> History]
      BY <1>3, <2>1
    <3>2. session' = [session EXCEPT ![book] = [session[book] EXCEPT ![date] = entry.run]]
      BY <1>5
    <3> QED
      BY <1>3, <2>1, <3>1, <3>2
  <2>3. \A b \in Books, d \in Dates : session[b][d] # <<>> => session'[b][d] = session[b][d]
    BY <1>5, <2>2
  <2>4. \A d \in Dates : prepared[d].input # 0 => prepared[d] = prepared[d]
    OBVIOUS
  <2>5. RunInv(own, prepared, session')
    BY <1>2, <2>3, <2>4, RunInvStays
  <2>6. session'[own.book][own.date] # <<>>
    BY <1>3, <2>2 DEF book, date
  <2>7. /\ AfterBook(r, own) \in RunState
        /\ RunInv(AfterBook(r, own), prepared, session')
    BY <1>1, <1>2, <2>5, <2>6, AfterBookIsSound
  <2>8. /\ run' \in [Runs -> RunState]
        /\ \A q \in Runs : run'[q] = IF q = r THEN AfterBook(r, own) ELSE run[q]
    BY <1>2, <1>5, <2>7 DEF TypeOK, Become
  <2>9. TypeOK'
    BY <1>1, <1>2, <2>2, <2>8 DEF TypeOK
  <2>10. InOrder' /\ Filled'
    BY <1>1 DEF Inv, InOrder, Filled, IsPrepared
  <2>11. Contiguous'
    <3>1. \A b \in Books, d \in 1 .. date - 1 : session[b][d] # <<>>
      BY <1>1, <1>2 DEF RunInv, DaysBefore, Working, date
    <3>2. \A e \in Dates : e < date => e \in 1 .. date - 1
      BY <1>3, PublicationAssumption DEF Dates
    <3>3. \A b \in Books, d, e \in Dates :
            e < d /\ session[b][d] # <<>> => session[b][e] # <<>>
      BY DEF Inv, Contiguous, Recorded
    <3>4. ASSUME NEW b \in Books, NEW d \in Dates, NEW e \in Dates,
                 e < d, session'[b][d] # <<>>
          PROVE  session'[b][e] # <<>>
      <4>1. session[b][e] # <<>>
        BY <2>2, <3>1, <3>2, <3>3, <3>4
      <4> QED
        BY <2>3, <4>1
    <3> QED
      BY <3>4 DEF Contiguous, Recorded
  <2>12. OneDecision'
    <3>1. \A b \in Books, d \in Dates :
            session[b][d] # <<>> => /\ prepared[d].input # 0
                                    /\ session[b][d] = prepared[d].entries[b].run
      BY DEF Inv, OneDecision, Recorded, IsPrepared
    <3> QED
      BY <1>1, <1>3, <2>2, <3>1 DEF OneDecision, Recorded, IsPrepared
  <2>13. ASSUME NEW q \in Runs
         PROVE  RunInv(run[q], prepared, session)'
    <3>1. CASE q = r
      BY <1>1, <2>7, <2>8, <3>1
    <3>2. CASE q # r
      <4>1. run[q] \in RunState /\ RunInv(run[q], prepared, session)
        BY DEF Inv, TypeOK
      <4>2. RunInv(run[q], prepared, session')
        BY <2>3, <2>4, <4>1, RunInvStays
      <4> QED
        BY <1>1, <2>8, <3>2, <4>2
    <3> QED
      BY <3>1, <3>2
  <2> QED
    BY <2>9, <2>10, <2>11, <2>12, <2>13 DEF Inv
<1>6. CASE Stop(r) /\ UNCHANGED session
  BY <1>1, <1>2, <1>6, StopStep
<1> QED
  BY <1>4, <1>5, <1>6 DEF AppendSession


-----------------------------------------------------------------------------
(* The theorems.                                                           *)

LEMMA CollectStep ==
  ASSUME Inv, NEW d \in Dates, Collect(d)
  PROVE  Inv'
<1>1. /\ d > 1 => source[d - 1] > 0
      /\ source[d] < MaxVersion
      /\ source' = [source EXCEPT ![d] = @ + 1]
      /\ UNCHANGED <<prepared, session, run, faults>>
  BY DEF Collect
<1>2. source \in [Dates -> 0 .. MaxVersion] /\ d \in 1 .. MaxDate
  BY DEF Inv, TypeOK, Dates
<1>3. /\ source' \in [Dates -> 0 .. MaxVersion]
      /\ \A e \in Dates : source'[e] = IF e = d THEN source[d] + 1 ELSE source[e]
  <2>1. source[d] + 1 \in 0 .. MaxVersion
    BY <1>1, <1>2, PublicationAssumption
  <2> QED
    BY <1>1, <1>2, <2>1
<1>4. TypeOK'
  BY <1>1, <1>3 DEF Inv, TypeOK
<1>5. InOrder'
  <2>1. \A e \in Dates : e < d => source[e] > 0
    <3> SUFFICES ASSUME NEW e \in Dates, e < d
                 PROVE  source[e] > 0
      OBVIOUS
    <3>1. d - 1 \in Dates /\ source[d - 1] > 0 /\ e <= d - 1 /\ e \in Int
      BY <1>1, <1>2, PublicationAssumption DEF Dates
    <3> QED
      BY <3>1 DEF Inv, InOrder, Dates
  <2>2. \A x, y \in Dates : y < x /\ source[x] > 0 => source[y] > 0
    BY DEF Inv, InOrder
  <2>3. ASSUME NEW x \in Dates, NEW y \in Dates, y < x, source'[x] > 0
        PROVE  source'[y] > 0
    <3>1. source[y] > 0
      BY <1>3, <2>1, <2>2, <2>3
    <3> QED
      BY <1>2, <1>3, <3>1
  <2> QED
    BY <2>3 DEF InOrder
<1>6. (Contiguous /\ Filled /\ OneDecision)'
  BY <1>1 DEF Inv, Contiguous, Filled, OneDecision, Recorded, IsPrepared
<1>7. \A q \in Runs : RunInv(run[q], prepared, session)'
  BY <1>1 DEF Inv
<1> QED
  BY <1>4, <1>5, <1>6, <1>7 DEF Inv

LEMMA DieStep ==
  ASSUME Inv, NEW r \in Runs, Die(r)
  PROVE  Inv'
<1>1. Stop(r) /\ UNCHANGED <<source, prepared, session>>
  BY DEF Die
<1>2. faults' \in 0 .. MaxFaults
  BY PublicationAssumption DEF Die, Inv, TypeOK
<1> QED
  BY <1>1, <1>2, StopStep

LEMMA InitHolds == Init => Inv
<1> SUFFICES ASSUME Init
             PROVE  Inv
  OBVIOUS
<1>1. \A r \in Runs : run[r] = Idle
  BY DEF Init
<1>2. <<>> \in History /\ Idle \in RunState /\ NoEntries \in [Books -> Entry]
  <2>1. <<>> \in History /\ Idle \in RunState
    BY IdleIsSound DEF History
  <2>2. NoEntries \in [Books -> Entry]
    BY <2>1, PublicationAssumption DEF NoEntries, Entry
  <2> QED
    BY <2>1, <2>2
<1>3. /\ \A d \in Dates : source[d] = 0
      /\ \A b \in Books, d \in Dates : ~ Recorded(b, d) /\ ~ IsPrepared(d)
  BY DEF Init, Recorded, IsPrepared, NotPrepared
<1>4. TypeOK
  <2>1. NotPrepared \in [input : 0 .. MaxVersion, entries : [Books -> Entry]]
    BY <1>2, PublicationAssumption DEF NotPrepared
  <2> QED
    BY <1>2, <2>1, PublicationAssumption DEF Init, TypeOK
<1>5. InOrder /\ Contiguous /\ Filled /\ OneDecision
  <2>1. InOrder
    BY <1>3 DEF InOrder
  <2>2. Contiguous /\ Filled /\ OneDecision
    BY <1>3, Zenon DEF Contiguous, Filled, OneDecision
  <2> QED
    BY <2>1, <2>2
<1>6. \A r \in Runs : RunInv(run[r], prepared, session)
  BY <1>1, IdleIsSound
<1> QED
  BY <1>4, <1>5, <1>6 DEF Inv

LEMMA NextHolds == Inv /\ [Next]_vars => Inv'
<1> SUFFICES ASSUME Inv, [Next]_vars
             PROVE  Inv'
  OBVIOUS
<1>1. CASE UNCHANGED vars
  BY <1>1 DEF vars, Inv, TypeOK, InOrder, Contiguous, Filled, OneDecision, Recorded, IsPrepared
<1>2. ASSUME NEW d \in Dates, Collect(d)
      PROVE  Inv'
  BY <1>2, CollectStep
<1>3. ASSUME NEW r \in Runs, Start(r)
      PROVE  Inv'
  BY <1>3, StartReplayStep, StartContinuationStep DEF Start
<1>4. ASSUME NEW r \in Runs, RunStep(r)
      PROVE  Inv'
  BY <1>4, ReadHeadStep, AlignStep, LookupStep, ReadSessionStep, ReadLatestStep, StageStep,
     PersistStep, AppendSessionStep DEF RunStep
<1>5. ASSUME NEW r \in Runs, Die(r)
      PROVE  Inv'
  BY <1>5, DieStep
<1> QED
  BY <1>1, <1>2, <1>3, <1>4, <1>5 DEF Next

LEMMA InvHolds == Spec => []Inv
<1>1. Init => Inv
  BY InitHolds
<1>2. Inv /\ [Next]_vars => Inv'
  BY NextHolds
<1> QED
  BY <1>1, <1>2, PTL DEF Spec

\* Every variable keeps its type: a run never leaves the calendar or its
\* books, and computes only from rows it has read.
THEOREM PublicationTypes == Spec => []TypeOK
<1>1. Inv => TypeOK
  BY DEF Inv
<1> QED
  BY <1>1, InvHolds, PTL

\* However many runs race or die, a stored session of a day is the one that
\* the single prepared publication of the day holds for its book.
THEOREM OneDecisionPerDay == Spec => []OneDecision
<1>1. Inv => OneDecision
  BY DEF Inv
<1> QED
  BY <1>1, InvHolds, PTL

\* A run at work on a day finds all the days before in every book.
THEOREM DaysBeforeAreRecorded == Spec => []ProcessedIsRecorded
<1>1. Inv => ProcessedIsRecorded
  BY DEF Inv, RunInv, DaysBefore, Working, ProcessedIsRecorded, Recorded
<1> QED
  BY <1>1, InvHolds, PTL

\* The calendar of a book has no gaps.
THEOREM BooksHaveNoGaps == Spec => []Contiguous
<1>1. Inv => Contiguous
  BY DEF Inv
<1> QED
  BY <1>1, InvHolds, PTL

-----------------------------------------------------------------------------
(* The refinement: what the books' histories are.                          *)

\* The days decided up to day d, each with the input it was decided from.
Decisions(prep, d) == [e \in 1 .. d |-> [date |-> e, input |-> prep[e].input]]

\* Days are prepared in order, and all books of a day have the same history.
DecidedInOrder ==
  \A d \in Dates : IsPrepared(d) =>
    /\ \A e \in 1 .. d : IsPrepared(e)
    /\ \A b \in Books : prepared[d].entries[b].run = Decisions(prepared, d)

\* What a run computes or plans extends the days decided before its own.
NextHistory(own, prep) ==
  Append(Decisions(prep, own.date - 1), [date |-> own.date, input |-> own.data[own.date]])

RunDecides(own, prep) ==
  /\ own.pc \in {"session", "latest"} =>
       \A b \in 1 .. own.book - 1 : own.entries[b].run = NextHistory(own, prep)
  /\ own.pc = "stage" => \A b \in Books : own.entries[b].run = NextHistory(own, prep)

HistoryInv == DecidedInOrder /\ \A r \in Runs : RunDecides(run[r], prepared)

LEMMA DecisionsStay ==
  ASSUME NEW prep, NEW prep2, NEW d \in Nat, \A e \in 1 .. d : prep2[e] = prep[e]
  PROVE  Decisions(prep2, d) = Decisions(prep, d)
  BY DEF Decisions

LEMMA NothingDecided == ASSUME NEW prep PROVE Decisions(prep, 0) = <<>>
<1>1. 1 .. 0 = {}
  OBVIOUS
<1> QED
  BY <1>1 DEF Decisions

LEMMA DecisionsNext ==
  ASSUME NEW prep, NEW d \in Nat \ {0}, NEW day,
         day = [date |-> d, input |-> prep[d].input]
  PROVE  /\ Append(Decisions(prep, d - 1), day) = Decisions(prep, d)
         /\ Len(Decisions(prep, d)) = d
<1> DEFINE before == Decisions(prep, d - 1)
           after == Decisions(prep, d)
           All == {before[i] : i \in 1 .. d - 1} \cup {day} \cup {after[i] : i \in 1 .. d}
<1>1. /\ before = [i \in 1 .. d - 1 |-> before[i]] /\ after = [i \in 1 .. d |-> after[i]]
      /\ \A i \in 1 .. d - 1 : before[i] = after[i]
      /\ after[d] = day
  BY DEF Decisions
<1> HIDE DEF before, after
<1>2. before \in Seq(All) /\ after \in Seq(All) /\ Len(before) = d - 1 /\ Len(after) = d /\ day \in All
  <2>1. d - 1 \in Nat /\ day \in All
    OBVIOUS
  <2>2. before \in [1 .. d - 1 -> All] /\ after \in [1 .. d -> All]
    BY <1>1
  <2> HIDE DEF All
  <2> QED
    BY <2>1, <2>2
<1> HIDE DEF All
<1>3. /\ Append(before, day) \in Seq(All) /\ Len(Append(before, day)) = d
      /\ \A i \in 1 .. d - 1 : Append(before, day)[i] = before[i]
      /\ Append(before, day)[d] = day
  BY <1>2
<1>4. \A i \in 1 .. d : Append(before, day)[i] = after[i]
  <2> SUFFICES ASSUME NEW i \in 1 .. d PROVE Append(before, day)[i] = after[i]
    OBVIOUS
  <2>1. i \in 1 .. d - 1 \/ i = d
    OBVIOUS
  <2> QED
    BY <1>1, <1>3, <2>1
<1>5. Append(before, day) = after
  BY <1>2, <1>3, <1>4
<1> QED
  BY <1>2, <1>5 DEF before, after

\* A date and the ones before it.
LEMMA DatesBefore ==
  ASSUME NEW d \in Dates
  PROVE  /\ d \in Nat \ {0} /\ d - 1 \in Nat /\ d - 1 \in 0 .. MaxDate
         /\ 1 .. d \subseteq Dates /\ 1 .. d - 1 \subseteq Dates /\ d \in 1 .. d
         /\ \A e \in Dates : e < d <=> e \in 1 .. d - 1
  BY PublicationAssumption DEF Dates

\* What a book records of a day is what was decided up to it.
LEMMA StateIsDecided ==
  ASSUME Inv, HistoryInv, NEW b \in Books, NEW d \in 0 .. MaxDate, d # 0 => Recorded(b, d)
  PROVE  /\ StateAt(b, d) = Decisions(prepared, d)
         /\ d # 0 => IsPrepared(d)
<1>1. CASE d = 0
  BY <1>1, NothingDecided DEF StateAt
<1>2. CASE d # 0
  <2>1. d \in Dates
    BY <1>2, PublicationAssumption DEF Dates
  <2>2. IsPrepared(d) /\ session[b][d] = prepared[d].entries[b].run
    BY <1>2, <2>1 DEF Inv, OneDecision
  <2> QED
    BY <1>2, <2>1, <2>2 DEF StateAt, HistoryInv, DecidedInOrder
<1> QED
  BY <1>1, <1>2

\* The days before the one a run works on are decided and in every book.
LEMMA WorkFollows ==
  ASSUME Inv, NEW r \in Runs, Working(run[r])
  PROVE  /\ run[r] \in RunState /\ run[r].date \in Dates
         /\ run[r].data[run[r].date] \in 1 .. MaxVersion
         /\ \A b \in Books, e \in 1 .. run[r].date - 1 : Recorded(b, e)
         /\ \A e \in 1 .. run[r].date - 1 : IsPrepared(e)
<1>1. run[r] \in RunState /\ HasRows(run[r]) /\ DaysBefore(run[r], session)
  BY DEF Inv, TypeOK, RunInv
<1>2. run[r].date \in Dates
  BY <1>1 DEF RunState
<1>3. \A b \in Books, e \in 1 .. run[r].date - 1 : Recorded(b, e)
  BY <1>1 DEF DaysBefore, Recorded
<1>4. 1 \in Books
  BY PublicationAssumption DEF Books
<1>5. \A e \in 1 .. run[r].date - 1 : e \in Dates
  BY <1>2, DatesBefore
<1>6. \A e \in 1 .. run[r].date - 1 : IsPrepared(e)
  BY <1>3, <1>4, <1>5 DEF Inv, OneDecision
<1> QED
  BY <1>1, <1>2, <1>3, <1>6, WorkHasRows

\* A step of one run that prepares nothing.
LEMMA HistoriesStay ==
  ASSUME Inv, HistoryInv, NEW r \in Runs, NEW own, Become(r, own), RunDecides(own, prepared),
         prepared' = prepared
  PROVE  HistoryInv'
<1>1. \A q \in Runs : run'[q] = IF q = r THEN own ELSE run[q]
  BY DEF Inv, TypeOK, Become
<1>2. DecidedInOrder'
  BY DEF HistoryInv, DecidedInOrder, IsPrepared
<1>3. ASSUME NEW q \in Runs
      PROVE  RunDecides(run[q], prepared)'
  <2>1. RunDecides(run'[q], prepared)
    BY <1>1 DEF HistoryInv
  <2> QED
    BY <2>1
<1> QED
  BY <1>2, <1>3 DEF HistoryInv

LEMMA IdleDecides == ASSUME NEW prep PROVE RunDecides(Idle, prep)
  BY DEF RunDecides, Idle

LEMMA HistoriesStayStopped ==
  ASSUME Inv, HistoryInv, NEW r \in Runs, Stop(r), prepared' = prepared
  PROVE  HistoryInv'
  BY IdleDecides, HistoriesStay DEF Stop

-----------------------------------------------------------------------------
(* Every step keeps the histories.                                         *)

\* With the entry of its current book, a run has decided one book more.
LEMMA WithEntryDecides ==
  ASSUME NEW prep, NEW own \in RunState, RunDecides(own, prep), own.pc \in {"session", "latest"},
         NEW entry \in Entry, entry.run = NextHistory(own, prep)
  PROVE  RunDecides(WithEntry(own, entry, "stage"), prep)
<1> DEFINE next == WithEntry(own, entry, "stage")
<1> SUFFICES RunDecides(next, prep)
  OBVIOUS
<1>1. own.book \in 1 .. BookCount /\ BookCount \in Nat /\ own.entries \in [Books -> Entry]
      /\ Books = 1 .. BookCount
  BY PublicationAssumption DEF RunState, Books
<1>2. /\ next.date = own.date /\ next.data = own.data
      /\ \A b \in Books : next.entries[b] = IF b = own.book THEN entry ELSE own.entries[b]
      /\ IF own.book = BookCount THEN next.pc = "stage"
         ELSE next.pc = "session" /\ next.book = own.book + 1
  BY <1>1 DEF WithEntry, RunState
<1>3. NextHistory(next, prep) = NextHistory(own, prep)
  BY <1>2 DEF NextHistory
<1>4. \A b \in 1 .. own.book - 1 : own.entries[b].run = NextHistory(own, prep)
  BY DEF RunDecides
<1> HIDE DEF next
<1>5. \A b \in 1 .. own.book : next.entries[b].run = NextHistory(next, prep)
  <2> SUFFICES ASSUME NEW b \in 1 .. own.book
               PROVE  next.entries[b].run = NextHistory(next, prep)
    OBVIOUS
  <2>1. b \in Books /\ (b = own.book \/ b \in 1 .. own.book - 1)
    BY <1>1
  <2> QED
    BY <1>2, <1>3, <1>4, <2>1
<1>6. CASE own.book = BookCount
  BY <1>1, <1>2, <1>5, <1>6 DEF RunDecides
<1>7. CASE own.book # BookCount
  <2>1. next.pc = "session" /\ next.book - 1 = own.book
    BY <1>1, <1>2, <1>7
  <2> QED
    BY <1>5, <2>1 DEF RunDecides
<1> QED
  BY <1>6, <1>7

\* What is planned after decided days extends them.
LEMMA PlannedDecides ==
  ASSUME NEW prep, NEW own, NEW date, NEW input, NEW before, own.pc = "stage", own.date = date,
         own.data[date] = input, own.entries = Planned(date, input, before),
         \A b \in Books : before[b] = Decisions(prep, date - 1)
  PROVE  RunDecides(own, prep)
  BY DEF RunDecides, NextHistory, Planned

LEMMA ReadHistories ==
  ASSUME Inv, HistoryInv, NEW r \in Runs,
         \/ StartReplay(r) \/ (\E b \in Books : ReadHead(r, b)) \/ Align(r) \/ Lookup(r) \/ Die(r)
  PROVE  HistoryInv'
<1>1. run[r] \in RunState /\ RunDecides(run[r], prepared)
  BY DEF Inv, TypeOK, HistoryInv
<1>2. CASE StartReplay(r)
  <2> DEFINE own == [Idle EXCEPT !.pc = "heads", !.data = source, !.through = Through(source)]
  <2>1. Become(r, own) /\ prepared' = prepared /\ own.pc = "heads"
    BY <1>2 DEF StartReplay, Idle
  <2> HIDE DEF own
  <2> QED
    BY <2>1, HistoriesStay DEF RunDecides
<1>3. ASSUME NEW b \in Books, ReadHead(r, b)
      PROVE  HistoryInv'
  <2> DEFINE own == [run[r] EXCEPT !.heads[b] = Latest(b)]
  <2>1. Become(r, own) /\ prepared' = prepared /\ own.pc = "heads"
    BY <1>1, <1>3 DEF ReadHead, RunState
  <2> HIDE DEF own
  <2> QED
    BY <2>1, HistoriesStay DEF RunDecides
<1>4. CASE Align(r)
  <2> DEFINE own == [run[r] EXCEPT !.pc = "lookup", !.date = run[r].heads[1] + 1]
  <2>1. (Become(r, own) \/ Stop(r)) /\ prepared' = prepared /\ own.pc = "lookup"
    BY <1>1, <1>4 DEF Align, RunState
  <2> HIDE DEF own
  <2> QED
    BY <2>1, HistoriesStay, HistoriesStayStopped DEF RunDecides
<1>5. CASE Lookup(r)
  <2> DEFINE fresh == [run[r] EXCEPT !.pc = "session", !.book = 1, !.entries = NoEntries]
             again == [run[r] EXCEPT !.pc = "persist", !.book = 1,
                                     !.entries = prepared[run[r].date].entries]
  <2>1. (Become(r, fresh) \/ Become(r, again) \/ Stop(r)) /\ prepared' = prepared
    BY <1>5 DEF Lookup
  <2>2. fresh.pc = "session" /\ 1 .. fresh.book - 1 = {} /\ again.pc = "persist"
    BY <1>1 DEF RunState
  <2> HIDE DEF fresh, again
  <2> QED
    BY <2>1, <2>2, HistoriesStay, HistoriesStayStopped DEF RunDecides
<1>6. CASE Die(r)
  BY <1>6, HistoriesStayStopped DEF Die
<1> QED
  BY <1>2, <1>3, <1>4, <1>5, <1>6

LEMMA StartContinuationHistories ==
  ASSUME Inv, HistoryInv, NEW r \in Runs, NEW base \in 0 .. MaxDate - 1, StartContinuation(r, base)
  PROVE  HistoryInv'
<1> DEFINE before == [b \in Books |-> StateAt(b, base)]
           own == [Idle EXCEPT !.pc = "stage", !.data = source, !.through = Through(source),
                     !.date = base + 1, !.entries = Planned(base + 1, source[base + 1], before)]
<1>1. PlanAccepts(base, Through(source)) /\ Become(r, own) /\ prepared' = prepared
  BY DEF StartContinuation
<1>2. base \in 0 .. MaxDate /\ base + 1 - 1 = base
  BY PublicationAssumption
<1>3. \A b \in Books : before[b] = Decisions(prepared, base + 1 - 1)
  <2>1. \A b \in Books : StateAt(b, base) = Decisions(prepared, base)
    BY <1>1, <1>2, StateIsDecided DEF PlanAccepts
  <2> QED
    BY <1>2, <2>1
<1>4. /\ own.pc = "stage" /\ own.date = base + 1 /\ own.data[base + 1] = source[base + 1]
      /\ own.entries = Planned(base + 1, source[base + 1], before)
  BY DEF Idle
<1> HIDE DEF own, before
<1> QED
  BY <1>1, <1>3, <1>4, PlannedDecides, HistoriesStay

LEMMA ReadSessionHistories ==
  ASSUME Inv, HistoryInv, NEW r \in Runs, ReadSession(r)
  PROVE  HistoryInv'
<1> DEFINE own == run[r]
           saved == session[own.book][own.date]
           later == [own EXCEPT !.pc = "latest"]
           entry == [run |-> saved, previousDate |-> 0, previousHash |-> <<>>]
<1>1. own.pc = "session" /\ prepared' = prepared
  BY DEF ReadSession
<1>2. /\ own \in RunState /\ RunDecides(own, prepared) /\ own.book \in Books /\ own.date \in Dates
      /\ \A e \in 1 .. own.date - 1 : IsPrepared(e)
  BY <1>1, WorkFollows DEF HistoryInv, Working, RunState
<1>3. CASE Become(r, later)
  <2>1. later.pc = "latest" /\ later.book = own.book /\ later.entries = own.entries
        /\ later.date = own.date /\ later.data = own.data
    BY <1>2 DEF RunState
  <2> HIDE DEF later, own
  <2>2. RunDecides(later, prepared)
    BY <1>1, <1>2, <2>1 DEF RunDecides, NextHistory
  <2> QED
    BY <1>1, <1>3, <2>2, HistoriesStay
<1>4. CASE /\ saved # <<>> /\ Last(saved).input = own.data[own.date]
           /\ Become(r, WithEntry(own, entry, "stage"))
  <2>1. IsPrepared(own.date) /\ saved = Decisions(prepared, own.date)
    <3>1. Recorded(own.book, own.date) /\ own.date \in 0 .. MaxDate /\ own.date # 0
      BY <1>2, <1>4, PublicationAssumption DEF Recorded, Dates
    <3> HIDE DEF own
    <3> QED
      BY <1>2, <3>1, StateIsDecided DEF StateAt
  <2>2. own.date \in Nat \ {0}
    BY <1>2, DatesBefore
  <2>3. Last(saved) = [date |-> own.date, input |-> prepared[own.date].input]
    <3>1. Len(saved) = own.date
      BY <2>1, <2>2, DecisionsNext
    <3>2. own.date \in 1 .. own.date
      BY <2>2
    <3> QED
      BY <2>1, <3>1, <3>2 DEF Last, Decisions
  <2>4. saved = NextHistory(own, prepared)
    <3>1. prepared[own.date].input = own.data[own.date]
      BY <1>4, <2>3
    <3> QED
      BY <2>1, <2>2, <3>1, DecisionsNext DEF NextHistory
  <2>5. entry \in Entry /\ entry.run = NextHistory(own, prepared)
    <3>1. saved \in History /\ <<>> \in History
      BY <1>2 DEF Inv, TypeOK, History
    <3> QED
      BY <2>4, <3>1, PublicationAssumption DEF Entry
  <2> HIDE DEF entry, own
  <2>6. RunDecides(WithEntry(own, entry, "stage"), prepared)
    BY <1>1, <1>2, <2>5, WithEntryDecides
  <2> QED
    BY <1>1, <1>4, <2>6, HistoriesStay
<1>5. CASE Stop(r)
  BY <1>1, <1>5, HistoriesStayStopped
<1> QED
  BY <1>3, <1>4, <1>5 DEF ReadSession

LEMMA ReadLatestHistories ==
  ASSUME Inv, HistoryInv, NEW r \in Runs, ReadLatest(r)
  PROVE  HistoryInv'
<1> DEFINE own == run[r]
           latest == Latest(own.book)
           before == StateAt(own.book, latest)
           entry == [run |-> Stepped(r, before), previousDate |-> latest, previousHash |-> before]
<1>1. own.pc = "latest" /\ prepared' = prepared
  BY DEF ReadLatest
<1>2. /\ own \in RunState /\ RunDecides(own, prepared) /\ own.book \in Books /\ own.date \in Dates
      /\ own.data[own.date] \in 1 .. MaxVersion
  BY <1>1, WorkFollows DEF HistoryInv, Working, RunState
<1>3. CASE StepAccepts(own.date, latest) /\ Become(r, WithEntry(own, entry, "stage"))
  <2>1. latest \in 0 .. MaxDate /\ (latest # 0 => Recorded(own.book, latest))
    BY <1>2, LatestIsNewest
  <2>2. latest = own.date - 1
    BY <1>3, <2>1, PublicationAssumption DEF StepAccepts
  <2>3. before = Decisions(prepared, own.date - 1)
    <3>1. StateAt(own.book, latest) = Decisions(prepared, latest)
      <4> HIDE DEF own, latest
      <4> QED
        BY <1>2, <2>1, StateIsDecided
    <3> QED
      BY <2>2, <3>1
  <2>4. entry.run = NextHistory(own, prepared)
    BY <2>3 DEF Stepped, NextHistory
  <2>5. entry \in Entry
    <3>1. before \in History
      BY <1>2, <2>1, StatesAreHistories DEF Inv
    <3>2. own.data[own.date] > 0
      BY <1>2, PublicationAssumption
    <3>3. Stepped(r, before) \in History
      <4> HIDE DEF before
      <4> QED
        BY <3>1, <3>2, SteppedRun DEF Inv
    <3> HIDE DEF latest
    <3> QED
      BY <2>1, <3>1, <3>3 DEF Entry
  <2> HIDE DEF entry, own
  <2>6. RunDecides(WithEntry(own, entry, "stage"), prepared)
    BY <1>1, <1>2, <2>4, <2>5, WithEntryDecides
  <2> QED
    BY <1>1, <1>3, <2>6, HistoriesStay
<1>4. CASE Stop(r)
  BY <1>1, <1>4, HistoriesStayStopped
<1> QED
  BY <1>3, <1>4 DEF ReadLatest

\* A run goes on after its day is in every book, or in another one.
LEMMA AfterBookDecides ==
  ASSUME Inv, HistoryInv, NEW r \in Runs, run[r].pc \in {"persist", "append"}
  PROVE  RunDecides(AfterBook(r, run[r]), prepared)
<1> DEFINE own == run[r]
           next == own.date + 1
           before == [b \in Books |-> own.entries[b].run]
           planned == [own EXCEPT !.pc = "stage", !.date = next,
                         !.entries = Planned(next, own.data[next], before)]
<1>1. /\ own \in RunState /\ own.date \in Dates /\ IsPrepared(own.date)
      /\ own.entries = prepared[own.date].entries
  BY DEF Inv, TypeOK, RunInv, AsPrepared, RunState, IsPrepared
<1>2. CASE own.book < BookCount
  <2>1. AfterBook(r, own).pc = "persist"
    BY <1>1, <1>2 DEF AfterBook, RunState
  <2> QED
    BY <2>1 DEF RunDecides
<1>3. CASE ~(own.book < BookCount) /\ BatchEnds(own)
  BY <1>3, IdleDecides DEF AfterBook, NextDay
<1>4. CASE ~(own.book < BookCount) /\ ~BatchEnds(own) /\ r \in Replays
  <2>1. AfterBook(r, own).pc = "lookup"
    BY <1>1, <1>4 DEF AfterBook, NextDay, RunState
  <2> QED
    BY <2>1 DEF RunDecides
<1>5. CASE ~(own.book < BookCount) /\ ~BatchEnds(own) /\ r \notin Replays
  <2>1. AfterBook(r, own) = planned
    BY <1>5 DEF AfterBook, NextDay
  <2>2. /\ planned.pc = "stage" /\ planned.date = next /\ planned.data[next] = own.data[next]
        /\ planned.entries = Planned(next, own.data[next], before)
    BY <1>1 DEF RunState
  <2>3. \A b \in Books : before[b] = Decisions(prepared, own.date)
    BY <1>1 DEF HistoryInv, DecidedInOrder
  <2>4. next - 1 = own.date
    BY <1>1, DatesBefore
  <2> HIDE DEF planned, before, next
  <2>5. RunDecides(planned, prepared)
    BY <2>2, <2>3, <2>4, PlannedDecides
  <2> QED
    BY <2>1, <2>5
<1> QED
  BY <1>2, <1>3, <1>4, <1>5

LEMMA WriteHistories ==
  ASSUME Inv, HistoryInv, NEW r \in Runs, Persist(r) \/ AppendSession(r)
  PROVE  HistoryInv'
<1> DEFINE going == [run[r] EXCEPT !.pc = "append"]
<1>1. prepared' = prepared /\ run[r].pc \in {"persist", "append"} /\ run[r] \in RunState
  BY DEF Persist, AppendSession, Inv, TypeOK
<1>2. Become(r, going) \/ Become(r, AfterBook(r, run[r])) \/ Stop(r)
  BY DEF Persist, AppendSession, AfterReused
<1>3. RunDecides(AfterBook(r, run[r]), prepared)
  BY <1>1, AfterBookDecides
<1>4. going.pc = "append"
  BY <1>1 DEF RunState
<1> HIDE DEF going
<1>5. RunDecides(going, prepared)
  BY <1>4 DEF RunDecides
<1> QED
  BY <1>1, <1>2, <1>3, <1>5, HistoriesStay, HistoriesStayStopped

\* A day is decided after all books have the day before, and decided once.
LEMMA StageDecides ==
  ASSUME Inv, HistoryInv, NEW r \in Runs, Stage(r), prepared' # prepared
  PROVE  LET d == run[r].date IN
         /\ run[r] \in RunState /\ d \in Dates /\ ~IsPrepared(d)
         /\ prepared' = [prepared EXCEPT ![d] = [input |-> run[r].data[d], entries |-> run[r].entries]]
         /\ run[r].data[d] \in 1 .. MaxVersion
         /\ \A b \in Books, e \in 1 .. d - 1 : Recorded(b, e)
         /\ \A e \in 1 .. d - 1 : IsPrepared(e)
         /\ \A b \in Books : run[r].entries[b].run = NextHistory(run[r], prepared)
<1> DEFINE own == run[r]
           d == own.date
           mine == [input |-> own.data[d], entries |-> own.entries]
           saved == Kept(d, mine)
           refused == ~Chained(own.entries, d) \/ saved.input # mine.input
<1>1. own.pc = "stage" /\ prepared' = IF refused THEN prepared ELSE [prepared EXCEPT ![d] = saved]
  BY DEF Stage
<1>2. /\ own \in RunState /\ d \in Dates /\ own.data[d] \in 1 .. MaxVersion
      /\ \A b \in Books, e \in 1 .. d - 1 : Recorded(b, e)
      /\ \A e \in 1 .. d - 1 : IsPrepared(e)
  BY <1>1, WorkFollows DEF Working
<1>3. \A b \in Books : own.entries[b].run = NextHistory(own, prepared)
  BY <1>1 DEF HistoryInv, RunDecides
<1>4. ~IsPrepared(d)
  <2>1. CASE IsPrepared(d)
    <3>1. saved = prepared[d]
      BY <2>1 DEF Kept
    <3>2. [prepared EXCEPT ![d] = saved] = prepared
      BY <3>1 DEF Inv, TypeOK
    <3> HIDE DEF refused, saved
    <3> QED
      BY <1>1, <3>2
  <2> QED
    BY <2>1
<1>5. saved = mine
  BY <1>4 DEF Kept
<1>6. prepared' = [prepared EXCEPT ![d] = mine]
  <2> HIDE DEF refused, mine
  <2> QED
    BY <1>1, <1>5
<1> QED
  BY <1>2, <1>3, <1>4, <1>6

LEMMA StageHistories ==
  ASSUME Inv, HistoryInv, NEW r \in Runs, Stage(r)
  PROVE  HistoryInv'
<1> DEFINE own == run[r]
           d == own.date
           mine == [input |-> own.data[d], entries |-> own.entries]
           go == [own EXCEPT !.pc = "persist", !.book = 1, !.entries = Kept(d, mine).entries]
           back == [own EXCEPT !.pc = "lookup"]
<1>1. Stop(r) \/ Become(r, go) \/ Become(r, back)
  BY DEF Stage
<1>2. go.pc = "persist" /\ back.pc = "lookup"
  BY DEF Inv, TypeOK, RunState
<1>3. PICK next : Become(r, next) /\ \A prep : RunDecides(next, prep)
  <2> HIDE DEF go, back
  <2>1. \A prep : RunDecides(Idle, prep) /\ RunDecides(go, prep) /\ RunDecides(back, prep)
    BY <1>2, IdleDecides DEF RunDecides
  <2> QED
    BY <1>1, <2>1 DEF Stop
<1> HIDE DEF go, back
<1>4. CASE prepared' = prepared
  BY <1>3, <1>4, HistoriesStay
<1>5. CASE prepared' # prepared
  <2>1. /\ own \in RunState /\ d \in Dates /\ ~IsPrepared(d) /\ prepared' = [prepared EXCEPT ![d] = mine]
        /\ own.data[d] \in 1 .. MaxVersion
        /\ \A e \in 1 .. d - 1 : IsPrepared(e)
        /\ \A b \in Books : own.entries[b].run = NextHistory(own, prepared)
    BY <1>5, StageDecides
  <2>2. \A e \in Dates : prepared'[e] = IF e = d THEN mine ELSE prepared[e]
    BY <2>1 DEF Inv, TypeOK
  <2>3. mine.input # 0 /\ mine.input = own.data[d] /\ mine.entries = own.entries
    BY <2>1, PublicationAssumption
  <2>4. \A e \in Dates : IsPrepared(e) => prepared'[e] = prepared[e]
    BY <2>1, <2>2
  <2> HIDE DEF mine
  <2>5. ASSUME NEW e \in Dates, \A i \in 1 .. e : IsPrepared(i)
        PROVE  Decisions(prepared', e) = Decisions(prepared, e)
    <3>1. e \in Nat /\ \A i \in 1 .. e : prepared'[i] = prepared[i]
      BY <2>4, <2>5, DatesBefore
    <3> QED
      BY <3>1, DecisionsStay
  <2>6. Decisions(prepared', d - 1) = Decisions(prepared, d - 1)
    <3>1. d - 1 \in Nat /\ \A i \in 1 .. d - 1 : prepared'[i] = prepared[i]
      BY <2>1, <2>4, DatesBefore
    <3> QED
      BY <3>1, DecisionsStay
  <2>7. \A b \in Books : own.entries[b].run = Decisions(prepared', d)
    <3>1. d \in Nat \ {0} /\ prepared'[d].input = own.data[d]
      BY <2>1, <2>2, <2>3, DatesBefore
    <3>2. Append(Decisions(prepared', d - 1), [date |-> d, input |-> own.data[d]]) = Decisions(prepared', d)
      BY <3>1, DecisionsNext
    <3> QED
      BY <2>1, <2>6, <3>2 DEF NextHistory
  <2>8. ASSUME NEW e \in Dates, prepared'[e].input # 0
        PROVE  /\ \A i \in 1 .. e : prepared'[i].input # 0
               /\ \A b \in Books : prepared'[e].entries[b].run = Decisions(prepared', e)
    <3>1. CASE e = d
      <4>1. ASSUME NEW i \in 1 .. d PROVE prepared'[i].input # 0
        <5>1. i \in Dates /\ (i = d \/ i \in 1 .. d - 1)
          BY <2>1, DatesBefore
        <5> QED
          BY <2>1, <2>2, <2>3, <2>4, <5>1 DEF IsPrepared
      <4>2. prepared'[e] = mine
        BY <2>1, <2>2, <3>1
      <4>3. \A b \in Books : prepared'[e].entries[b].run = Decisions(prepared', e)
        BY <2>3, <2>7, <3>1, <4>2
      <4> QED
        BY <3>1, <4>1, <4>3
    <3>2. CASE e # d
      <4>1. /\ IsPrepared(e) /\ \A i \in 1 .. e : IsPrepared(i)
            /\ \A b \in Books : prepared[e].entries[b].run = Decisions(prepared, e)
        BY <2>2, <2>8, <3>2 DEF IsPrepared, HistoryInv, DecidedInOrder
      <4>2. \A i \in 1 .. e : i \in Dates /\ prepared'[i] = prepared[i]
        BY <2>4, <4>1, DatesBefore
      <4> QED
        BY <2>2, <2>5, <3>2, <4>1, <4>2 DEF IsPrepared
    <3> QED
      BY <3>1, <3>2
  <2>9. DecidedInOrder'
    BY <2>8 DEF DecidedInOrder, IsPrepared
  <2>10. \A q \in Runs : run'[q] = IF q = r THEN next ELSE run[q]
    BY <1>3 DEF Inv, TypeOK, Become
  <2>11. ASSUME NEW q \in Runs PROVE RunDecides(run'[q], prepared')
    <3>1. CASE q = r
      BY <1>3, <2>10, <3>1
    <3>2. CASE q # r /\ ~Working(run[q])
      BY <2>10, <3>2 DEF RunDecides, Working, Inv, TypeOK, RunState
    <3>3. CASE q # r /\ Working(run[q])
      <4>1. run[q].date \in Dates /\ \A e \in 1 .. run[q].date - 1 : IsPrepared(e)
        BY <3>3, WorkFollows
      <4>2. run[q].date - 1 \in Nat /\ \A e \in 1 .. run[q].date - 1 : prepared'[e] = prepared[e]
        BY <2>4, <4>1, DatesBefore
      <4>3. NextHistory(run[q], prepared') = NextHistory(run[q], prepared)
        BY <4>2, DecisionsStay DEF NextHistory
      <4> QED
        BY <2>10, <3>3, <4>3 DEF HistoryInv, RunDecides
    <3> QED
      BY <3>1, <3>2, <3>3
  <2> QED
    BY <2>9, <2>11 DEF HistoryInv
<1> QED
  BY <1>4, <1>5

LEMMA HistoryHolds == Spec => [](Inv /\ HistoryInv)
<1>1. Init => HistoryInv
  <2> SUFFICES ASSUME Init PROVE HistoryInv
    OBVIOUS
  <2>1. \A d \in Dates : ~IsPrepared(d)
    BY DEF Init, IsPrepared, NotPrepared
  <2>2. \A r \in Runs : RunDecides(run[r], prepared)
    BY IdleDecides DEF Init
  <2> QED
    BY <2>1, <2>2 DEF HistoryInv, DecidedInOrder
<1>2. Inv /\ HistoryInv /\ [Next]_vars => HistoryInv'
  <2> SUFFICES ASSUME Inv, HistoryInv, [Next]_vars PROVE HistoryInv'
    OBVIOUS
  <2>1. CASE UNCHANGED vars \/ \E d \in Dates : Collect(d)
    BY <2>1 DEF vars, Collect, HistoryInv, DecidedInOrder, IsPrepared
  <2>2. ASSUME NEW r \in Runs, Start(r)
        PROVE  HistoryInv'
    BY <2>2, ReadHistories, StartContinuationHistories DEF Start
  <2>3. ASSUME NEW r \in Runs, RunStep(r) \/ Die(r)
        PROVE  HistoryInv'
    BY <2>3, ReadHistories, ReadSessionHistories, ReadLatestHistories, StageHistories, WriteHistories
       DEF RunStep
  <2> QED
    BY <2>1, <2>2, <2>3 DEF Next
<1> QED
  BY <1>1, <1>2, InitHolds, NextHolds, PTL DEF Spec

-----------------------------------------------------------------------------
(* The refinement: decided days and what each book records of them.        *)

NewestIsDecided ==
  /\ Decided \in 0 .. MaxDate
  /\ Decided # 0 => IsPrepared(Decided)
  /\ \A d \in Dates : IsPrepared(d) => d <= Decided

LEMMA DecidedIsNewest == NewestIsDecided
<1> DEFINE S == {d \in Dates : IsPrepared(d)}
<1>1. \E n \in 0 .. MaxDate : (n # 0 => n \in S) /\ \A d \in S : d <= n
  <2> HIDE DEF S
  <2>1. S \in SUBSET Dates
    BY DEF S
  <2> QED
    BY <2>1, Newest
<1>2. \E n \in 0 .. MaxDate : /\ n # 0 => IsPrepared(n)
                              /\ \A d \in Dates : IsPrepared(d) => d <= n
  BY <1>1
<1> QED
  BY <1>2, Zenon DEF Decided, NewestIsDecided

\* The newest date of a set is the only one with that property.
LEMMA NewestIs ==
  ASSUME NEW m \in 0 .. MaxDate, NEW n \in 0 .. MaxDate, NEW S \in SUBSET Dates,
         n # 0 => n \in S, \A d \in S : d <= n,
         m # 0 => m \in S, \A d \in S : d <= m
  PROVE  m = n
  BY PublicationAssumption DEF Dates

LEMMA LatestIs ==
  ASSUME NEW b \in Books, NEW n \in 0 .. MaxDate, n # 0 => Recorded(b, n),
         \A d \in Dates : Recorded(b, d) => d <= n
  PROVE  Latest(b) = n
<1> DEFINE S == {d \in Dates : Recorded(b, d)}
<1>1. n # 0 => n \in Dates
  BY PublicationAssumption DEF Dates
<1>2. Latest(b) \in 0 .. MaxDate /\ (Latest(b) # 0 => Latest(b) \in Dates)
  BY LatestIsNewest, PublicationAssumption DEF Dates
<1>3. S \in SUBSET Dates /\ (n # 0 => n \in S) /\ (\A d \in S : d <= n)
      /\ (Latest(b) # 0 => Latest(b) \in S) /\ (\A d \in S : d <= Latest(b))
  BY <1>1, <1>2, LatestIsNewest
<1> HIDE DEF S
<1> QED
  BY <1>2, <1>3, NewestIs

LEMMA DecidedIs ==
  ASSUME NEW n \in 0 .. MaxDate, n # 0 => IsPrepared(n),
         \A d \in Dates : IsPrepared(d) => d <= n
  PROVE  Decided = n
<1> DEFINE S == {d \in Dates : IsPrepared(d)}
<1>1. n # 0 => n \in Dates
  BY PublicationAssumption DEF Dates
<1>2. Decided \in 0 .. MaxDate /\ (Decided # 0 => Decided \in Dates)
  BY DecidedIsNewest, PublicationAssumption DEF NewestIsDecided, Dates
<1>3. S \in SUBSET Dates /\ (n # 0 => n \in S) /\ (\A d \in S : d <= n)
      /\ (Decided # 0 => Decided \in S) /\ (\A d \in S : d <= Decided)
  BY <1>1, <1>2, DecidedIsNewest DEF NewestIsDecided
<1> HIDE DEF S
<1> QED
  BY <1>2, <1>3, NewestIs

\* What the abstract variables are.
RecordedIsDecided ==
  \A b \in Books : /\ Latest(b) \in 0 .. MaxDate
                   /\ StateAt(b, Latest(b)) = Decisions(prepared, Latest(b))

LEMMA WhatIsPromised ==
  Inv /\ HistoryInv =>
    /\ StateAtPrepared(Decided) = Decisions(prepared, Decided)
    /\ RecordedIsDecided
<1> SUFFICES ASSUME Inv, HistoryInv
             PROVE  /\ StateAtPrepared(Decided) = Decisions(prepared, Decided)
                    /\ RecordedIsDecided
  OBVIOUS
<1>0. PICK n : n = Decided
  OBVIOUS
<1>1. n = 0 => StateAtPrepared(n) = Decisions(prepared, n)
  BY NothingDecided DEF StateAtPrepared
<1>2. ASSUME n # 0 PROVE StateAtPrepared(n) = Decisions(prepared, n)
  <2>1. n \in Dates /\ IsPrepared(n) /\ 1 \in Books
    BY <1>0, <1>2, DecidedIsNewest, PublicationAssumption DEF NewestIsDecided, Dates, Books
  <2>2. prepared[n].entries[1].run = Decisions(prepared, n)
    BY <2>1 DEF HistoryInv, DecidedInOrder
  <2> QED
    BY <1>2, <2>2 DEF StateAtPrepared
<1>3. RecordedIsDecided
  BY LatestIsNewest, StateIsDecided DEF RecordedIsDecided
<1> QED
  BY <1>0, <1>1, <1>2, <1>3

\* A book that has all days up to one and none after has that one as its last.
LEMMA LatestBefore ==
  ASSUME NEW b \in Books, NEW d \in Dates, \A e \in 1 .. d - 1 : Recorded(b, e),
         \A e \in Dates : Recorded(b, e) => e < d
  PROVE  Latest(b) = d - 1
<1>1. d - 1 \in 0 .. MaxDate /\ (d - 1 # 0 => d - 1 \in 1 .. d - 1)
  BY PublicationAssumption DEF Dates
<1>2. \A e \in Dates : Recorded(b, e) => e <= d - 1
  BY PublicationAssumption DEF Dates
<1> QED
  BY <1>1, <1>2, LatestIs

\* A publication that is prepared decides the day for all books.
LEMMA StageIsDecide ==
  ASSUME Inv, HistoryInv, NEW r \in Runs, Stage(r), prepared' # prepared,
         Inv', HistoryInv'
  PROVE  \E day \in Day :
           /\ \A b \in Books : StateAt(b, Latest(b)) = StateAtPrepared(Decided)
           /\ StateAtPrepared(Decided)' = Append(StateAtPrepared(Decided), day)
<1> DEFINE d == run[r].date
           day == [date |-> d, input |-> run[r].data[d]]
<1>1. /\ d \in Dates /\ ~IsPrepared(d) /\ run[r].data[d] \in 1 .. MaxVersion
      /\ prepared' = [prepared EXCEPT ![d] = [input |-> run[r].data[d], entries |-> run[r].entries]]
      /\ \A b \in Books, e \in 1 .. d - 1 : Recorded(b, e)
      /\ \A e \in 1 .. d - 1 : IsPrepared(e)
  BY StageDecides
<1>2. \A e \in Dates : IsPrepared(e) => e < d
  <2> SUFFICES ASSUME NEW e \in Dates, IsPrepared(e), ~(e < d) PROVE FALSE
    OBVIOUS
  <2>1. d \in 1 .. e
    BY <1>1, PublicationAssumption DEF Dates
  <2> QED
    BY <1>1, <2>1 DEF HistoryInv, DecidedInOrder
<1>3. Decided = d - 1
  <2>1. d - 1 \in 0 .. MaxDate /\ (d - 1 # 0 => IsPrepared(d - 1))
    BY <1>1, PublicationAssumption DEF Dates
  <2>2. \A e \in Dates : IsPrepared(e) => e <= d - 1
    BY <1>1, <1>2, PublicationAssumption DEF Dates
  <2> QED
    BY <2>1, <2>2, DecidedIs
<1>4. \A b \in Books : Latest(b) = d - 1
  <2>1. \A b \in Books, e \in Dates : Recorded(b, e) => e < d
    BY <1>2 DEF Inv, OneDecision
  <2> QED
    BY <1>1, <2>1, LatestBefore
<1>5. \A e \in Dates : prepared'[e] = IF e = d THEN [input |-> run[r].data[d], entries |-> run[r].entries]
                                      ELSE prepared[e]
  BY <1>1 DEF Inv, TypeOK
<1>6. Decided' = d
  <2>1. \A e \in Dates : IsPrepared(e)' <=> IsPrepared(e) \/ e = d
    BY <1>1, <1>5, PublicationAssumption DEF IsPrepared
  <2> DEFINE S == {e \in Dates : prepared'[e].input # 0}
  <2>2. \A e \in Dates : e \in S <=> IsPrepared(e) \/ e = d
    BY <2>1 DEF IsPrepared
  <2>3. S \in SUBSET Dates
    OBVIOUS
  <2>4. /\ Decided' \in 0 .. MaxDate /\ (Decided' # 0 => Decided' \in S)
        /\ \A e \in S : e <= Decided'
    <3>1. NewestIsDecided'
      BY DecidedIsNewest, PTL
    <3>2. PICK n : n = Decided'
      OBVIOUS
    <3>3. n \in 0 .. MaxDate /\ (n # 0 => n \in Dates /\ prepared'[n].input # 0)
      BY <3>1, <3>2, PublicationAssumption DEF NewestIsDecided, IsPrepared, Dates
    <3>4. \A e \in Dates : prepared'[e].input # 0 => e <= n
      BY <3>1, <3>2 DEF NewestIsDecided, IsPrepared
    <3> QED
      BY <3>2, <3>3, <3>4
  <2> HIDE DEF S
  <2>5. d \in S /\ d \in 0 .. MaxDate /\ \A e \in S : e <= d
    BY <1>1, <1>2, <2>2, <2>3, PublicationAssumption DEF Dates
  <2> QED
    BY <2>3, <2>4, <2>5, NewestIs
<1>7. StateAtPrepared(Decided)' = Decisions(prepared', d)
  <2>1. (StateAtPrepared(Decided) = Decisions(prepared, Decided))'
    BY WhatIsPromised, PTL
  <2> QED
    BY <1>6, <2>1
<1>8. Decisions(prepared', d) = Append(Decisions(prepared, d - 1), day)
  <2>1. d - 1 \in Nat /\ d \in Nat \ {0} /\ prepared'[d].input = run[r].data[d]
        /\ \A e \in 1 .. d - 1 : prepared'[e] = prepared[e]
    BY <1>1, <1>5, DatesBefore
  <2>2. Decisions(prepared', d - 1) = Decisions(prepared, d - 1)
    BY <2>1, DecisionsStay
  <2>3. day = [date |-> d, input |-> prepared'[d].input]
    BY <2>1
  <2> HIDE DEF day, d
  <2> QED
    BY <2>1, <2>2, <2>3, DecisionsNext
<1>9. day \in Day
  BY <1>1 DEF Day
<1>10. /\ StateAtPrepared(Decided) = Decisions(prepared, d - 1)
       /\ \A b \in Books : StateAt(b, Latest(b)) = Decisions(prepared, d - 1)
  BY <1>3, <1>4, WhatIsPromised DEF RecordedIsDecided
<1> HIDE DEF d, day
<1> QED
  BY <1>7, <1>8, <1>9, <1>10

NewestIsLatest ==
  \A b \in Books : /\ Latest(b) \in 0 .. MaxDate
                   /\ Latest(b) # 0 => Recorded(b, Latest(b))
                   /\ \A d \in Dates : Recorded(b, d) => d <= Latest(b)

LEMMA LatestAreNewest == NewestIsLatest
  BY LatestIsNewest DEF NewestIsLatest

\* The newest session of a book after a step.
LEMMA LatestAfter ==
  ASSUME NEW b \in Books, NEW n \in 0 .. MaxDate, n # 0 => session'[b][n] # <<>>,
         \A d \in Dates : session'[b][d] # <<>> => d <= n
  PROVE  Latest(b)' = n
<1> DEFINE S == {d \in Dates : session'[b][d] # <<>>}
<1>1. NewestIsLatest'
  BY LatestAreNewest, PTL
<1>2. PICK m : m = Latest(b)'
  OBVIOUS
<1>3. /\ m \in 0 .. MaxDate /\ (m # 0 => session'[b][m] # <<>>)
      /\ \A d \in Dates : session'[b][d] # <<>> => d <= m
  BY <1>1, <1>2 DEF NewestIsLatest, Recorded
<1>4. (n # 0 => n \in Dates) /\ (m # 0 => m \in Dates)
  BY <1>3, PublicationAssumption DEF Dates
<1>5. S \in SUBSET Dates /\ (n # 0 => n \in S) /\ (\A d \in S : d <= n)
      /\ (m # 0 => m \in S) /\ (\A d \in S : d <= m)
  BY <1>3, <1>4
<1> HIDE DEF S
<1>6. m = n
  BY <1>3, <1>5, NewestIs
<1> QED
  BY <1>2, <1>6

\* A session that is appended is the book's next decided day.
LEMMA AppendIsRecord ==
  ASSUME Inv, HistoryInv, NEW r \in Runs, AppendSession(r), session' # session,
         Inv', HistoryInv'
  PROVE  \E b \in Books :
           /\ Len(StateAt(b, Latest(b))) < Len(StateAtPrepared(Decided))
           /\ \A c \in Books :
                StateAt(c, Latest(c))' =
                  IF c = b
                  THEN Append(StateAt(b, Latest(b)),
                              StateAtPrepared(Decided)[Len(StateAt(b, Latest(b))) + 1])
                  ELSE StateAt(c, Latest(c))
<1> DEFINE own == run[r]
<1>0. PICK b, d, entry : b = own.book /\ d = own.date /\ entry = own.entries[b]
  OBVIOUS
<1>1. /\ own.pc = "append" /\ session[b][d] = <<>> /\ HeadMatches(entry, b, d)
      /\ session' = [session EXCEPT ![b][d] = entry.run] /\ prepared' = prepared
  BY <1>0 DEF AppendSession
<1>2. /\ b \in Books /\ d \in Dates /\ IsPrepared(d) /\ entry.run # <<>>
      /\ \A e \in 1 .. d - 1 : Recorded(b, e)
  <2>1. own \in RunState /\ IsPrepared(d) /\ own.entries = prepared[d].entries
    BY <1>0, <1>1 DEF Inv, TypeOK, RunInv, AsPrepared, IsPrepared
  <2>2. b \in Books /\ d \in Dates /\ \A e \in 1 .. d - 1 : Recorded(b, e)
    BY <1>0, <1>1, <2>1, WorkFollows DEF Working, RunState
  <2>3. entry.run # <<>>
    BY <1>0, <2>1, <2>2 DEF Inv, Filled
  <2> QED
    BY <2>1, <2>2, <2>3
<1>3. /\ d \in Nat \ {0} /\ d \in 0 .. MaxDate /\ d - 1 \in Nat /\ d - 1 \in 0 .. MaxDate
      /\ \A e \in Dates : e < d <=> e \in 1 .. d - 1
  BY <1>2, DatesBefore, PublicationAssumption DEF Dates
<1>4. Latest(b) = d - 1
  <2>1. d > Latest(b)
    BY <1>1 DEF HeadMatches
  <2>2. Latest(b) \in 0 .. MaxDate /\ \A e \in Dates : Recorded(b, e) => e <= Latest(b)
    BY <1>2, LatestIsNewest
  <2>3. \A e \in Dates : Recorded(b, e) => e < d
    BY <1>3, <2>1, <2>2 DEF Dates
  <2> QED
    BY <1>2, <2>3, LatestBefore
<1>5. \A c \in Books, e \in Dates :
        session'[c][e] = IF c = b /\ e = d THEN entry.run ELSE session[c][e]
  <2>1. session \in [Books -> [Dates -> History]]
    BY DEF Inv, TypeOK
  <2>2. session' = [session EXCEPT ![b] = [session[b] EXCEPT ![d] = entry.run]]
    BY <1>1
  <2> QED
    BY <1>2, <2>1, <2>2
<1>6. Latest(b)' = d
  <2>1. session'[b][d] # <<>>
    BY <1>2, <1>5
  <2>2. \A e \in Dates : Recorded(b, e) => e <= d - 1
    BY <1>2, <1>4, LatestIsNewest
  <2>3. \A e \in Dates : session'[b][e] # <<>> => e <= d
    BY <1>2, <1>3, <1>5, <2>2 DEF Recorded, Dates
  <2> QED
    BY <1>2, <1>3, <2>1, <2>3, LatestAfter
<1>7. ASSUME NEW c \in Books, c # b
      PROVE  Latest(c)' = Latest(c)
  <2>1. PICK n : n = Latest(c)
    OBVIOUS
  <2>2. /\ n \in 0 .. MaxDate /\ (n # 0 => Recorded(c, n))
        /\ \A e \in Dates : Recorded(c, e) => e <= n
    BY <2>1, LatestIsNewest
  <2>3. n # 0 => n \in Dates
    BY <2>2, PublicationAssumption DEF Dates
  <2>4. (n # 0 => session'[c][n] # <<>>) /\ \A e \in Dates : session'[c][e] # <<>> => e <= n
    BY <1>5, <1>7, <2>2, <2>3 DEF Recorded
  <2> QED
    BY <2>1, <2>2, <2>4, LatestAfter
<1>8. \A c \in Books : StateAt(c, Latest(c))' = Decisions(prepared, Latest(c)')
  <2>1. RecordedIsDecided'
    BY WhatIsPromised, PTL
  <2> QED
    BY <1>1, <2>1 DEF RecordedIsDecided
<1>9. \A c \in Books : StateAt(c, Latest(c)) = Decisions(prepared, Latest(c))
  BY WhatIsPromised DEF RecordedIsDecided
<1>10. PICK n : /\ n = Decided /\ n \in 0 .. MaxDate /\ d <= n /\ n \in Nat \ {0}
                /\ StateAtPrepared(Decided) = Decisions(prepared, n)
  <2>1. PICK n : n = Decided
    OBVIOUS
  <2>2. n \in 0 .. MaxDate /\ d <= n /\ StateAtPrepared(Decided) = Decisions(prepared, n)
    BY <1>2, <2>1, DecidedIsNewest, WhatIsPromised DEF NewestIsDecided
  <2> QED
    BY <1>3, <2>1, <2>2, PublicationAssumption
<1>11. PICK before, after : /\ before = Decisions(prepared, d - 1) /\ after = Decisions(prepared, n)
  OBVIOUS
<1>12. /\ Len(before) = d - 1 /\ Len(after) = n /\ after[d] = [date |-> d, input |-> prepared[d].input]
       /\ Decisions(prepared, d) = Append(before, after[d])
  <2>1. Len(before) = d - 1
    <3>1. CASE d - 1 = 0
      BY <1>11, <3>1, NothingDecided
    <3>2. CASE d - 1 # 0
      <4>1. d - 1 \in Nat \ {0}
        BY <1>3, <3>2
      <4> QED
        BY <1>11, <4>1, DecisionsNext
    <3> QED
      BY <3>1, <3>2
  <2>2. Len(after) = n
    BY <1>10, <1>11, DecisionsNext
  <2>3. after[d] = [date |-> d, input |-> prepared[d].input]
    BY <1>3, <1>10, <1>11 DEF Decisions
  <2> QED
    BY <1>3, <1>11, <2>1, <2>2, <2>3, DecisionsNext
<1>13. StateAt(b, Latest(b)) = before /\ StateAtPrepared(Decided) = after
  BY <1>2, <1>4, <1>9, <1>10, <1>11
<1>14. Len(before) < Len(after) /\ Len(before) + 1 = d
  BY <1>3, <1>10, <1>12
<1>15. StateAt(b, Latest(b))' = Append(before, after[Len(before) + 1])
  <2>1. StateAt(b, Latest(b))' = Decisions(prepared, d)
    BY <1>2, <1>6, <1>8
  <2> QED
    BY <1>12, <1>14, <2>1
<1>16. \A c \in Books : c # b => StateAt(c, Latest(c))' = StateAt(c, Latest(c))
  BY <1>7, <1>8, <1>9
<1> QED
  BY <1>2, <1>13, <1>14, <1>15, <1>16

\* Whatever runs race or die, each day is decided once, for all books, when all
\* have the day before, and every book records the decided days in order: the
\* publication refines the promised books.
THEOREM PublicationImplementsBooks == Spec => ImplementsShadowBooks
<1> DEFINE known == StateAtPrepared(Decided)
           books == [b \in Books |-> StateAt(b, Latest(b))]
<1>1. Init => Promised!Init
  <2> SUFFICES ASSUME Init PROVE Promised!Init
    OBVIOUS
  <2>1. /\ \A d \in Dates : ~IsPrepared(d)
        /\ \A b \in Books, d \in Dates : ~Recorded(b, d)
    BY DEF Init, IsPrepared, NotPrepared, Recorded
  <2>2. 0 \in 0 .. MaxDate
    BY PublicationAssumption
  <2>3. Decided = 0
    BY <2>1, <2>2, DecidedIs
  <2>4. \A b \in Books : Latest(b) = 0
    BY <2>1, <2>2, LatestIs
  <2>5. known = <<>> /\ books = [b \in Books |-> <<>>]
    BY <2>3, <2>4 DEF StateAtPrepared, StateAt
  <2> QED
    BY <2>5 DEF Promised!Init
<1>2. Inv /\ HistoryInv /\ Inv' /\ HistoryInv' /\ [Next]_vars
        => [Promised!Next]_<<known, books>>
  <2> SUFFICES ASSUME Inv, HistoryInv, Inv', HistoryInv', [Next]_vars
               PROVE  Promised!Next \/ (known' = known /\ books' = books)
    OBVIOUS
  <2>1. prepared' = prepared => known' = known
    BY DEF StateAtPrepared, Decided, IsPrepared
  <2>2. session' = session => books' = books
    BY DEF StateAt, Latest, Recorded
  <2>3. \/ prepared' = prepared /\ session' = session
        \/ \E r \in Runs : Stage(r) /\ session' = session
        \/ \E r \in Runs : AppendSession(r) /\ prepared' = prepared
    <3> DEFINE Still == prepared' = prepared /\ session' = session
    <3>1. UNCHANGED vars \/ (\E d \in Dates : Collect(d)) => Still
      BY DEF vars, Collect
    <3>2. \A r \in Runs : Start(r) \/ Die(r) => Still
      BY DEF Start, StartReplay, StartContinuation, Die
    <3>3. \A r \in Runs : (\E b \in Books : ReadHead(r, b)) \/ Align(r) \/ Lookup(r) => Still
      BY DEF ReadHead, Align, Lookup
    <3>4. \A r \in Runs : ReadSession(r) \/ ReadLatest(r) \/ Persist(r) => Still
      BY DEF ReadSession, ReadLatest, Persist
    <3>5. \A r \in Runs : /\ Stage(r) => session' = session
                          /\ AppendSession(r) => prepared' = prepared
      BY DEF Stage, AppendSession
    <3> HIDE DEF Still
    <3>6. ASSUME NEW r \in Runs, RunStep(r) PROVE Still \/ Stage(r) \/ AppendSession(r)
      BY <3>3, <3>4, <3>6 DEF RunStep
    <3>7. Still \/ \E r \in Runs : Stage(r) \/ AppendSession(r)
      BY <3>1, <3>2, <3>6 DEF Next
    <3> QED
      BY <3>5, <3>7 DEF Still
  <2>4. ASSUME NEW r \in Runs, Stage(r), prepared' # prepared, session' = session
        PROVE  Promised!Next
    <3>1. PICK day \in Day :
            /\ \A b \in Books : StateAt(b, Latest(b)) = StateAtPrepared(Decided)
            /\ StateAtPrepared(Decided)' = Append(StateAtPrepared(Decided), day)
      BY <2>4, StageIsDecide
    <3>2. \A b \in Books : books[b] = known
      BY <3>1
    <3>3. known' = Append(known, day) /\ books' = books
      BY <2>2, <2>4, <3>1
    <3> HIDE DEF known, books
    <3>4. Promised!Decide(day)
      BY <3>2, <3>3 DEF Promised!Decide, known, books
    <3> QED
      BY <3>4 DEF Promised!Next
  <2>5. ASSUME NEW r \in Runs, AppendSession(r), session' # session, prepared' = prepared
        PROVE  Promised!Next
    <3>1. PICK b \in Books :
            /\ Len(StateAt(b, Latest(b))) < Len(StateAtPrepared(Decided))
            /\ \A c \in Books :
                 StateAt(c, Latest(c))' =
                   IF c = b
                   THEN Append(StateAt(b, Latest(b)),
                               StateAtPrepared(Decided)[Len(StateAt(b, Latest(b))) + 1])
                   ELSE StateAt(c, Latest(c))
      BY <2>5, AppendIsRecord
    <3>2. books' = [books EXCEPT ![b] = Append(books[b], known[Len(books[b]) + 1])]
      BY <3>1
    <3>3. Len(books[b]) < Len(known)
      BY <3>1
    <3>4. known' = known
      BY <2>1, <2>5
    <3>5. Promised!Record(b)
      BY <3>2, <3>3, <3>4 DEF Promised!Record
    <3> QED
      BY <3>5 DEF Promised!Next
  <2> QED
    BY <2>1, <2>2, <2>3, <2>4, <2>5
<1> QED
  BY <1>1, <1>2, HistoryHolds, PTL DEF Spec, ImplementsShadowBooks, Promised!Spec
=============================================================================
