-------------------------- MODULE ShadowPublication --------------------------
(***************************************************************************)
(* Publication of a market's model (shadow) books.  A run reads the heads  *)
(* of all books, decides one session of every book, makes the decision     *)
(* durable as one prepared publication, and appends it book by book.  Runs *)
(* race with each other, die anywhere, and see revised source data.        *)
(*                                                                         *)
(* Data abstraction.  A session's state hash stands for its whole history, *)
(* so a run is the sequence of the days (date and input) it was computed   *)
(* from, and <<>> is no session.  Contracts, clocks, prices and the        *)
(* content-addressed daily input archive are left out.                     *)
(***************************************************************************)
EXTENDS Naturals, SequencesExt

CONSTANTS
  BookCount,       \* books of the market, in the order they are published
  MaxDate,         \* sessions of the calendar
  MaxVersion,      \* bound: versions of a date's source data
  Replays,         \* requests that replay every missing session
  Continuations,   \* planned batches from a recorded base session
  MaxFaults        \* bound: runs that die

ASSUME PublicationAssumption ==
  /\ BookCount \in Nat \ {0} /\ MaxDate \in Nat \ {0} /\ MaxVersion \in Nat \ {0}
  /\ Replays \cap Continuations = {} /\ MaxFaults \in Nat

Books == 1 .. BookCount
Dates == 1 .. MaxDate
Runs == Replays \cup Continuations

VARIABLES
  source,      \* version of each date's rows, 0 when there are none
  prepared,    \* the prepared publication of each date
  session,     \* the stored session of each book and date
  run,         \* local state of each run
  faults

vars == <<source, prepared, session, run, faults>>

Day == [date : Dates, input : 1 .. MaxVersion]
History == Seq(Day)
Entry == [run : History, previousDate : 0 .. MaxDate, previousHash : History]

NoEntries == [b \in Books |-> [run |-> <<>>, previousDate |-> 0, previousHash |-> <<>>]]
NotPrepared == [input |-> 0, entries |-> NoEntries]

Unread == MaxDate + 1
Idle == [pc |-> "idle", data |-> [d \in Dates |-> 0], through |-> 0, date |-> 1,
         book |-> 1, heads |-> [b \in Books |-> Unread], entries |-> NoEntries]

Init ==
  /\ source = [d \in Dates |-> 0]
  /\ prepared = [d \in Dates |-> NotPrepared]
  /\ session = [b \in Books |-> [d \in Dates |-> <<>>]]
  /\ run = [r \in Runs |-> Idle]
  /\ faults = 0

-----------------------------------------------------------------------------
(* What the tables hold.                                                   *)

Recorded(b, d) == session[b][d] # <<>>
IsPrepared(d) == prepared[d].input # 0

\* The newest session of a book, 0 when it has none.
Latest(b) ==
  CHOOSE n \in 0 .. MaxDate :
    /\ n # 0 => Recorded(b, n)
    /\ \A d \in Dates : Recorded(b, d) => d <= n

StateAt(b, d) == IF d = 0 THEN <<>> ELSE session[b][d]

\* The session that the engine computes for a day after a given state.
Stepped(r, before) ==
  Append(before, [date |-> run[r].date, input |-> run[r].data[run[r].date]])

Through(data) == CHOOSE n \in 0 .. MaxDate : \A d \in Dates : data[d] > 0 <=> d <= n

Become(r, state) == run' = [run EXCEPT ![r] = state]
Stop(r) == Become(r, Idle)

\* Sources of a date arrive after those of the date before, and may be revised.
Collect(d) ==
  /\ d > 1 => source[d - 1] > 0
  /\ source[d] < MaxVersion
  /\ source' = [source EXCEPT ![d] = @ + 1]
  /\ UNCHANGED <<prepared, session, run, faults>>

-----------------------------------------------------------------------------
(* Replay (replayKrShadow, replayUsShadow): which sessions are missing.    *)

StartReplay(r) ==
  /\ r \in Replays /\ run[r].pc = "idle" /\ source[1] > 0
  /\ Become(r, [Idle EXCEPT !.pc = "heads", !.data = source, !.through = Through(source)])
  /\ UNCHANGED <<source, prepared, session, faults>>

\* The heads are read by concurrent queries.
ReadHead(r, b) ==
  /\ run[r].pc = "heads" /\ run[r].heads[b] = Unread
  /\ Become(r, [run[r] EXCEPT !.heads[b] = Latest(b)])
  /\ UNCHANGED <<source, prepared, session, faults>>

\* Books that do not end on one session refuse the replay.
Align(r) ==
  LET head == run[r].heads[1] IN
  /\ run[r].pc = "heads" /\ \A b \in Books : run[r].heads[b] # Unread
  /\ IF (\A b \in Books : run[r].heads[b] = head) /\ head < run[r].through
     THEN Become(r, [run[r] EXCEPT !.pc = "lookup", !.date = head + 1])
     ELSE Stop(r)
  /\ UNCHANGED <<source, prepared, session, faults>>

-----------------------------------------------------------------------------
(* A continuation (planUsShadowReplay, commitUsShadowReplay) plans its      *)
(* whole batch from a base session before it writes anything.  Its plan    *)
(* reads only immutable rows, so it is one step.                           *)

\* The entries of a day that follows the given states of the day before.
Planned(date, input, before) ==
  [b \in Books |-> [run |-> Append(before[b], [date |-> date, input |-> input]),
                    previousDate |-> date - 1, previousHash |-> before[b]]]

\* Mutant: the books have to be aligned, as for a replay.
PlanAcceptsAligned(base, through) == \A b \in Books : Latest(b) = base

\* The books record the base session and nothing after the batch.
PlanAccepts(base, through) ==
  \A b \in Books : /\ base # 0 => Recorded(b, base)
                   /\ Latest(b) <= through

StartContinuation(r, base) ==
  LET through == Through(source)
      before == [b \in Books |-> StateAt(b, base)]
  IN
  /\ r \in Continuations /\ run[r].pc = "idle"
  /\ base < through /\ PlanAccepts(base, through)
  /\ \A d \in base + 1 .. through : IsPrepared(d) => prepared[d].input = source[d]
  /\ Become(r, [Idle EXCEPT !.pc = "stage", !.data = source, !.through = through,
                  !.date = base + 1, !.entries = Planned(base + 1, source[base + 1], before)])
  /\ UNCHANGED <<source, prepared, session, faults>>

-----------------------------------------------------------------------------
(* One day of a run (recordOctoberPublication).                            *)

\* A prepared day is completed as it was decided, by equal input only.
Lookup(r) ==
  LET own == run[r]
      saved == prepared[own.date]
  IN
  /\ own.pc = "lookup"
  /\ \/ /\ ~IsPrepared(own.date)
        /\ Become(r, [own EXCEPT !.pc = "session", !.book = 1, !.entries = NoEntries])
     \/ /\ saved.input = own.data[own.date]
        /\ Become(r, [own EXCEPT !.pc = "persist", !.book = 1, !.entries = saved.entries])
     \/ /\ IsPrepared(own.date) /\ saved.input # own.data[own.date]
        /\ Stop(r)
  /\ UNCHANGED <<source, prepared, session, faults>>

\* The run with the entry of its current book; the last book leads on to next.
WithEntry(own, entry, next) ==
  IF own.book = BookCount
  THEN [own EXCEPT !.entries[own.book] = entry, !.pc = next]
  ELSE [own EXCEPT !.entries[own.book] = entry, !.pc = "session", !.book = @ + 1]

\* A day the book already has is reused, without its predecessor.
ReadSession(r) ==
  LET own == run[r]
      saved == session[own.book][own.date]
  IN
  /\ own.pc = "session"
  /\ \/ /\ saved = <<>>
        /\ Become(r, [own EXCEPT !.pc = "latest"])
     \/ /\ saved # <<>> /\ Last(saved).input = own.data[own.date]
        /\ Become(r, WithEntry(own, [run |-> saved, previousDate |-> 0, previousHash |-> <<>>],
                               "stage"))
     \/ /\ saved # <<>> /\ Last(saved).input # own.data[own.date]
        /\ Stop(r)
  /\ UNCHANGED <<source, prepared, session, faults>>

\* The engine only computes the session after the newest one.
StepAccepts(date, latest) == date = latest + 1

ReadLatest(r) ==
  LET own == run[r]
      latest == Latest(own.book)
      before == StateAt(own.book, latest)
  IN
  /\ own.pc = "latest"
  /\ \/ /\ StepAccepts(own.date, latest)
        /\ Become(r, WithEntry(own, [run |-> Stepped(r, before), previousDate |-> latest,
                                     previousHash |-> before], "stage"))
     \/ /\ ~StepAccepts(own.date, latest)
        /\ Stop(r)
  /\ UNCHANGED <<source, prepared, session, faults>>

\* The database refuses entries that do not extend the predecessor they name.
Chained(entries, date) ==
  \A b \in Books : /\ Front(entries[b].run) = entries[b].previousHash
                   /\ entries[b].previousDate < date

\* Mutant: the archive keeps the last publication of a day.
KeptLast(d, mine) == mine

\* The archive keeps the first publication of a day.
Kept(d, mine) == IF IsPrepared(d) THEN prepared[d] ELSE mine

\* prepare stages the artifact, and both the database and the caller refuse
\* when another input was kept.
Stage(r) ==
  LET own == run[r]
      d == own.date
      mine == [input |-> own.data[d], entries |-> own.entries]
      saved == Kept(d, mine)
      refused == ~Chained(own.entries, d) \/ saved.input # mine.input
  IN
  /\ own.pc = "stage"
  /\ prepared' = IF refused THEN prepared ELSE [prepared EXCEPT ![d] = saved]
  /\ \/ /\ refused \/ (r \in Continuations /\ saved # mine)
        /\ Stop(r)
     \/ /\ ~refused /\ r \in Replays
        /\ Become(r, [own EXCEPT !.pc = "persist", !.book = 1, !.entries = saved.entries])
     \/ /\ ~refused /\ r \in Continuations /\ saved = mine
        /\ Become(r, [own EXCEPT !.pc = "lookup"])
  /\ UNCHANGED <<source, session, faults>>

-----------------------------------------------------------------------------
(* persistPreparedOctober: the prepared runs, book by book.                *)

\* Mutant: the batch does not end at its last session.
BatchEndsLate(own) == own.date > own.through

BatchEnds(own) == own.date = own.through

NextDay(r, own) ==
  LET next == own.date + 1 IN
  IF BatchEnds(own) THEN Idle
  ELSE IF r \in Replays THEN [own EXCEPT !.pc = "lookup", !.date = next]
  ELSE [own EXCEPT !.pc = "stage", !.date = next,
          !.entries = Planned(next, own.data[next], [b \in Books |-> own.entries[b].run])]

\* Mutant: a day that a book already has ends the publication of the day.
AfterReusedDone(r, own) == NextDay(r, own)

AfterBook(r, own) ==
  IF own.book < BookCount THEN [own EXCEPT !.pc = "persist", !.book = @ + 1]
  ELSE NextDay(r, own)

AfterReused(r, own) == AfterBook(r, own)

Persist(r) ==
  LET own == run[r]
      entry == own.entries[own.book]
      saved == session[own.book][own.date]
      chained == StateAt(own.book, entry.previousDate) = entry.previousHash
  IN
  /\ own.pc = "persist"
  /\ \/ /\ saved # <<>> /\ saved = entry.run
        /\ Become(r, AfterReused(r, own))
     \/ /\ saved = <<>> /\ chained
        /\ Become(r, [own EXCEPT !.pc = "append"])
     \/ /\ saved # <<>> /\ saved # entry.run
        /\ Stop(r)
     \/ /\ saved = <<>> /\ ~chained
        /\ Stop(r)
  /\ UNCHANGED <<source, prepared, session, faults>>

\* The named predecessor is the newest session of the book.
HeadMatches(entry, b, date) ==
  /\ entry.previousDate = Latest(b) /\ entry.previousHash = StateAt(b, Latest(b))
  /\ date > Latest(b)

AppendSession(r) ==
  LET own == run[r]
      b == own.book
      entry == own.entries[b]
      saved == session[b][own.date]
  IN
  /\ own.pc = "append"
  /\ \/ /\ saved = entry.run
        /\ Become(r, AfterBook(r, own)) /\ UNCHANGED session
     \/ /\ saved = <<>> /\ HeadMatches(entry, b, own.date)
        /\ session' = [session EXCEPT ![b][own.date] = entry.run]
        /\ Become(r, AfterBook(r, own))
     \/ /\ saved # entry.run /\ (saved # <<>> \/ ~HeadMatches(entry, b, own.date))
        /\ Stop(r) /\ UNCHANGED session
  /\ UNCHANGED <<source, prepared, faults>>

Die(r) ==
  /\ run[r].pc # "idle" /\ faults < MaxFaults
  /\ Stop(r) /\ faults' = faults + 1
  /\ UNCHANGED <<source, prepared, session>>

-----------------------------------------------------------------------------

RunStep(r) ==
  \/ \E b \in Books : ReadHead(r, b)
  \/ Align(r) \/ Lookup(r) \/ ReadSession(r) \/ ReadLatest(r)
  \/ Stage(r) \/ Persist(r) \/ AppendSession(r)

Start(r) == StartReplay(r) \/ \E base \in 0 .. MaxDate - 1 : StartContinuation(r, base)

Next ==
  \/ \E d \in Dates : Collect(d)
  \/ \E r \in Runs : Start(r) \/ RunStep(r) \/ Die(r)

Spec == Init /\ [][Next]_vars

\* A started run proceeds, and runs are started again: replays by each
\* screening, a continuation whenever books are behind.
FairSpec == Spec /\ \A r \in Runs : WF_vars(RunStep(r)) /\ WF_vars(Start(r))

-----------------------------------------------------------------------------

RunState ==
  [pc : {"idle", "heads", "lookup", "session", "latest", "stage", "persist", "append"},
   data : [Dates -> 0 .. MaxVersion], through : 0 .. MaxDate, date : Dates, book : Books,
   heads : [Books -> 0 .. Unread], entries : [Books -> Entry]]

TypeOK ==
  /\ source \in [Dates -> 0 .. MaxVersion]
  /\ prepared \in [Dates -> [input : 0 .. MaxVersion, entries : [Books -> Entry]]]
  /\ session \in [Books -> [Dates -> History]]
  /\ run \in [Runs -> RunState]
  /\ faults \in 0 .. MaxFaults

\* Whatever runs race, every stored session of a day is the one that the
\* day's single prepared publication holds for that book.
OneDecision ==
  \A b \in Books, d \in Dates :
    Recorded(b, d) => IsPrepared(d) /\ session[b][d] = prepared[d].entries[b].run

\* A run only goes on to a day when every book has all the days before: no
\* result of the day before is still missing when the next one is decided.
ProcessedIsRecorded ==
  \A r \in Runs : run[r].pc \notin {"idle", "heads"} =>
    \A b \in Books, d \in 1 .. run[r].date - 1 : Recorded(b, d)

\* The newest day of the prepared publications, 0 when there are none.
Decided ==
  CHOOSE n \in 0 .. MaxDate : /\ n # 0 => IsPrepared(n)
                              /\ \A d \in Dates : IsPrepared(d) => d <= n

\* What the first book's run of a prepared day was computed from.
StateAtPrepared(d) == IF d = 0 THEN <<>> ELSE prepared[d].entries[1].run

\* Each day is decided once, for all books, on the day before; every book
\* records the decided days in order (refinement of the promised books).
Promised == INSTANCE ShadowBooks WITH
  Days <- Day,
  decided <- StateAtPrepared(Decided),
  recorded <- [b \in Books |-> StateAt(b, Latest(b))]

ImplementsShadowBooks == Promised!Spec

\* A decided day reaches every book, unless source data of a decided day has
\* been revised since: then every run refuses, for good.
PreparedCompletes ==
  \A d \in Dates :
    IsPrepared(d) ~> \/ \A b \in Books : Recorded(b, d)
                     \/ \E e \in Dates : IsPrepared(e) /\ prepared[e].input # source[e]
=============================================================================
