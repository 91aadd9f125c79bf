-------------------------- MODULE KospiShadowStore --------------------------
(***************************************************************************)
(* The KOSPI shadow series in object storage.  A run reads the registry,   *)
(* the dated session snapshots and the latest projection, computes the     *)
(* next snapshot from the previous one and writes up to three objects, one *)
(* after the other; it may die after any of them, and a later run, with    *)
(* another source set or other code, finds what is left.  One reviewed     *)
(* correction of the session Correction starts a second, revised series    *)
(* that inherits the days before it; later days go to the revised series   *)
(* only.  All writing workflows share one group; browsers read in between. *)
(*                                                                         *)
(* Data abstraction.  A snapshot is the sequence of the inputs it was      *)
(* computed from, oldest first: two books are equal when those are.  The   *)
(* frozen settings are left out, every run has the same.                   *)
(***************************************************************************)
EXTENDS Naturals, Sequences

CONSTANTS
  LastKospiDay,     \* regular sessions 1 .. LastKospiDay
  Correction,       \* the corrected session, DATE_14
  SourceSets,       \* what the registered sources of a session may be, as they change
  CorrectedSources, \* the source set approved for the correction
  CodeVersions,
  KospiReaders,
  MaxKospiRuns      \* bound: runs that write

KospiDays == 1 .. LastKospiDay

ASSUME KospiStoreAssumption ==
  /\ LastKospiDay \in Nat /\ Correction \in 2 .. LastKospiDay
  /\ CorrectedSources \in SourceSets /\ MaxKospiRuns \in Nat

VARIABLES
  original,   \* shadow/kospi-...: registry, sessions and latest projection
  revised,    \* shadow/kospi-.../revisions/...: the same of the corrected series
  descriptor, \* revision.json
  kospiRun,   \* progress of the run that writes
  kospiRuns,
  kospiReader \* progress of each browser

kospiVars == <<original, revised, descriptor, kospiRun, kospiRuns, kospiReader>>

Absent == <<>>
Stored(o) == o # Absent

EmptySeries ==
  [registry |-> Absent, sessions |-> [d \in KospiDays |-> Absent], latest |-> Absent]
NoKospiRun == [pc |-> "idle"]
NoKospiReader == [pc |-> "idle"]

Input(d, source, code) == [date |-> d, source |-> source, code |-> code]

LastInput(snapshot) == snapshot[Len(snapshot)]
DayOf(snapshot) == LastInput(snapshot).date

Registry(input) == <<input.date, input.source, input.code>>
InitializedOn(o) == o.registry[1]

StoredDays(o) == {d \in KospiDays : Stored(o.sessions[d])}
NewestDay(o) == CHOOSE d \in StoredDays(o) : \A e \in StoredDays(o) : e <= d

\* The projection holds the latest snapshot and one row of history a day.
Projection(snapshot, history) == [snapshot |-> snapshot, history |-> history]
HistoryOf(snapshot) == [i \in DOMAIN snapshot |-> snapshot[i].date]

\* readChain and assertProjection: the stored days lead to the projection.
ChainOf(o, d) == \A i \in DOMAIN o.sessions[d] :
  o.sessions[o.sessions[d][i].date] = SubSeq(o.sessions[d], 1, i)
Projected(o, view) ==
  /\ o.sessions[DayOf(view.snapshot)] = view.snapshot
  /\ ChainOf(o, DayOf(view.snapshot))
  /\ view.history = HistoryOf(view.snapshot)

\* originalAnchors: the original series ends with the session it was corrected at.
Anchored ==
  /\ StoredDays(original) # {} /\ NewestDay(original) = Correction
  /\ Stored(original.latest) /\ DayOf(original.latest.snapshot) = Correction
  /\ Projected(original, original.latest)

\* The original series is new, or was already published to the corrected day.
KospiInit ==
  /\ \/ original = EmptySeries
     \/ \E source \in SourceSets, code \in CodeVersions :
          LET inputs == [d \in 1 .. Correction |-> Input(d, source, code)]
          IN  original =
                [registry |-> Registry(inputs[1]),
                 sessions |-> [d \in KospiDays |->
                    IF d <= Correction THEN SubSeq(inputs, 1, d) ELSE Absent],
                 latest |-> Projection(inputs, HistoryOf(inputs))]
  /\ revised = EmptySeries /\ descriptor = Absent
  /\ kospiRun = NoKospiRun /\ kospiRuns = 0
  /\ kospiReader = [b \in KospiReaders |-> NoKospiReader]

-----------------------------------------------------------------------------
(* persistKospiShadow.                                                     *)

\* Mutant: an interrupted initialization may be resumed with another day.
ResumesWithAnyDay(o, input) ==
  ~Stored(o.sessions[input.date]) =>
    o.registry[2] = input.source /\ o.registry[3] = input.code

\* Until the first projection is written only its own day may be repeated, and
\* with the frozen source set and code unless its snapshot is there.
ResumesInitialization(o, input) ==
  /\ InitializedOn(o) = input.date
  /\ ~Stored(o.sessions[input.date]) => o.registry = Registry(input)

\* The projection is an earlier stored day: the day before, when a step follows.
Continues(o, input) ==
  /\ Stored(o.registry)
  /\ o.sessions[DayOf(o.latest.snapshot)] = o.latest.snapshot
  /\ DayOf(o.latest.snapshot) = input.date - 1

\* The checks that every run passes before its first write.  One that does not
\* pass them, or finds its day completed, writes nothing.
MayAppend(o, input) ==
  /\ Stored(o.latest) => Continues(o, input)
  /\ Stored(o.registry) /\ ~Stored(o.latest) => ResumesInitialization(o, input)
  /\ StoredDays(o) # {} => Stored(o.registry) /\ NewestDay(o) <= input.date
  /\ Stored(o.sessions[input.date]) =>
       LastInput(o.sessions[input.date]).source = input.source

\* openKospiShadowRevisionStore: at most the next session is not yet projected.
RevisionOpens ==
  /\ Stored(descriptor) /\ Stored(revised.registry) /\ Stored(revised.latest)
  /\ Projected(revised, revised.latest)
  /\ NewestDay(revised) # DayOf(revised.latest.snapshot) =>
       /\ ChainOf(revised, NewestDay(revised))
       /\ Len(revised.sessions[NewestDay(revised)]) = Len(revised.latest.snapshot) + 1
       /\ NewestDay(revised) = DayOf(revised.latest.snapshot) + 1
  /\ Anchored /\ descriptor[1] = original.sessions[Correction]

\* The snapshot a run writes: the one that is there, or the next step.
NextSnapshot(o, input) ==
  IF Stored(o.sessions[input.date]) THEN o.sessions[input.date]
  ELSE IF Stored(o.latest) THEN Append(o.latest.snapshot, input) ELSE <<input>>

KospiRunStarts ==
  kospiRun = NoKospiRun /\ kospiRuns < MaxKospiRuns /\ kospiRuns' = kospiRuns + 1

\* Reads and computation; only this run writes until it is over.
BeginAppend(series, o, input) ==
  /\ MayAppend(o, input)
  /\ kospiRun' = [pc |-> "registry", series |-> series, input |-> input,
                  snapshot |-> NextSnapshot(o, input)]
  /\ UNCHANGED <<original, revised, descriptor, kospiReader>>

\* publishKospiShadowTarget: sessions before the corrected one ...
PublishOriginal(input) ==
  /\ KospiRunStarts /\ input.date < Correction
  /\ BeginAppend("original", original, input)

\* ... and the others, in time or recovered later.
PublishRevised(input) ==
  /\ KospiRunStarts /\ input.date >= Correction
  /\ RevisionOpens
  /\ BeginAppend("revised", revised, input)

Series(name) == IF name = "original" THEN original ELSE revised
StoreIn(name, o) ==
  IF name = "original" THEN original' = o /\ UNCHANGED revised
  ELSE revised' = o /\ UNCHANGED original

KospiRunAt(pc) == kospiRun.pc = pc
KospiRunTo(pc) == kospiRun' = [kospiRun EXCEPT !.pc = pc]

PutRegistry ==
  LET o == Series(kospiRun.series) IN
  /\ KospiRunAt("registry")
  /\ StoreIn(kospiRun.series,
       IF Stored(o.registry) THEN o ELSE [o EXCEPT !.registry = Registry(kospiRun.input)])
  /\ KospiRunTo("session")
  /\ UNCHANGED <<descriptor, kospiRuns, kospiReader>>

PutSession ==
  LET o == Series(kospiRun.series) IN
  /\ KospiRunAt("session")
  /\ StoreIn(kospiRun.series,
       [o EXCEPT !.sessions[kospiRun.input.date] = IF Stored(@) THEN @ ELSE kospiRun.snapshot])
  /\ KospiRunTo("latest")
  /\ UNCHANGED <<descriptor, kospiRuns, kospiReader>>

PutLatest ==
  LET o == Series(kospiRun.series)
      history == IF Stored(o.latest) THEN o.latest.history ELSE <<>> IN
  /\ KospiRunAt("latest")
  /\ StoreIn(kospiRun.series,
       [o EXCEPT !.latest = Projection(kospiRun.snapshot, Append(history, kospiRun.input.date))])
  /\ kospiRun' = NoKospiRun
  /\ UNCHANGED <<descriptor, kospiRuns, kospiReader>>

-----------------------------------------------------------------------------
(* initializeKospiShadowRevision.                                          *)

CorrectedSnapshot(code) ==
  Append(original.sessions[Correction - 1], Input(Correction, CorrectedSources, code))
Revision(code) == <<original.sessions[Correction], code>>

\* What the revised series holds of a day when it starts.
InheritedOrCorrected(d, code) ==
  IF d = Correction THEN CorrectedSnapshot(code) ELSE original.sessions[d]

\* Every object that is already there must be the one this run would write.
StartCorrection(code) ==
  /\ KospiRunStarts
  /\ Anchored /\ ~Stored(revised.latest)
  /\ descriptor \in {Absent, Revision(code)}
  /\ revised.registry \in {Absent, original.registry}
  /\ \A d \in KospiDays : revised.sessions[d] # Absent =>
       d <= Correction /\ revised.sessions[d] = InheritedOrCorrected(d, code)
  /\ kospiRun' = [pc |-> "correct", code |-> code]
  /\ UNCHANGED <<original, revised, descriptor, kospiReader>>

MissingDays == {d \in InitializedOn(original) .. Correction : ~Stored(revised.sessions[d])}

\* The missing objects are put one by one: descriptor, registry, days, projection.
PutDescriptor ==
  /\ KospiRunAt("correct") /\ ~Stored(descriptor)
  /\ descriptor' = Revision(kospiRun.code)
  /\ UNCHANGED <<original, revised, kospiRun, kospiRuns, kospiReader>>

PutRevisedRegistry ==
  /\ KospiRunAt("correct") /\ Stored(descriptor) /\ ~Stored(revised.registry)
  /\ revised' = [revised EXCEPT !.registry = original.registry]
  /\ UNCHANGED <<original, descriptor, kospiRun, kospiRuns, kospiReader>>

PutRevisedDay(d) ==
  /\ KospiRunAt("correct") /\ Stored(descriptor) /\ Stored(revised.registry)
  /\ d \in MissingDays /\ \A e \in MissingDays : d <= e
  /\ revised' = [revised EXCEPT !.sessions[d] = InheritedOrCorrected(d, kospiRun.code)]
  /\ UNCHANGED <<original, descriptor, kospiRun, kospiRuns, kospiReader>>

PutRevisedLatest ==
  /\ KospiRunAt("correct") /\ Stored(descriptor) /\ Stored(revised.registry)
  /\ MissingDays = {}
  /\ revised' = [revised EXCEPT !.latest =
       Projection(CorrectedSnapshot(kospiRun.code), HistoryOf(CorrectedSnapshot(kospiRun.code)))]
  /\ kospiRun' = NoKospiRun
  /\ UNCHANGED <<original, descriptor, kospiRuns, kospiReader>>

\* A storage error or the end of the process.
KospiRunFails ==
  /\ kospiRun # NoKospiRun
  /\ kospiRun' = NoKospiRun
  /\ UNCHANGED <<original, revised, descriptor, kospiRuns, kospiReader>>

-----------------------------------------------------------------------------
(* loadKospiShadowFromReader.                                              *)

ReaderTo(b, to) == kospiReader' = [kospiReader EXCEPT ![b] = to]
KospiStays == UNCHANGED <<original, revised, descriptor, kospiRun, kospiRuns>>

Parts == {"descriptor", "registry", "latest"}
Part(p) ==
  CASE p = "descriptor" -> descriptor
    [] p = "registry" -> revised.registry
    [] p = "latest" -> revised.latest

OpenKospi(b) ==
  /\ kospiReader[b].pc \in {"idle", "shown"}
  /\ ReaderTo(b, [pc |-> "parts", got |-> <<>>, since |-> Stored(descriptor)])
  /\ KospiStays

\* Three reads, started together, that end in any order.
ReadPart(b, p) ==
  /\ kospiReader[b].pc = "parts" /\ p \notin DOMAIN kospiReader[b].got
  /\ LET got == kospiReader[b].got IN
     ReaderTo(b, [kospiReader[b] EXCEPT !.got =
       [q \in DOMAIN got \cup {p} |-> IF q = p THEN Part(p) ELSE got[q]]])
  /\ KospiStays

AllRead(b) == kospiReader[b].pc = "parts" /\ DOMAIN kospiReader[b].got = Parts
Found(b) == {p \in Parts : Stored(kospiReader[b].got[p])}
ShowKospi(b, name, view) ==
  ReaderTo(b, [pc |-> "shown", series |-> name, view |-> view, since |-> kospiReader[b].since])

\* A complete revision is checked against its days, which are never replaced.
ShowRevised(b) ==
  /\ AllRead(b) /\ Found(b) = Parts
  /\ LET view == kospiReader[b].got["latest"] IN
     IF Projected(revised, view) /\ kospiReader[b].got["descriptor"][1] = original.sessions[Correction]
     THEN ShowKospi(b, "revised", view) ELSE ReaderTo(b, NoKospiReader)
  /\ KospiStays

\* Mutant: without its projection the revision is not used.
NotRevisedYet(b) == "latest" \notin Found(b)

\* "A partial correction is an error, never an original-series fallback."
NotRevised(b) == Found(b) = {}

PartialIsError(b) ==
  /\ AllRead(b) /\ Found(b) # Parts /\ ~NotRevised(b)
  /\ ReaderTo(b, NoKospiReader)
  /\ KospiStays

ShowOriginal(b) ==
  /\ AllRead(b) /\ NotRevised(b)
  /\ IF Stored(original.latest) THEN ShowKospi(b, "original", original.latest)
     ELSE ReaderTo(b, NoKospiReader)
  /\ KospiStays

KospiNext ==
  \/ \E d \in KospiDays, source \in SourceSets, code \in CodeVersions :
       PublishOriginal(Input(d, source, code)) \/ PublishRevised(Input(d, source, code))
  \/ \E code \in CodeVersions : StartCorrection(code)
  \/ PutRegistry \/ PutSession \/ PutLatest
  \/ PutDescriptor \/ PutRevisedRegistry \/ \E d \in KospiDays : PutRevisedDay(d)
  \/ PutRevisedLatest \/ KospiRunFails
  \/ \E b \in KospiReaders :
       \/ OpenKospi(b) \/ \E p \in Parts : ReadPart(b, p)
       \/ ShowRevised(b) \/ PartialIsError(b) \/ ShowOriginal(b)

KospiSpec == KospiInit /\ [][KospiNext]_kospiVars

-----------------------------------------------------------------------------
(* Types and safety.                                                       *)

Snapshots(s) ==
  \A i \in DOMAIN s : s[i] \in [date : KospiDays, source : SourceSets, code : CodeVersions]

SeriesTypeOK(o) ==
  /\ Stored(o.registry) => o.registry \in KospiDays \X SourceSets \X CodeVersions
  /\ \A d \in KospiDays : Snapshots(o.sessions[d])
  /\ Stored(o.latest) => Snapshots(o.latest.snapshot) /\ \A i \in DOMAIN o.latest.history :
       o.latest.history[i] \in KospiDays

\* The type invariant of the KOSPI series.
KospiTypeOK ==
  /\ SeriesTypeOK(original) /\ SeriesTypeOK(revised)
  /\ Stored(descriptor) => Snapshots(descriptor[1]) /\ descriptor[2] \in CodeVersions
  /\ kospiRun.pc \in {"idle", "registry", "session", "latest", "correct"}
  /\ kospiRuns \in 0 .. MaxKospiRuns
  /\ \A b \in KospiReaders : kospiReader[b].pc \in {"idle", "parts", "shown"}

\* The book of a series is computed once from each session since the day it
\* was initialized: every stored day continues the stored day before it, no
\* day is left out or counted twice, the projection is one of the stored days
\* with exactly its history, and at most one stored day is ahead of it.
Replays(o) ==
  /\ \A d \in StoredDays(o) :
       /\ Stored(o.registry) /\ ChainOf(o, d)
       /\ HistoryOf(o.sessions[d]) = [i \in 1 .. d - InitializedOn(o) + 1 |-> InitializedOn(o) + i - 1]
  /\ Stored(o.latest) => Projected(o, o.latest) /\ NewestDay(o) <= DayOf(o.latest.snapshot) + 1

\* "Do not reconstruct or reset capital": both series are such books after any
\* number of crashed, repeated and late runs with changing sources and code,
\* and the revised one differs from the original only from the correction on.
KospiSeriesReplay ==
  /\ Replays(original)
  /\ Replays(revised)
  /\ \A d \in StoredDays(revised) :
       IF d < Correction THEN revised.sessions[d] = original.sessions[d]
       ELSE \E i \in DOMAIN revised.sessions[d] :
              LET input == revised.sessions[d][i] IN
              input.date = Correction /\ input.source = CorrectedSources

\* A browser shows a projection all of whose days are stored as they are in
\* it, and never the original series if the correction had begun before the
\* page was opened, although its three reads are not made at one moment.
ReaderSeesWholeSeries ==
  \A b \in KospiReaders : kospiReader[b].pc = "shown" =>
    /\ Projected(Series(kospiReader[b].series), kospiReader[b].view)
    /\ kospiReader[b].since => kospiReader[b].series = "revised"

\* The newest stored snapshot of a series, and what its projection shows.
WholeSeries(o) == IF StoredDays(o) = {} THEN <<>> ELSE o.sessions[NewestDay(o)]
Page(o) == IF Stored(o.latest) THEN o.latest.snapshot ELSE <<>>

KospiInputs == [date : KospiDays, source : SourceSets, code : CodeVersions]

Corrections == INSTANCE CorrectedSeries WITH
  Corrected <- Correction, Inputs <- KospiInputs,
  Approved <- {input \in KospiInputs : input.date = Correction /\ input.source = CorrectedSources},
  original <- WholeSeries(original), revised <- WholeSeries(revised),
  originalPage <- Page(original), revisedPage <- Page(revised)

\* Runs that put a snapshot object by object, die after any of them and are
\* repeated with other sources and code, do what one would that takes each
\* session and publishes it in one step.
ImplementsCorrectedSeries == Corrections!Spec
=============================================================================
