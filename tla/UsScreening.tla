----------------------------- MODULE UsScreening -----------------------------
(***************************************************************************)
(* Publication of the daily US screening.  A collector outside replaces    *)
(* the single ingest row at any moment; the screening run and the manual   *)
(* publication of a corrected source of the same session share one         *)
(* workflow group.  Both read the ingest first and then write several      *)
(* objects and one history row, one after the other, and may die after any *)
(* of them.  Pages put the published day and its correction together.      *)
(*                                                                         *)
(* Data abstraction.  A result is the sequence of the inputs that its      *)
(* streaks and ranks have gone through, oldest first; its own input is the *)
(* last.  A correction is known by its number, which is also the moment it *)
(* was collected.  The signal journal stage only may fail.                 *)
(***************************************************************************)
EXTENDS Naturals, Sequences

CONSTANTS
  LastUsDay,    \* regular sessions 1 .. LastUsDay
  Hashes,       \* of the source of a session
  LastRevision, \* corrections 1 .. LastRevision
  UsReaders,
  MaxUsRuns     \* bound: runs of the group

UsDays == 1 .. LastUsDay
Revisions == 1 .. LastRevision

\* Blank is what is not there, and no hash.
Blank == <<>>

ASSUME UsScreeningAssumption ==
  LastUsDay \in Nat /\ LastRevision \in Nat /\ MaxUsRuns \in Nat /\ Blank \notin Hashes

VARIABLES
  ingest,     \* us_screening_ingest
  usManifest, \* results/us-screening/<day>.manifest.json: the locked input of a day
  usResult,   \* results/us-screening/<day>.json
  usHistory,  \* us_screening_history
  usLatest,   \* cache/us-screening/latest.json
  usView,     \* cache/us-screening/view-v1.json.gz
  bundles,    \* results/us-screening-revisions/.../bundle.json
  pointer,    \* cache/us-screening-revisions/latest.json
  usRun, usRuns,
  usReader

usRecords == <<usManifest, usResult, usHistory>>
usPages == <<usLatest, usView, bundles, pointer>>
usVars == <<ingest, usRecords, usPages, usRun, usRuns, usReader>>

Source(d, h) == [date |-> d, hash |-> h]
OwnSource(result) == result[Len(result)]

RecordedDays == {d \in UsDays : usHistory[d] # Blank}
LastRecorded == CHOOSE d \in RecordedDays : \A e \in RecordedDays : e <= d
NoUsRun == [pc |-> "idle"]
NoUsReader == [pc |-> "idle"]

UsInit ==
  /\ ingest = Blank
  /\ usManifest = [d \in UsDays |-> Blank] /\ usResult = usManifest /\ usHistory = usManifest
  /\ usLatest = Blank /\ usView = Blank /\ bundles = {} /\ pointer = Blank
  /\ usRun = NoUsRun /\ usRuns = 0
  /\ usReader = [b \in UsReaders |-> NoUsReader]

\* us_upload.py, one collector at a time: only a later session replaces the
\* registered one.
Collect(d, h) ==
  /\ ingest # Blank => ingest.date < d
  /\ ingest' = Source(d, h)
  /\ UNCHANGED <<usRecords, usPages, usRun, usRuns, usReader>>

-----------------------------------------------------------------------------
(* runUsScreening.                                                         *)

UsRunStarts == usRun = NoUsRun /\ usRuns < MaxUsRuns /\ usRuns' = usRuns + 1
UsRunAt(pc) == usRun.pc = pc
UsRunTo(pc) == usRun' = [usRun EXCEPT !.pc = pc]

\* Mutant: ranks and streaks continue whatever day was recorded last.
ContinuesAnyDay(d) == RecordedDays # {}

\* The state is inherited from the session before only; a gap starts afresh.
ContinuesDay(d) == RecordedDays # {} /\ LastRecorded = d - 1

Analysis(source) ==
  IF ContinuesDay(source.date) THEN Append(usResult[LastRecorded], source) ELSE <<source>>

\* The ingest, the last history row and the previous result are read, and the
\* new result is computed.  A completed date is only published again.
StartUsRun ==
  /\ UsRunStarts /\ ingest # Blank
  /\ RecordedDays # {} => LastRecorded <= ingest.date
  /\ LET completed == usHistory[ingest.date] # Blank IN
     /\ completed => usHistory[ingest.date] = ingest.hash /\ usResult[ingest.date] # Blank
     /\ usRun' = [pc |-> IF completed THEN "latest" ELSE "manifest", source |-> ingest,
                  result |-> IF completed THEN usResult[ingest.date] ELSE Analysis(ingest)]
  /\ UNCHANGED <<ingest, usRecords, usPages, usReader>>

UsRunFails ==
  /\ usRun # NoUsRun
  /\ usRun' = NoUsRun
  /\ UNCHANGED <<ingest, usRecords, usPages, usRuns, usReader>>

\* "Lock a date's input before any ledger writes, including retries."
PutManifest ==
  LET d == usRun.source.date IN
  /\ UsRunAt("manifest") /\ usManifest[d] \in {Blank, usRun.source.hash}
  /\ usManifest' = [usManifest EXCEPT ![d] = usRun.source.hash]
  /\ UsRunTo("result")
  /\ UNCHANGED <<ingest, usResult, usHistory, usPages, usRuns, usReader>>

\* The first result of a date stays; another input is an error.
PutResult ==
  LET d == usRun.source.date
      result == IF usResult[d] = Blank THEN usRun.result ELSE usResult[d] IN
  /\ UsRunAt("result") /\ OwnSource(result) = usRun.source
  /\ usResult' = [usResult EXCEPT ![d] = result]
  /\ usRun' = [usRun EXCEPT !.pc = "history", !.result = result]
  /\ UNCHANGED <<ingest, usManifest, usHistory, usPages, usRuns, usReader>>

InsertHistory ==
  LET d == usRun.source.date IN
  /\ UsRunAt("history") /\ usHistory[d] = Blank
  /\ usHistory' = [usHistory EXCEPT ![d] = usRun.source.hash]
  /\ UsRunTo("latest")
  /\ UNCHANGED <<ingest, usManifest, usResult, usPages, usRuns, usReader>>

PutUsLatest ==
  /\ UsRunAt("latest")
  /\ usLatest' = usRun.result
  /\ UsRunTo("view")
  /\ UNCHANGED <<ingest, usRecords, usView, bundles, pointer, usRuns, usReader>>

PutView ==
  /\ UsRunAt("view")
  /\ usView' = usRun.result
  /\ usRun' = NoUsRun
  /\ UNCHANGED <<ingest, usRecords, usLatest, bundles, pointer, usRuns, usReader>>

-----------------------------------------------------------------------------
(* publishSameSessionRevision.                                             *)

\* The recorded day that is also the registered one, with its artifacts.
OriginalIs(source) ==
  /\ ingest = source /\ RecordedDays # {} /\ LastRecorded = source.date
  /\ usHistory[source.date] = source.hash /\ usManifest[source.date] = source.hash
  /\ usResult[source.date] # Blank

RevisionPointer(source, n) == [date |-> source.date, original |-> source.hash, revision |-> n]

\* Mutant: of one session a later collection may be replaced by an earlier one.
NotStaleDay(source, n) == pointer # Blank => pointer.date <= source.date

\* Neither a later session nor a later collection is replaced.
NotStale(source, n) ==
  pointer # Blank =>
    \/ pointer.date < source.date
    \/ pointer.date = source.date /\ pointer.revision < n

\* Its ranks continue the session before, never one across a gap.
PredecessorRecorded(d) == d > 1 => usHistory[d - 1] # Blank

StartRevision(n) ==
  /\ UsRunStarts /\ ingest # Blank
  /\ OriginalIs(ingest) /\ PredecessorRecorded(ingest.date) /\ NotStale(ingest, n)
  /\ usRun' = [pc |-> "bundle", source |-> ingest, revision |-> n, prior |-> pointer]
  /\ UNCHANGED <<ingest, usRecords, usPages, usReader>>

PutBundle ==
  /\ UsRunAt("bundle")
  /\ bundles' = bundles \cup {RevisionPointer(usRun.source, usRun.revision)}
  /\ UsRunTo("recheck")
  /\ UNCHANGED <<ingest, usRecords, usLatest, usView, pointer, usRuns, usReader>>

\* "Recheck both dependencies immediately before the sole commit."
Recheck ==
  /\ UsRunAt("recheck")
  /\ OriginalIs(usRun.source) /\ pointer = usRun.prior
  /\ UsRunTo("pointer")
  /\ UNCHANGED <<ingest, usRecords, usPages, usRuns, usReader>>

PutPointer ==
  /\ UsRunAt("pointer")
  /\ pointer' = RevisionPointer(usRun.source, usRun.revision)
  /\ usRun' = NoUsRun
  /\ UNCHANGED <<ingest, usRecords, usLatest, usView, bundles, usRuns, usReader>>

-----------------------------------------------------------------------------
(* loadUsLatestReferenceCache.                                             *)

UsReaderTo(b, to) == usReader' = [usReader EXCEPT ![b] = to]
UsStays == UNCHANGED <<ingest, usRecords, usPages, usRun, usRuns>>

\* The browser view or, before the first one, the latest result.
OpenUs(b) ==
  LET canonical == IF usView # Blank THEN usView ELSE usLatest IN
  /\ usReader[b].pc \in {"idle", "shown"} /\ canonical # Blank
  /\ UsReaderTo(b, [pc |-> "pointer", canonical |-> canonical])
  /\ UsStays

\* A correction of another session or another original is not used: it is
\* passed over, or its error is caught and the original shown.
Corrects(p, canonical) ==
  p # Blank /\ p.date = OwnSource(canonical).date /\ p.original = OwnSource(canonical).hash

ShowUs(b, p) ==
  UsReaderTo(b, [pc |-> "shown", canonical |-> usReader[b].canonical, correction |-> p])

ReadPointer(b) ==
  /\ usReader[b].pc = "pointer"
  /\ IF Corrects(pointer, usReader[b].canonical)
     THEN UsReaderTo(b, [pc |-> "bundle", canonical |-> usReader[b].canonical, correction |-> pointer])
     ELSE ShowUs(b, Blank)
  /\ UsStays

ReadBundle(b) ==
  /\ usReader[b].pc = "bundle"
  /\ ShowUs(b, IF usReader[b].correction \in bundles THEN usReader[b].correction ELSE Blank)
  /\ UsStays

UsNext ==
  \/ \E d \in UsDays, h \in Hashes : Collect(d, h)
  \/ StartUsRun \/ \E n \in Revisions : StartRevision(n)
  \/ UsRunFails
  \/ PutManifest \/ PutResult \/ InsertHistory \/ PutUsLatest \/ PutView
  \/ PutBundle \/ Recheck \/ PutPointer
  \/ \E b \in UsReaders : OpenUs(b) \/ ReadPointer(b) \/ ReadBundle(b)

UsSpec == UsInit /\ [][UsNext]_usVars

-----------------------------------------------------------------------------
(* Types and safety.                                                       *)

UsSources == [date : UsDays, hash : Hashes]
UsResults(r) == \A i \in DOMAIN r : r[i] \in UsSources
UsCorrections == [date : UsDays, original : Hashes, revision : Revisions]

\* The type invariant of the US screening.
UsTypeOK ==
  /\ ingest = Blank \/ ingest \in UsSources
  /\ \A d \in UsDays :
       /\ usManifest[d] = Blank \/ usManifest[d] \in Hashes
       /\ usHistory[d] = Blank \/ usHistory[d] \in Hashes
       /\ UsResults(usResult[d])
  /\ UsResults(usLatest) /\ UsResults(usView)
  /\ bundles \subseteq UsCorrections /\ (pointer = Blank \/ pointer \in UsCorrections)
  /\ usRun.pc \in {"idle", "manifest", "result", "history", "latest", "view", "bundle",
                   "recheck", "pointer"}
  /\ usRuns \in 0 .. MaxUsRuns
  /\ \A b \in UsReaders : usReader[b].pc \in {"idle", "pointer", "bundle", "shown"}

\* A page is a recorded result.
Recorded(page) ==
  LET own == OwnSource(page) IN
  usResult[own.date] = page /\ usHistory[own.date] = own.hash

\* Everything kept of a day comes from the one input it was locked to; its
\* ranks and streaks went through each session since the last gap once, as
\* recorded; what is published is recorded, and so is what a page shows, with
\* no correction but one of that very source.  It holds although runs die
\* anywhere and the collector replaces the ingest under them.
UsPublicationAgrees ==
  /\ \A d \in UsDays : usResult[d] # Blank =>
       LET result == usResult[d] IN
       /\ OwnSource(result) = Source(d, usManifest[d])
       /\ \A i \in 1 .. Len(result) - 1 :
            /\ result[i].date = d - (Len(result) - i)
            /\ Recorded(SubSeq(result, 1, i))
       /\ d > Len(result) => usHistory[d - Len(result)] = Blank
  /\ \A d \in RecordedDays : usResult[d] # Blank /\ usHistory[d] = usManifest[d]
  /\ \A page \in {usLatest, usView} : page # Blank => Recorded(page)
  /\ pointer # Blank => pointer \in bundles
  /\ \A b \in UsReaders : usReader[b].pc = "shown" =>
       /\ Recorded(usReader[b].canonical)
       /\ usReader[b].correction # Blank => Corrects(usReader[b].correction, usReader[b].canonical)

\* A result counts once its day is in the history.
RecordedResults == [d \in UsDays |-> IF usHistory[d] = Blank THEN Blank ELSE usResult[d]]
PublishedPages == [p \in {"latest", "view"} |-> IF p = "latest" THEN usLatest ELSE usView]

Dated == INSTANCE DatedResults WITH
  Days <- UsDays, Inputs <- Hashes, Pages <- {"latest", "view"}, Corrections <- Revisions,
  Nothing <- Blank, recorded <- RecordedResults, pages <- PublishedPages, correction <- pointer

\* Runs that die anywhere and start over while the collector replaces the
\* ingest do what one would that records each day in one step: pages never go
\* back a day, and a correction never replaces a later one.
ImplementsDatedResults == Dated!Spec
=============================================================================
