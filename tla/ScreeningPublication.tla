------------------------ MODULE ScreeningPublication ------------------------
(***************************************************************************)
(* Publication of the daily Korean screening.  Three kinds of writers put  *)
(* one result on the home page: the scheduled run ("cli"), a build on the  *)
(* web server ("web") and the publisher of results computed from saved     *)
(* Drive files ("drive").  The first and the last share one workflow group *)
(* and never overlap; web builds overlap with everything.  A publication   *)
(* is a fixed sequence of awaits over separate objects, and may fail at    *)
(* any of them.  Browsers read the page meanwhile and repair its summary.  *)
(*                                                                         *)
(* Data abstraction.  A result is named by what it is computed from: the   *)
(* version of the registered sources, the number of Drive files added to   *)
(* them, and the code that computed it.  The first two are its input       *)
(* fingerprint, all three its digest.  Scoring settings and the index      *)
(* provider are fixed.  One number stands for the run id and the           *)
(* publication id of a build.                                              *)
(***************************************************************************)
EXTENDS Naturals, Sequences

CONSTANTS
  Workflow,          \* the workflow group that serialises cli and drive runs
  Webs,              \* web builds of different server instances
  Browsers,
  Registered,        \* date and phase of each version of the registered sources
  DriveFiles,        \* date and phase of each further Drive file, in order
  CodeOf,            \* code of the workflow's checkout and of the web server
  MaxBuilds,         \* bound: builds that get as far as a publication id
  MaxRegistrations   \* bound: changes of the registered sources

Phases == {"FINAL", "PRELIMINARY"}
Versions == 1 .. Len(Registered)
Writers == Webs \cup {Workflow}

ASSUME ScreeningAssumption ==
  /\ Workflow \notin Webs
  /\ Len(Registered) > 0
  /\ Registered \in Seq([date : Nat, phase : Phases])
  /\ DriveFiles \in Seq([date : Nat, phase : Phases])
  /\ CodeOf \in [{"cli", "web"} -> Nat]
  /\ MaxBuilds \in Nat /\ MaxRegistrations \in Nat

VARIABLES
  active,        \* version of the registered sources
  registrations,
  page,          \* cache/screening/latest.json
  dashboard,     \* cache/dashboard/latest.json
  driveHead,     \* results/drive-screening/input-head/latest.json
  marks,         \* cache/screening/confirmed-etf-context.json
  archive,       \* screening_run_archive: the result of each run id
  history,       \* screening_history: run shown for each date, 0 for none
  receipts,      \* cache/screening/completed: the certified publications
  journalled,    \* publications whose signal journal stage ended without error
  stages,        \* results/screening/stages: status of each publication
  build,         \* progress and locals of each writer
  builds,
  browser        \* progress and locals of each browser

objects == <<page, dashboard, driveHead, marks>>
records == <<archive, history, receipts, journalled, stages>>
outside == <<active, registrations, builds, browser>>
screeningVars == <<active, registrations, objects, records, build, builds, browser>>

-----------------------------------------------------------------------------
(* Results.                                                                *)

Missing == [id |-> 0, base |-> 0, drive |-> 0, code |-> 0]
Exists(o) == o.base # 0

SameInput(o, p) == o.base = p.base /\ o.drive = p.drive
SameResult(o, p) == SameInput(o, p) /\ o.code = p.code

\* Date and phase of the newest source behind a result.
Newest(o) == IF o.drive = 0 THEN Registered[o.base] ELSE DriveFiles[o.drive]
DateOf(o) == Newest(o).date
PhaseOf(o) == Newest(o).phase

Dates == {Registered[v].date : v \in Versions}

\* A result may not replace a later day's, nor a preview a confirmed one.
Supersedes(new, old) ==
  \/ DateOf(new) > DateOf(old)
  \/ DateOf(new) = DateOf(old) /\ (PhaseOf(old) = "FINAL" => PhaseOf(new) = "FINAL")

\* The summary of a registered result carries no publication id.
SummaryOf(o) == IF o.drive = 0 THEN [o EXCEPT !.id = 0] ELSE o

\* currentDriveGeneration
CurrentGeneration(head, o) == Exists(head) /\ head = o

-----------------------------------------------------------------------------
(* Writers.                                                                *)

\* The awaits of each kind of publication, in order.
Steps(kind, phase) ==
  CASE kind = "cli" /\ phase = "FINAL" ->
         <<"archive", "history", "guard", "upload", "verify", "mark", "journal",
           "confirm", "certify", "close">>
    [] kind = "cli" /\ phase # "FINAL" -> <<"guard", "keep", "upload", "verify", "close">>
    [] kind = "web" /\ phase = "FINAL" ->
         <<"look", "head", "load", "newer", "upload", "archive", "history", "mark",
           "journal", "verify", "confirm", "certify", "close">>
    [] kind = "web" /\ phase # "FINAL" ->
         <<"look", "head", "load", "newer", "keep", "upload", "verify", "close">>
    [] kind = "reuse" -> <<"summary", "receipt", "again", "sources", "mark", "journal", "close">>
    [] kind = "drive" /\ phase = "FINAL" ->
         <<"baseline", "latest", "advance", "guard", "upload", "verify", "readback">>
    [] kind = "drive" /\ phase # "FINAL" ->
         <<"baseline", "latest", "advance", "guard", "keep", "upload", "verify", "readback">>

Idle == [pc |-> "idle", kind |-> "web", mine |-> Missing, seen |-> Missing, left |-> {}]

At(w, pc) == build[w].pc = pc
Mine(w) == build[w].mine
Preview(w) == PhaseOf(Mine(w)) = "PRELIMINARY"

StepsOf(w) == Steps(build[w].kind, PhaseOf(Mine(w)))
After(w) ==
  LET i == CHOOSE j \in DOMAIN StepsOf(w) : StepsOf(w)[j] = build[w].pc
  IN  IF i = Len(StepsOf(w)) THEN "idle" ELSE StepsOf(w)[i + 1]

\* What a writer read is remembered only while it is still to be used.
Advance(w) ==
  build' = [build EXCEPT ![w] = IF After(w) = "idle" THEN Idle ELSE [@ EXCEPT !.pc = After(w)]]
AdvanceSeeing(w, o) == build' = [build EXCEPT ![w] = [@ EXCEPT !.pc = After(w), !.seen = o]]
Stop(w) == build' = [build EXCEPT ![w] = Idle]

\* An error that the code lets escape ends the publication.
Unless(w, error) == IF error THEN Stop(w) ELSE Advance(w)

ScreeningInit ==
  /\ active \in Versions /\ registrations = 0
  /\ page = Missing /\ dashboard = Missing /\ driveHead = Missing /\ marks = Missing
  /\ archive = [i \in 1 .. MaxBuilds |-> Missing]
  /\ history = [d \in Dates |-> 0]
  /\ receipts = {} /\ journalled = {}
  /\ stages = [i \in 1 .. MaxBuilds |-> "none"]
  /\ build = [w \in Writers |-> Idle] /\ builds = 0
  /\ browser = [b \in Browsers |-> [pc |-> "idle", got |-> Missing, since |-> 0]]

\* Most awaits only read.
OnlyReads == UNCHANGED <<outside, objects, records>>

\* Registration, rollback or compaction changes the active sources.
Register ==
  /\ registrations < MaxRegistrations
  /\ active' \in Versions \ {active}
  /\ registrations' = registrations + 1
  /\ UNCHANGED <<objects, records, build, builds, browser>>

Begin(w, kind, mine, seen) ==
  /\ At(w, "idle")
  /\ build' = [build EXCEPT ![w] =
       [pc |-> Steps(kind, PhaseOf(mine))[1], kind |-> kind, mine |-> mine, seen |-> seen,
        left |-> {"page", "dashboard"}]]
  /\ UNCHANGED <<active, registrations, objects, records, browser>>

\* run-screening.ts loads the registered sources and computes.
StartCli ==
  /\ builds < MaxBuilds /\ builds' = builds + 1
  /\ Begin(Workflow, "cli",
           [id |-> builds + 1, base |-> active, drive |-> 0, code |-> CodeOf["cli"]], Missing)

\* run-drive-screening.ts adds its file to those of the published head, or
\* publishes them again.
StartDrive(n) ==
  /\ builds < MaxBuilds /\ builds' = builds + 1
  /\ n > 0 /\ n \in {driveHead.drive, driveHead.drive + 1} /\ n <= Len(DriveFiles)
  /\ DriveFiles[n].date >= Registered[active].date
  /\ Begin(Workflow, "drive",
           [id |-> builds + 1, base |-> active, drive |-> n, code |-> CodeOf["cli"]], driveHead)

\* A web build lists the registered sources; its id comes later.
StartWeb(w) ==
  /\ w \in Webs /\ UNCHANGED builds
  /\ Begin(w, "web", [id |-> 0, base |-> active, drive |-> 0, code |-> CodeOf["web"]], Missing)

\* A storage error, a time-out or the end of the process.
Fail(w) ==
  /\ ~At(w, "idle")
  /\ Stop(w)
  /\ OnlyReads

-----------------------------------------------------------------------------
(* The web build decides between reuse and a new publication.              *)

Look(w) ==
  /\ At(w, "look")
  /\ AdvanceSeeing(w, page)
  /\ OnlyReads

\* A page of the Drive is only ever returned as it is.
ReadHead(w) ==
  /\ At(w, "head")
  /\ LET cached == build[w].seen IN
     IF cached.drive > 0 \/ Exists(driveHead) THEN Stop(w)
     ELSE IF ~Preview(w) /\ Exists(cached) /\ SameInput(cached, Mine(w))
     THEN build' = [build EXCEPT ![w] = [@ EXCEPT !.kind = "reuse", !.pc = "summary"]]
     ELSE Advance(w)
  /\ OnlyReads

\* Without the summary or the receipt of the cached result it is built anew.
BuildAnew(w) == build' = [build EXCEPT ![w] = [@ EXCEPT !.kind = "web", !.pc = "load"]]

ReadSummary(w) ==
  /\ At(w, "summary")
  /\ IF SameResult(dashboard, build[w].seen) THEN Advance(w) ELSE BuildAnew(w)
  /\ OnlyReads

\* A receipt is filed under the code that certified, and sought under one's own.
ReadReceipt(w) ==
  /\ At(w, "receipt")
  /\ IF build[w].seen \in receipts /\ build[w].seen.code = Mine(w).code THEN Advance(w) ELSE BuildAnew(w)
  /\ OnlyReads

ReadAgain(w) ==
  /\ At(w, "again")
  /\ Unless(w, page # build[w].seen)
  /\ OnlyReads

\* From here on the cached publication is the one that is continued.
ReadSources(w) ==
  /\ At(w, "sources")
  /\ IF active # Mine(w).base THEN Stop(w)
     ELSE build' = [build EXCEPT ![w] =
            [@ EXCEPT !.pc = After(w), !.mine = build[w].seen, !.seen = Missing]]
  /\ OnlyReads

\* loadActiveSources, the computation and the new publication id.
Load(w) ==
  /\ At(w, "load")
  /\ IF active # Mine(w).base THEN Stop(w) /\ UNCHANGED builds
     ELSE /\ builds < MaxBuilds /\ builds' = builds + 1
          /\ build' = [build EXCEPT ![w] = [@ EXCEPT !.pc = After(w),
                !.mine = [Mine(w) EXCEPT !.id = builds + 1]]]
  /\ UNCHANGED <<active, registrations, objects, records, browser>>

\* Only a Drive result that appeared meanwhile stops the build.
ReadNewer(w) ==
  /\ At(w, "newer")
  /\ Unless(w, page.drive > 0 /\ page.id # build[w].seen.id)
  /\ OnlyReads

-----------------------------------------------------------------------------
(* The Drive publisher.                                                    *)

Baseline(w) ==
  /\ At(w, "baseline")
  /\ Unless(w, \/ active # Mine(w).base
               \/ driveHead # build[w].seen
               \/ Exists(driveHead) /\ driveHead.base # Mine(w).base)
  /\ OnlyReads

ReadLatest(w) ==
  /\ At(w, "latest")
  /\ Unless(w, Exists(page) /\ ~Supersedes(Mine(w), page))
  /\ OnlyReads

\* The head goes first: a publication that fails later is resumed from it.
AdvanceHead(w) ==
  /\ At(w, "advance")
  /\ driveHead' = Mine(w)
  /\ Advance(w)
  /\ UNCHANGED <<outside, page, dashboard, marks, records>>

\* Summary, baseline and the Drive receipt.
Readback(w) ==
  /\ At(w, "readback")
  /\ Stop(w)
  /\ OnlyReads

-----------------------------------------------------------------------------
(* Steps that the kinds share.                                             *)

\* archiveScreeningRun: the first result of a run id stays.
Archive(w) ==
  /\ At(w, "archive")
  /\ archive' = [archive EXCEPT ![Mine(w).id] = IF Exists(@) THEN @ ELSE Mine(w)]
  /\ Unless(w, Exists(archive[Mine(w).id]) /\ archive[Mine(w).id] # Mine(w))
  /\ UNCHANGED <<outside, objects, history, receipts, journalled, stages>>

\* persistScreeningSnapshot, for sessions after the adoption of the entry policy.
History(w) ==
  /\ At(w, "history")
  /\ history' = [history EXCEPT ![DateOf(Mine(w))] = Mine(w).id]
  /\ Advance(w)
  /\ UNCHANGED <<outside, objects, archive, receipts, journalled, stages>>

\* persistWebScreeningCaches reads the page and the head before it replaces them.
Guard(w) ==
  /\ At(w, "guard")
  /\ IF \/ build[w].kind # "drive" /\ Exists(driveHead)
        \/ Exists(page) /\ ~Supersedes(Mine(w), page)
        \/ SameInput(page, Mine(w)) /\ ~SameResult(page, Mine(w))
     THEN Stop(w) ELSE AdvanceSeeing(w, page)
  /\ OnlyReads

\* Mutant: only a confirmed page of the same day is kept.
KeepSameDay(w) ==
  /\ At(w, "keep")
  /\ LET cached == build[w].seen IN
     marks' = IF /\ Exists(cached) /\ PhaseOf(cached) = "FINAL"
                 /\ DateOf(cached) = DateOf(Mine(w)) THEN cached ELSE marks
  /\ Advance(w)
  /\ UNCHANGED <<active, registrations, page, dashboard, driveHead, records, builds, browser>>

\* preserveConfirmedEtfContext keeps the marks of the confirmed page it was given.
Keep(w) ==
  /\ At(w, "keep")
  /\ LET cached == build[w].seen IN
     marks' = IF Exists(cached) /\ PhaseOf(cached) = "FINAL" THEN cached ELSE marks
  /\ Advance(w)
  /\ UNCHANGED <<active, registrations, page, dashboard, driveHead, records, builds, browser>>

\* Page and summary are uploaded side by side.
Uploaded(w, part) ==
  /\ At(w, "upload") /\ part \in build[w].left
  /\ build' = [build EXCEPT ![w] = [@ EXCEPT !.left = build[w].left \ {part},
       !.pc = IF build[w].left = {part} THEN After(w) ELSE "upload"]]
  /\ UNCHANGED <<active, registrations, driveHead, marks, records, builds, browser>>

UploadPage(w) ==
  /\ Uploaded(w, "page")
  /\ page' = Mine(w) /\ UNCHANGED dashboard

UploadDashboard(w) ==
  /\ Uploaded(w, "dashboard")
  /\ dashboard' = SummaryOf(Mine(w)) /\ UNCHANGED page

\* The page is read back; its id is not compared.
Verify(w) ==
  /\ At(w, "verify")
  /\ Unless(w, ~SameResult(page, Mine(w)))
  /\ OnlyReads

Staged(w, status) == stages' = [stages EXCEPT ![Mine(w).id] = status]

\* runSignalJournalStage: RUNNING is saved before the work ...
Mark(w) ==
  /\ At(w, "mark")
  /\ Staged(w, "RUNNING")
  /\ Advance(w)
  /\ UNCHANGED <<outside, objects, archive, history, receipts, journalled>>

\* Mutant: a failed signal journal does not end the publication.
JournalFailsSilently(w) ==
  /\ At(w, "journal")
  /\ Staged(w, "FAILED")
  /\ Advance(w)
  /\ UNCHANGED <<outside, objects, archive, history, receipts, journalled>>

\* ... and the outcome after it: done, or sessions still wait for input.
Journal(w) ==
  /\ At(w, "journal")
  /\ journalled' = journalled \cup {Mine(w).id}
  /\ Staged(w, "NOT_RUN")
  /\ Advance(w)
  /\ UNCHANGED <<outside, objects, archive, history, receipts>>

JournalFails(w) ==
  /\ At(w, "journal")
  /\ Staged(w, "FAILED")
  /\ Stop(w)
  /\ UNCHANGED <<outside, objects, archive, history, receipts, journalled>>

\* A web build saves that its completion failed; the scheduled run just ends.
CompletionFails(w) ==
  /\ IF build[w].kind = "web" THEN Staged(w, "FAILED") ELSE UNCHANGED stages
  /\ Stop(w)
  /\ UNCHANGED receipts

\* completeScreeningPublication: the page must still be this publication's ...
Confirm(w) ==
  /\ At(w, "confirm")
  /\ IF page = Mine(w) THEN Advance(w) /\ UNCHANGED <<receipts, stages>> ELSE CompletionFails(w)
  /\ UNCHANGED <<outside, objects, archive, history, journalled>>

\* ... and so must the summary; then the receipt of that identity is written.
Certify(w) ==
  /\ At(w, "certify")
  /\ IF SameResult(dashboard, Mine(w))
     THEN receipts' = receipts \cup {Mine(w)} /\ Advance(w) /\ UNCHANGED stages
     ELSE CompletionFails(w)
  /\ UNCHANGED <<outside, objects, archive, history, journalled>>

Close(w) ==
  /\ At(w, "close")
  /\ Staged(w, IF ~Preview(w) THEN "COMPLETED"
               ELSE IF build[w].kind = "web" THEN "SKIPPED" ELSE "NOT_RUN")
  /\ Advance(w)
  /\ UNCHANGED <<outside, objects, archive, history, receipts, journalled>>

Write(w) ==
  \/ StartWeb(w) \/ Fail(w)
  \/ Look(w) \/ ReadHead(w) \/ ReadSummary(w) \/ ReadReceipt(w) \/ ReadAgain(w) \/ ReadSources(w)
  \/ Load(w) \/ ReadNewer(w) \/ Baseline(w) \/ ReadLatest(w) \/ AdvanceHead(w) \/ Readback(w)
  \/ Archive(w) \/ History(w) \/ Guard(w) \/ Keep(w) \/ UploadPage(w) \/ UploadDashboard(w)
  \/ Verify(w) \/ Mark(w) \/ Journal(w) \/ JournalFails(w) \/ Confirm(w) \/ Certify(w) \/ Close(w)

-----------------------------------------------------------------------------
(* Browsers (readDashboardCache, readScreeningCache).                      *)

SeeTo(b, pc) == browser' = [browser EXCEPT ![b].pc = pc]
OnlyLooks == UNCHANGED <<active, registrations, objects, records, build, builds>>

\* Mutant: a summary without Drive evidence is shown whatever the head says.
GenerationShownBlindly(o) == o.drive > 0 => CurrentGeneration(driveHead, o)

\* matchesDriveHead
GenerationShown(o) == o.drive > 0 \/ Exists(driveHead) => CurrentGeneration(driveHead, o)

Open(b) ==
  /\ browser[b].pc \in {"idle", "shown"}
  /\ browser' = [browser EXCEPT ![b] =
       [pc |-> "summary", got |-> dashboard, since |-> driveHead.drive]]
  /\ OnlyLooks

SummaryInput(b) ==
  /\ browser[b].pc = "summary"
  /\ SeeTo(b, IF browser[b].got.base = active THEN "summaryHead" ELSE "page")
  /\ OnlyLooks

SummaryHead(b) ==
  /\ browser[b].pc = "summaryHead"
  /\ SeeTo(b, IF GenerationShown(browser[b].got) THEN "shown" ELSE "page")
  /\ OnlyLooks

SeePage(b) ==
  /\ browser[b].pc = "page"
  /\ browser' = [browser EXCEPT ![b] = [@ EXCEPT !.pc = "pageInput", !.got = page]]
  /\ OnlyLooks

\* A result that is not of the active sources, or not the head's, is not shown.
SeeNothing(b) ==
  browser' = [browser EXCEPT ![b] = [pc |-> "idle", got |-> Missing, since |-> 0]]

PageInput(b) ==
  /\ browser[b].pc = "pageInput"
  /\ IF browser[b].got.base = active THEN SeeTo(b, "pageHead") ELSE SeeNothing(b)
  /\ OnlyLooks

PageHead(b) ==
  /\ browser[b].pc = "pageHead"
  /\ LET got == browser[b].got IN
     IF ~GenerationShown(got) THEN SeeNothing(b)
     ELSE SeeTo(b, IF got.drive > 0 THEN "shown" ELSE "repair")
  /\ OnlyLooks

\* The repaired summary is uploaded without being awaited, or not at all.
Repair(b) ==
  /\ browser[b].pc = "repair"
  /\ dashboard' = SummaryOf(browser[b].got)
  /\ SeeTo(b, "shown")
  /\ UNCHANGED <<active, registrations, page, driveHead, marks, records, build, builds>>

RepairLost(b) ==
  /\ browser[b].pc = "repair"
  /\ SeeTo(b, "shown")
  /\ OnlyLooks

Browse(b) ==
  \/ Open(b) \/ SummaryInput(b) \/ SummaryHead(b) \/ SeePage(b) \/ PageInput(b) \/ PageHead(b)
  \/ Repair(b) \/ RepairLost(b)

ScreeningNext ==
  \/ Register \/ StartCli \/ \E n \in 1 .. Len(DriveFiles) : StartDrive(n)
  \/ \E w \in Writers : Write(w)
  \/ \E b \in Browsers : Browse(b)

ScreeningSpec == ScreeningInit /\ [][ScreeningNext]_screeningVars

-----------------------------------------------------------------------------
(* Types.                                                                  *)

ResultSet ==
  [id : 0 .. MaxBuilds, base : 0 .. Len(Registered), drive : 0 .. Len(DriveFiles),
   code : Nat]

StepNames ==
  {"look", "head", "load", "newer", "summary", "receipt", "again", "sources", "baseline", "latest",
   "advance", "readback", "archive", "history", "guard", "keep", "upload", "verify", "mark",
   "journal", "confirm", "certify", "close"}
BrowserSteps == {"idle", "summary", "summaryHead", "page", "pageInput", "pageHead", "repair", "shown"}

\* The type invariant of the screening publication.
ScreeningTypeOK ==
  /\ active \in Versions /\ registrations \in 0 .. MaxRegistrations
  /\ {page, dashboard, driveHead, marks} \subseteq ResultSet
  /\ archive \in [1 .. MaxBuilds -> ResultSet]
  /\ history \in [Dates -> 0 .. MaxBuilds]
  /\ receipts \subseteq ResultSet /\ journalled \subseteq 1 .. MaxBuilds
  /\ stages \in [1 .. MaxBuilds -> {"none", "RUNNING", "NOT_RUN", "FAILED", "COMPLETED", "SKIPPED"}]
  /\ build \in [Writers ->
       [pc : StepNames \cup {"idle"}, kind : {"cli", "web", "reuse", "drive"}, mine : ResultSet,
        seen : ResultSet, left : SUBSET {"page", "dashboard"}]]
  /\ builds \in 0 .. MaxBuilds
  /\ browser \in [Browsers -> [pc : BrowserSteps, got : ResultSet, since : 0 .. Len(DriveFiles)]]

-----------------------------------------------------------------------------
(* Safety.                                                                 *)

\* "Completion certifies screening and its immutable history": a receipt is
\* only ever written for a confirmed registered result whose run is archived
\* with that very result, whose date is in the history, and whose signal
\* journal stage has ended, whatever failed or was overtaken meanwhile.
ReceiptCertifies ==
  \A r \in receipts :
    /\ r.drive = 0 /\ PhaseOf(r) = "FINAL"
    /\ archive[r.id] = r /\ history[DateOf(r)] # 0
    /\ r.id \in journalled

\* A publication whose status says COMPLETED has its receipt, also when a
\* later reuse went through the journal stage again and failed there.
CompletedHasReceipt ==
  \A i \in 1 .. MaxBuilds : stages[i] = "COMPLETED" => \E r \in receipts : r.id = i

\* Every row of the history is a confirmed result of that day in the archive.
HistoryIsArchived ==
  \A d \in Dates : history[d] # 0 =>
    LET r == archive[history[d]] IN Exists(r) /\ DateOf(r) = d /\ PhaseOf(r) = "FINAL"

\* The records of a publication agree with each other at every moment.
PublicationRecordsAgree == ReceiptCertifies /\ CompletedHasReceipt /\ HistoryIsArchived

\* A browser never shows an older Drive generation than the one that was
\* published when it opened the page, nor a registered result in its place,
\* although head, page and summary are separate objects, in-flight builds
\* still overwrite the page and other browsers repair the summary.
NoOlderGeneration ==
  \A b \in Browsers :
    browser[b].pc \in {"shown", "repair"} => browser[b].got.drive >= browser[b].since

\* A preview is uploaded over a confirmed page.
PreviewReplaces(w) ==
  /\ At(w, "upload") /\ Preview(w) /\ page' # page /\ page' = Mine(w)
  /\ Exists(page) /\ PhaseOf(page) = "FINAL"

MarksAreKept == Exists(marks) /\ PhaseOf(marks) = "FINAL"

\* "Preserve verified FINAL marks before the latest-view pointer is replaced
\* by a preview": when a preview replaces the confirmed page its writer had
\* read, confirmed marks are in store.
PreviewKeepsMarks ==
  [][\A w \in Writers :
       PreviewReplaces(w) /\ build[w].seen = page => MarksAreKept]_screeningVars

\* "Before a PRELIMINARY cache replaces the latest view, a digest-verified
\* prior FINAL ETF projection is retained": also when the confirmed page was
\* published after the writer of the preview had read the view.
ReplacedMarksAreKept ==
  [][\A w \in Writers : PreviewReplaces(w) => MarksAreKept]_screeningVars
=============================================================================
