# CloudTrend: formal models

CloudTrend is a single-owner application that screens Korean and US stocks and keeps two
kinds of books: the *actual* ledgers, which hold what the owner really bought and sold, and
*model* (shadow) series, which hold what the published rules would have done.  This
directory holds TLA+ models of its stateful core, the TLC configurations that check them and
TLAPS proofs of their main properties.

## 1. The system

| part | state | operations | hard because |
|---|---|---|---|
| Assistant trade approval (`routes/api.assistant-trades.ts`, `lib/assistantActualTrade.ts`, migrations `2026101914*` to `20261029161000`) | `assistant_trade_proposals`: status, processing token, processing time | propose, confirm, reject, claim, release, record, commit | confirmations race with each other, with web saves and with a 120 s lease; handlers die between awaits |
| Actual ledger documents (`lib/newActualPortfolio*.ts`, `portfolioLedgers*.ts`, `usActualLedger*.ts`) | one JSON document per currency with a revision: executions, assignments to the new slice, audit | fill, correct, cancel, older pages' fill/edit/remove/exclude, refresh | read, compute, compare-and-set; two generations of pages write one document with different checks |
| Canonical journal (`20261003020957`, `20261002213815`) | `ledger_event_versions`: append-only version chains, securities, bridge rows | trigger on every document write | must mirror every document, never lose history, and refuse reused identities |
| Evidence guard (`20261021074827`) | advisory lock per owner, Notion page of every execution | trigger before every document write | the two currencies' documents are separate rows; lock orders differ between callers |
| Model and shadow series (`lib/ledger/modelSeries.ts`, `modelJournal.ts`, `octoberShadow*.ts`, `ledger_append_model_session`) | per-series chain of sealed sessions, prepared batches | prepare, append, resume | several series advance one publication; a run may die after some of them |
| KOSPI shadow (`engine/kospiShadow.ts`, `kospiShadowSeries.ts`, `kospiShadowStore.ts`) | registry, one snapshot per session and a latest projection in storage, for an original and a revised series; in a snapshot positions, orders, candidates | publish a session, recover a late one, correct one session, read; the daily step of the book | three objects are written one after the other; source and code may change before a retry; policy over many sessions |
| Integrated allocation shadow (`integratedAllocation*.ts`, migrations `20261011*`) | the evidence of each market day in storage or in outbox rows; two books (O1, S07), one chain of sessions each, with three sleeves of cash, positions and orders and central cash | stage evidence, restore, replay, append; the day and the month review of a book | storage may not answer before, during or after an upload; the review moves money that orders count on |
| US screening (`run-us-screening.ts`, `us-screening-publication.ts`, `us-same-session-revision.ts`, `usProspectiveCloud.ts`) | the ingest row; per session manifest, result, history row; latest page, view, correction bundles and their pointer | collect, publish, correct, read | the collector replaces the ingest at any moment; five objects, three of them read one after the other |
| US operating portfolio (`engine/usProspective*.ts`, migrations `20260928064908`, `20261008030458`, `20261010012052`) | snapshots, signals, orders, positions | historical repairs only | ended on 2026-10-12 |
| Source registry (`scripts/source-registry-store.ts`, `20260910234943`) | `analysis_source_files`: active, superseded, inactive | replace, append, merge, add, replace all, remove | check and activation are separate requests |
| Screening compaction (`scripts/compact-screening-sources.ts`, `20261006155556`) | the same rows, a receipt per cutover | stage, cut over, retry | swaps a whole active set while ingestion runs |
| Screening publication (`run-screening.ts`, `webScreening.functions.ts`, `run-drive-screening.ts`, `web-screening-cache-store.ts`, `screeningPublication.server.ts`) | page, summary, Drive head, confirmed marks, stages, receipts, run archive, history | scheduled run, web build or reuse, Drive publication, reading with repair | three kinds of writers over separate objects, each failing at any await |
| Signal journal (`signalJournal.server.ts`) | rule activations, one result per session and rule, archive, markers, coverage | catch up, observe, reconstruct, activate | overlapping runs of different code and settings; the coverage is overwritten |
| Older portfolio store (`portfolioStoreCore.ts`, `dashboardOperations.server.ts`, `actualEntryDecisions.server.ts`) | browser storage, dashboard views, decisions | edit, sync, derive | stale views |
| Pure engines, collectors, research, UI | none that persists | scoring, indicators, back tests | numerics, not protocols |

How they interact: the owner's pages and the approval handler write *documents*; a BEFORE
trigger compares the evidence of all documents, an AFTER trigger brings the canonical
journal up to date in the same transaction.  Collectors register *sources*; the screening
run reads the active set, publishes its result and brings the signal journal up to date, and
the shadow series consume the publication.  Model series never write actual ledgers.

What makes each modelled part correct:

- *Approval*: a proposal is booked at most once and RECORDED exactly when its execution is in
  the canonical journal; only the request whose claim is current resolves it; answers given
  to the owner stay true; a claimed proposal does not stay claimed for ever.
- *Documents*: no save overwrites what it did not read; an execution disappears only by a
  save that removes it; the new slice can be projected; one Notion page is evidence of one
  execution in all books.
- *Journal*: live heads and document executions are the same; chains only grow; a voided
  identity is never reused.
- *Save transactions*: what is checked under READ COMMITTED still holds at the commit.
- *Source registry*: bytes of live and replaced sources are kept; what left the active set
  does not come back; a compaction changes neither the data nor the raw sources behind it.
- *Shadow publication*: one decision per day for all books, every book gets exactly the
  decided days in order, and a decided day reaches every book.
- *Screening publication*: a receipt certifies only what is archived, in the history and
  journalled; no browser goes back to an older Drive generation; a preview does not cost the
  marks of the confirmed page its writer had read (see section 3 for the page it had not).
- *Signal journal*: a recorded session keeps the work of the rule it is filed under; the
  coverage hides no session before its own day; a new rule never reaches back.
- *KOSPI shadow*: each series is computed once from every session since it began, through
  crashes, late sessions and its correction; a page shows a whole series; the book keeps its
  caps, buys a confirmed onset once, and an exit order belongs to one position.
- *US screening*: everything kept of a day comes from one input, streaks and ranks go through
  every session once, pages show what is recorded with only its own correction.
- *Integrated allocation*: both books are computed from the evidence that storage keeps,
  whatever was restored or late, and no accepted evidence is lost; a book neither makes nor
  loses money, orders keep what they need through a review, and follow the policy.

The hazards behind these properties, each with the line where it bites, are listed in
`PROJECT.json`; so are the parts that are not modelled.

## 2. Modules

| module | models | role |
|---|---|---|
| `ActualDocument` | the JSON document of a ledger, `validate_document`, `projectNewActualPool`'s refusals, the evidence guard, the journal trigger | operators, no state |
| `WebsiteEdits` | the owner's edits of both page generations, as functions on documents | operators, extends `ActualDocument` |
| `TradeApproval` | `routes/api.assistant-trades.ts` and the database functions it calls, website saves, crashes and leases | state machine over the two above |
| `TradeInbox` | what the owner is promised: stage, approve-and-book, decline | abstract specification |
| `SaveTransactions` | the same writes statement by statement, with row and advisory locks | state machine |
| `AtomicSaves` | one save as one step | abstract specification of `SaveTransactions`; the granularity `TradeApproval` uses |
| `SourceRegistry` | registration, activation, removal, compaction of screening sources | state machine |
| `ShadowPublication` | replays and continuations of the model books | state machine |
| `ShadowBooks` | each day decided once, each book records the decided days in order | abstract specification of `ShadowPublication` |
| `ScreeningPublication` | the three publishers of the KR screening, receipts and stages, browsers | state machine |
| `SignalJournal` | rules, days, archive, markers and coverage of the signal journal | state machine |
| `KospiShadowStore` | both KOSPI series in storage, the correction, readers | state machine |
| `KospiBook` | `stepKospiShadow`: one session of the model book | state machine |
| `UsScreening` | collector, daily US publication, same-session corrections, readers | state machine |
| `IntegratedAllocation` | evidence of market days, storage and outbox, replays, both books as chains | state machine |
| `CorrectedSeries` | a series that takes session after session, and one that continues it from a corrected session | abstract specification of `KospiShadowStore` |
| `DatedResults` | a day recorded once and after the day before, pages on the newest day, corrections of it only | abstract specification of `UsScreening` |
| `EvidenceBooks` | evidence sealed once per slot, books that take every day in order from what is sealed | abstract specification of `IntegratedAllocation` |
| `AllocationBook` | `stepIntegratedAllocationSession` and the month review: what a day does to one book | state machine |
| `MCTradeApproval`, `MCSaveTransactions`, `MCSourceRegistry`, `MCShadowPublication`, `MCScreeningPublication` | constants of the instances | TLC |
| `MCCompaction` | two scenarios of `SourceRegistry` in one specification: in each, who has no part in it never starts | TLC |
| `MCDailyPublication` | the seven daily modules side by side, one of them running in each behaviour | TLC |
| `TradeApprovalProofs`, `SaveTransactionsProofs`, `SourceRegistryProofs`, `ShadowPublicationProofs` | | theorems and proofs about the module of that name |
| `ScreeningPublicationProofs` | | theorems and proofs about `ScreeningPublication` and `SignalJournal` |
| `IntegratedAllocationProofs` | | theorems and proofs about `IntegratedAllocation` and `AllocationBook` |
| `DailyPublicationProofs` | | theorems and proofs about `KospiShadowStore`, `UsScreening` and `KospiBook` |
| `MCDailyPublicationProofs` | | theorems and proofs about the seven daily modules put side by side |

`SaveTransactions` justifies the atomic `Commit` and `WebWrite` of `TradeApproval`: it shows
that the real lock orders and READ COMMITTED reads add no behaviour.

### How state and actions correspond to the code

**TradeApproval.**  `proposal` is `assistant_trade_proposals`: status, `processing_token`, and
whether `processing_started_at` is more than 120 s old (`expired`).  The token is a fresh
uuid only the claiming invocation knows, so the invocation stands for it.  `docs` are the two
website documents (revision 0: no row), `journal` the heads of the version chains, `handler`
a request's program counter and what it holds across an await, `writer` a website save
between its read and its write.  A handler goes

    claim -> read (both books, in either order) -> release | record | save
    save -> record | commit -> readback -> idle

and each arrow is one await of the code; `Commit` is `assistant_trade_commit`, whose UPDATE
fires both triggers.  A slow request is simply one that stays at its step.  `LeaseEnds` lets
120 s pass over a claim nobody works under; `LeaseOutrun` does so under a live handler and
counts as a fault, like `Crash`.  `RECORDED` with `LegacySaved` describes fills that the
older protocol wrote before it could mark the proposal.

**Data abstraction of documents.**  Prices, fees, names and memos decide no branch by
themselves; an assignment covers its whole fill; audit ids are kept for fills only, since
only they are looked up; a securities registration is read off the chains that created it.
Mixed new/old fills, broker-enriched corrections and the reviewed-event workflow are left
out.  The integrity check of `readWebsiteDocument` compares document and journal and so
never fails by `HeadsMatchDocument`.

**SaveTransactions.**  One transaction per request.  Approvals take the owner's evidence
lock, then the row; website updates take the row, then, in the trigger, the evidence lock.
`UpdateRow` skips a row whose revision moved without waiting.  A takeover of a claim is
allowed at any time, which covers every lease.

**SourceRegistry.**  A source is its rows as a function, its status and its activation time;
`job` is the client of a registration, `txn` the activation transaction on the server, which
goes on although the client may be gone; `undo` is the two-part undo that runs in parallel
after an error.  `run` is a compaction with the plan it saved.  Times are distinct, as the
database's microsecond clock makes them.  It models the server and CLI registration; the
browser follows the same protocol.

**ShadowPublication.**  The hash of a session covers its whole history, so a session is
modelled as the sequence of days (date, version of the input) it was computed from.  `run` is
a replay or continuation: `heads` (concurrent head reads), `lookup` (the prepared
publication), `session`/`latest` (per book, when nothing was prepared), `stage` (`prepare`),
`persist`/`append` (per book).  A continuation plans its whole batch first; its plan reads
only rows that never change, so it is one step.  Reads that only return immutable rows are
merged with the next step.

**ScreeningPublication.**  `build[w]` is one publication: `Steps` lists the awaits of its kind
in order, `pc` is the one it is at, `mine` the result it publishes, `seen` the object it read
and still uses, `left` the uploads of its `Promise.all` that are outstanding.  A result is
named by its input (source version, number of Drive files) and code, which is what the
fingerprint and the digest tell apart.  `Workflow` stands for the concurrency group that
serialises scheduled and Drive runs; web builds overlap with everything.  Every await may fail
(`Fail`), and where the code catches and records an error the record is part of the step
(`JournalFails`, `CompletionFails`).  A reuse starts as a web build and turns into one again
when summary or receipt are missing.  Browsers read summary, page and head at different
moments and upload a repaired summary without waiting for it (`Repair`, `RepairLost`).

**SignalJournal.**  `catchUp[r]` is one call of the journal stage with what it holds across
awaits: the rules it loaded, the keys it found completed, its clock, and the session it is
at.  `days`, `runArchive` and `completed` are written once each (`ignore if present`, then read
back), `coverage` is overwritten.  `traded` are the sessions its sources hold, so a gap leaves
a session pending.  `today` is the session of the calendar day and `over` those that
`signalSessionCalendar` counts as over: all before today, and today once its close has passed,
which never happens on a day whose hours are not confirmed.  A publication starts at any time
for any session up to today, so its coverage may end with a session that is still open: that
one is neither recorded nor pending.  `CoverageNeverOverclaims` therefore speaks of the sessions
before the coverage's own day, and of all sessions that were over when its run read the
calendar; until a later run, the page may say that nothing is missing through a day whose
signals are not recorded yet.  The US journal follows the same protocol.

**KospiShadowStore.**  A snapshot is the sequence of inputs it was computed from, so equality
of snapshots is equality of what they were computed from.  `kospiRun` writes registry, session,
projection; `MayAppend` are all checks before the first write, `RevisionOpens` and `Anchored`
those of the revised series, `StartCorrection` and the `Put...` actions the correction, which
skips what is already there.  One run writes at a time, as the workflow group has it.

**KospiBook.**  One action, `Session`, is the whole step of one confirmed close: exits and
entries at the open, expiry and upward exits at the close, confirmations, new onsets.  Scores
are levels, since only the thresholds 8 and 9.5 decide anything, and cash may refuse any buy.
`unified` selects the model of October 12, which carries an entry it could not execute.

**UsScreening.**  A result is the sequence of inputs its ranks and streaks went through.
`usRun` is the daily publication (`manifest`, `result`, `history`, `latest`, `view`) or a
correction (`bundle`, `recheck`, `pointer`), which share a workflow group; `Collect` replaces
the ingest row under either.

**IntegratedAllocation.**  `stored` is the object of a market day's evidence, which an upload
never overwrites, `outbox` the set of different payloads its rows hold.  `run[r]` is a staging
call or a replay with what it holds across awaits: a staging call goes `put -> upload -> check`,
and when storage fails it `keep -> insert -> kept`; a replay goes, for each book, `open`, then
for each day `inputs` (with `retained` and `put` where a slot is only in the outbox), `append`
and `readback`.  `read` is its cache, shared by both books.  A session is the evidence of all
slots its day uses (`UsedOn`), so the chain of a book tells apart what its hashes do.  An upload
may arrive after its client gave up (`Arrive`).  At this commit the evidence of KR days has no
caller in the scheduled publication, and `scripts/run-us-gap-replay.ts` stages that of US days
and replays; the model lets any slot be staged at any time.

**AllocationBook.**  One action, `AllocationPublication`, is a whole day: for each sleeve forced
exits and planned exits at the open, entries, forced exits at the close, marking and new exits,
then signals and new orders (`AfterSession`), and on the last day of a month the review
(`Review`, O1 only): orders of markets without a share are dropped, idle cash above the share
is collected, and paid to the markets that lack some.  Money is in whole units with the
roundings of the code, the fee one part of `FeeParts` (the code's 0.0015 is three of 2000);
a quote is what the market's adapter makes of the day's evidence.

## 3. Runs

`daily_publication` takes three to four minutes with two workers, `approval_evidence` and
`registry_compaction` about two, the others a minute or less.  "States" are distinct states.

| run | instance | states | shows |
|---|---|---|---|
| `approval_race` | buy and the sell that needs its share; two handlers, one writer (cancel, fill, refresh); 1 fault; revision up to 4 | 379,188 | type correctness; a revision names one content; RECORDED iff journalled; journal mirrors document; the new slice projects; only the holder resolves; only removals drop; refinement of `TradeInbox` |
| `approval_evidence` | a KR and a US approval, a new-page fill citing the same Notion page, and the older pages' fill, edit, remove; two handlers; revision up to 3; 1 fault; fairness | 176,020 | one page, one execution; every claim resolves, also when the older pages edit the book |
| `approval_recovery` | a fill the two-step protocol left unmarked; correct and cancel; 2 faults | 338,724 | answers stay true; the journal only grows |
| `approval_backdated_sell` | one sell dated before its buy | 316 | **violated**: a proposal stays PROCESSING for ever |
| `save_transactions` | three approvals (one takes over), a cancellation, a web fill; interruption at any time | 73,870 | locks protect what was checked; evidence is disjoint; refinement of `AtomicSaves`; every transaction ends |
| `registry_compaction` | two active sources; either a merge, a replace, a compaction and removals, or two compactions with an append between and a removal; 1 fault; fairness | 127,119 | bytes retained; cutovers invisible, raw origins survive two of them; nothing comes back; activations end |
| `registry_append_race` | three registrations from an empty registry | 632 | **violated**: an append becomes active over rows it conflicts with |
| `registry_merge_order` | a merge behind a compaction | 64 | **violated**: the merged rows lose |
| `publication_race` | one replay and one continuation, two books, two days, two versions; 1 fault; fairness | 99,691 | one decision per day; days in order; refinement of `ShadowBooks`; a decided day reaches every book |
| `daily_publication` | the daily pipelines: two KR publications with one registration or one open page, two overlapping journal runs, a KOSPI series of four days corrected on the third, six sessions of its book, three US days with two corrections, two allocation runs over two days with one evidence missing, an allocation book over four days with two month reviews | 822,733 | records agree, no older generation, marks of the page read survive; the journal is faithful, its coverage accounts for every earlier session, old rules untouched; the KOSPI series replay and are read whole; the book keeps its policy; US records, pages and corrections agree; the allocation books use the evidence in storage, keep their money and their policy; refinement of `CorrectedSeries`, `DatedResults` and `EvidenceBooks` (`PipelinesImplement`) |
| `publication_crash` | replays only; 1 fault | 209 | **violated**: a half appended day is never finished by replays |
| `screening_preview_race` | two publications of KR pages, one confirmed and one preview, with one registration | 5,923 | **violated**: a preview replaces a confirmed page of which no marks are kept |

### The five divergences

1. `approval_backdated_sell`: the pre-write check compares a sell with the *final* holding,
   the save projects the holding *at the date of the sell* and throws.  Every retry does the
   same, and a reject needs PENDING.  The route's comment promises that pre-write conflicts do
   not leave a proposal locked.
2. `registry_append_race`: overlap is checked when the upload is read; activation is a later
   transaction that compares nothing.  The docs promise that an append stops on a conflict.
3. `registry_merge_order`: `now()` is the time a transaction *began*, `clock_timestamp()` in
   the compaction is later.  A merge that waited behind a cutover loses against the older rows.
4. `publication_crash`: after a death between two books the heads differ, and the replay
   refuses before it looks for the prepared publication that a comment says a retry completes.
   A continuation (US only) does complete it, which is why `publication_race` passes.
5. `screening_preview_race`: the publisher of a preview retains the marks of the page it read,
   and a confirmed page that another publisher uploads after that read is replaced without.
   The docs promise it of whatever the preview replaces.  `PreviewKeepsMarks` is the part that
   holds: the page replaced is the page read.

### Bounds and why they are enough

- Approval: the conflicts are pairwise (two handlers on one proposal, a handler and a save,
  two approvals on one page), so two handlers and one writer meet every pair; the writer is
  reused, so sequences of saves occur up to `MaxRevision`.  One fault suffices to strand a
  claim and have it taken over, two to do so twice (`approval_recovery`).
- `MaxRevision` stops website writes only; approvals may go beyond it.
- Save transactions: five transactions cover both lock orders, each pair of kinds, and a
  takeover; each runs once.
- Registry: the two scenarios of `registry_compaction` share a run, not a behaviour; together
  all eight actors would only repeat pairs that each scenario has.  Two keys and two values are enough for an overlap that agrees and one that does
  not; `old1` and `old2` overlap so that order matters.
- Publication: two books are the least that can be unaligned, two days the least with a
  predecessor, two versions the least with a revision of the source.
- Daily publication: the pipelines write disjoint objects and read none of each other's, so
  one of them runs per behaviour; they share a run only to share its set-up.
  - What no property can tell apart is explored once: which of two equal runs, or of two settings
    of one code, comes first; time that passes while no journal run can look at the clock; and a
    run that fails when none may start after it, which is one that stops (`FailsInVain`).
  - Screening: two publications meet in every pair of kinds (scheduled, web, reuse, Drive),
    with a confirmed day, the preview of the next and the Drive file that confirms it; one
    registration makes the input of a build stale.  Registrations and open pages are explored
    in separate behaviours: a page compares its input with the active sources at the end.
  - Journal: three setups are one of the same code with other settings and one of other code,
    the two changes a rule can make; two sessions are the least with an older one; two runs are
    the least that overlap.  The journal begins on the first day before its close, and a day
    may end without its close having counted.  Each run reconstructs at most one session, so that the branch
    where its budget is used up and another session waits is not reached.
  - Series: the day before the correction, the correction, and one after; four runs allow an
    initialisation that dies, its retry, the correction and a later day.
  - Book: six sessions are onset, confirmation, entry, two held and an exit; one sector of two
    stocks with room for one makes entries wait.  Because both stocks share the sector, the cap
    on all positions never binds without that on the sector.
  - US: three days have a predecessor and a gap; two hashes are an input and its replacement;
    two corrections are an older and a newer one.
  - Evidence: one slot is missing at first and is prepared in two ways, which is a conflict in
    storage, in the outbox, or between them; three calls are a failed staging, a second analysis
    and the replay, or two replays racing after one.  The second day is closed in Korea, so its
    session rests on the first day's evidence.  Replays go as far as the calendar, since one that
    stops early is the start of one that fails or waits.  S07 is registered, O1 may be at any moment.
  - Allocation book: a month of two days gives two reviews, the first with orders that are not
    filled yet, the second with positions.  One stock in each sleeve, with quotes for onset,
    rise with a sell signal, halt, stop, forced exit and a missing US row; a size of one share
    makes every US order fill in parts.
- What TLC checks here on instances is proved for all of them where section 5 says so.

`CHECK_DEADLOCK FALSE` is set where the system may stop: all proposals are answered and
revisions used up, all transactions are over, all registrations are done.

## 4. Fairness

- Handlers run to an answer (WF): a started serverless request proceeds or dies (`Crash`).
- Leases end (WF): time passes.
- The owner confirms again what the inbox shows as PROCESSING (SF): the page offers it.  Only
  this retry is assumed, never a new proposal, a reject or a website save.  `ClaimsResolve`
  (run `approval_evidence`) needs the bound on website writes: an unbounded stream of saves could starve every
  compare-and-set.
- Transactions (WF on `Step`): the database runs every statement it can and aborts one of a
  deadlock; it need not start or interrupt any.
- Activations (SF on lock waits): PostgreSQL queues a waiting writer before later lockers.  Each
  activation takes each of its locks once, so strong fairness towards any is towards all.
- Shadow publication (WF): a started run proceeds, and runs start again: the publication routine
  calls the replay after each screening, a continuation is planned while books are behind.
  `PreparedCompletes` excepts decided days whose source was revised since, where the code
  refuses on purpose.

## 5. Proofs

Everything in the `*Proofs` modules is checked by TLAPS to the leaves.
The assumptions are the named `ASSUME`s on constants; TLC evaluates them in every run.

**Approval.**  `BaseInv` is
`TypeOK`, that every pending website edit was accepted for the copy it holds, and that each
book is mirrored: unique ids, live heads are exactly the executions, each chain carries its
own id, no chain before the first row.  Mirroring is not inductive alone: a stale write would
break it, so `RevisionNamesContent` is proved first; it turns the compare-and-set on the
revision into one on the content.  On top, proposal status is tied to chains, which gives
`RecordedWithJournal`, and `EvidenceInv` carries the guard across both books.  `StepKinds`
sorts every step into quiet ones, approvals, saves and first loads, so each property is proved
for four cases and not for twenty actions.  `ApprovalImplementsInbox` assumes
`LegacySaved = {}`: a fill the two-step protocol left behind was booked before it was approved.
`AnswersAreSo` adds what a handler knows at the step before it answers: a readback follows its
own commit, and RECORDED and REJECTED never change.  `NewSliceStaysWhole` assumes `NewPageOnly`:
only the new page's kinds of edit (or a refresh) are made, and the initial documents project.
Each save was checked in the copy it was made from, and the revision says that the copy is the
document.  Without the assumption it is false: an older page removes a buy that a sell of the
new page needs.  `approval_race` is an instance that meets it.

| theorem | property |
|---|---|
| `TypeCorrect` | `TypeOK` |
| `JournalMirrorsDocument` | `HeadsMatchDocument` |
| `RevisionNamesOneContent` | `RevisionNamesContent` |
| `OnlyTheHolderResolves`, `NoLostExecution`, `JournalAppendOnly` | `OnlyHolderResolves`, `OnlyRemovalDrops`, `JournalOnlyGrows` |
| `AnswersAreFinal` | `FinalStatus`, which no run checks by itself: `ImplementsInbox` implies it |
| `ApprovalIsBooked` | `RecordedWithJournal` |
| `EvidenceUsedOnce` | `OnePageOneExecution` |
| `AnswersAreSo` | `AnswersAreTrue` |
| `NewSliceStaysWhole` (with `NewPageOnly`) | `NewSliceProjects` |
| `ApprovalImplementsInbox` | refinement of `TradeInbox` |

**Save transactions.**  `LocksProtect` is inductive together with types and exclusive locks:
each checked fact is paired with the lock whose holder alone can falsify it.  From it follow
`EvidenceDisjoint` and the refinement of `AtomicSaves`: the only step that is not a stutter or
a refusal is the commit, where all checks still hold.

**Source registry.**  `RegistryInv` is types, `Times` (no activation time is later than
the clock), the life cycle of sources, and `Planned`: whatever a compaction planned stays true of the sources
it names, because an active source never changes its rows or its time.  Comparing ids and
times at the cutover therefore compares the datasets (`CutoverIsInvisible`).  Also
`TypeCorrect`, `OriginalsAreKept`, `NothingComesBack`.

**Shadow publication.**  `Inv` adds to the types: dates with rows are the first ones (else
`Through` has no meaning), books have no gaps, a prepared publication has a run for every
book, and what each run relies on by its step (`RunInv`): rows for every day of its batch,
heads that are recorded, all days before its own in every book, and, once it persists, that
it holds the prepared publication itself.  All of it survives other runs because prepared days and
stored sessions never change (`RunInvStays`).  `OneDecision` needs the last part,
`ProcessedIsRecorded` the others, and the absence of gaps needs `ProcessedIsRecorded`: they
are one induction.  Theorems `PublicationTypes`, `OneDecisionPerDay`, `DaysBeforeAreRecorded`,
`BooksHaveNoGaps`.

`PublicationImplementsBooks` is the refinement of `ShadowBooks`.  Its decisions are the history
stored in the prepared days, which means something only because of `HistoryInv`: days are
prepared in order, every book's entry of a prepared day is exactly the decisions up to it, and
what a run holds extends the decisions before its day by its own.  A `Stage` that prepares a day
is then `Decide`, an append of a session that was not there is `Record`, and every other step
leaves decisions and books alone.

**Signal journal.**  `JournalInv` is the types, that the activations begin at session 1, `JournalIsFaithful`, `CoverageNeverOverclaims`, and what each run
relies on by its step: rules it holds are activated, keys it found are completed, its sources
end no later than today and its calendar no earlier than yesterday, the sessions
it passed are pending or completed, and the value in hand is the one on file once the day is
written.  The rule in force is a CHOOSE: that a newest activation exists (`RuleExists`)
follows from the least element of a set of numbers.  All of it survives other runs because days,
archive, markers and rules only ever gain entries.

**Screening publication.**  `ScreeningInv` adds to the types and the properties what each
writer relies on by its step (`WriterRelies`): the records that earlier awaits of its kind have
put in place, the receipt a reuse has found, the head a Drive publication may advance.  "Earlier"
is the order of `Steps`, about which a few lemmas suffice; `MovesOn` then gives one argument for
every await: what the step provides (`Delivers`) is what later steps may rely on.  It survives
other writers because archive, receipts and marks only grow (`Grows`), and because only the
workflow group moves the head.  A browser is safe because the head never goes back and what is
shown matched it (`ShownIsCurrent`).

**Integrated allocation.**  `AllocationInv` adds to the types and the property what each call
relies on by its step (`Relies`): whatever it read as evidence is what storage has, and at the
append, that the attempt of this very session is recorded, that the session follows the head,
and that every slot it uses was read (`AllIsRead`, from the two guards on missing evidence).  It
survives other calls because storage and attempts only grow (`Grows`), which is where a restore
that used the outbox without putting it back would fail.

`AllocationImplementsBooks` is the refinement of `EvidenceBooks`: an object that appears in
storage is `Seal`, a registration `Open`, an append of a session that was not there `TakeDay`.
It needs more than the property: what is sealed was prepared for that very slot, wherever the
payload waited in between (`PreparedInv`: storage, outbox, the hands of a call, an upload under
way), and a replay at its append has found every slot its day waits for, not only those it
computes from (`NeededOn` in `Relies`).  What a book was computed from is then storage as it is
at the append, because storage never changes a slot it has.

**Allocation book** (`IntegratedAllocationProofs`).  A day is one step that folds five operators
over the stocks of a sleeve and then moves money between the sleeves.  `FoldPreserves` says that
a fold ends in a set G if its base is in G and every turn stays in G: taking G as a set, and not
as a predicate, is what makes a lemma about folds possible without an operator parameter.  That
the recursion of the fold has a solution at all is `FoldExists`, by the least cardinality for
which it has none.  G is `SleeveDay`: the states of a sleeve that satisfy `SleeveInv` and whose
cash differs from what was traded by what it was in the morning, so money is conserved through
each phase.  Each operator (`SoldStays`, `ExitedStays`, `EnteredStays`, `MarkedStays`,
`SignalledStays` ...) stays in it.  `SleeveInv` strengthens the policy: a Korean order is for a
stock that is not held, and an order's onset lies after every closed holding of its stock, or a
fill could open a window inside an earlier one.  The review is arithmetic on three markets: what is taken is idle
and above the share (`TakenAndLacking`), parts rounded down add up to no more than is paid
(`PartsOfPaid`), and a sale or purchase never overdraws because the fee is at most the amount
(`FeeBounds`, `AffordablePaid`).  `AllocationBookInv` was model-checked on the instance of
`daily_publication` before it was proved.

**KOSPI series** (`DailyPublicationProofs`).  `KospiInv` is about each series by itself
(`SeriesInv`: every stored day extends the snapshot of the day before by one input, the
projection is of a stored day and at most one day behind), about the two together
(`RevisionInv`: the order in which descriptor, registry, sessions and projection of the revised
series appear, and that the original has ended before the first of them), and about the run and
the browsers by their step.  The run needs it that no other run moves: `AppendRelies` says that
its snapshot is the next one of the series it extends, `CorrectionRelies` that the original
stays as it was.  A browser is safe because stored snapshots never change, and because it reads
the descriptor no earlier than the page was opened.

`KospiImplementsCorrectedSeries` is the refinement of `CorrectedSeries`, with the newest stored
snapshot of a series as the series and the snapshot of its projection as its page.  `KospiInv`
is enough for it: writing a dated session appends one input to the newest stored one
(`NextAppends`) or, on a retry, changes nothing; an inherited day of the revised series is the
next day of the original (`PartGrows`), because the days before it are there and none after it
is; and a projection that is written shows the newest stored session, which for the revised
series is never shorter than the original (`RevisedCovers`).  Registry and descriptor are
stutters.

**US screening** (same module).  `UsInv` says of every stored result that it comes from the
locked input of its day and that each of its prefixes is the recorded result of an earlier day,
that no day after the ingested one has been begun, and what run and pages rely on.  A retry
computes the result of a day a second time, from an ingest that was replaced in the meantime;
it is the first one that counts because what is stored of a day never changes (`RecordsKept`).

`UsImplementsDatedResults` is the refinement of `DatedResults`: a result counts once its day is
in the history, so `InsertHistory` is `Record`, the writes of latest page and view are `Show`,
the pointer is `Correct`.  A page goes forward only because the run that writes it is of the
newest recorded day (`RunShowsNewest`).  For the pointer `CorrectionInv` is added: the correction
under way is later than the published one, after a recorded day and, once rechecked, of the
newest recorded day.  It survives every step of the collector, because neither records nor
pointer depend on the ingest, and there is no other run in the workflow group.

**KOSPI book** (same module).  `BookInv` has the caps, the orders as a function of the positions
and of the crossings seen, the candidates with their onset and confirmation behind them and not
bought yet, and the fills.  One session is one step of many phases, so the proof follows a
session through them: what is left after the opening sales, what fits below the caps, and which
positions the close turns into orders.

| theorem | property |
|---|---|
| `KospiReplays`, `KospiReadersSeeWhole` | `KospiSeriesReplay`, `ReaderSeesWholeSeries` |
| `UsAgrees` | `UsPublicationAgrees` |
| `BookIsSound` | `KospiBookIsSound` |
| `KospiImplementsCorrectedSeries`, `UsImplementsDatedResults` | parts of `PipelinesImplement` |
| `KospiTypes`, `UsTypes`, `BookTypes` | parts of `PipelinesTypeOK` |

Three assumptions on constants came with these proofs: a market lists finitely many stocks
(`ListedIn`), the empty value is no hash (`Blank \notin Hashes`), and a position is held for some session (`MaxHoldingSessions > 0`; the
code has 60), since one that had expired when it was bought would have no order if the day has
no close.

| theorem | property |
|---|---|
| `JournalStaysFaithful`, `CoverageIsSupported`, `OlderSessionsAreLeftAlone` | `JournalIsFaithful`, `CoverageNeverOverclaims`, `OlderSessionsKeepTheirRule` |
| `RecordsAgree`, `BrowsersNeverGoBack`, `MarksOutliveThePage` | `PublicationRecordsAgree`, `NoOlderGeneration`, `PreviewKeepsMarks` |
| `BooksRestOnStorage` | `BooksUseStoredEvidence` |
| `AllocationBookStaysSound` | `AllocationBookIsSound` |
| `AllocationImplementsBooks` | part of `PipelinesImplement` |
| `JournalTypes`, `ScreeningTypes`, `AllocationTypes`, `AllocationBookTypes` | parts of `PipelinesTypeOK` |

The theorems about the daily modules are about the specification of each (`JournalSpec`,
`ScreeningSpec`, `AllocationSpec`, `AllocationBookSpec`, `KospiSpec`, `UsSpec`, `BookSpec`), for
any number of writers, browsers, sources, sessions, days and evidence.

**The pipelines together** (`MCDailyPublicationProofs`).  The run checks `PipelinesSpec`, whose
initial states are those of all seven modules and whose steps are steps of one of them that
leave the variables of the others unchanged.  That the pipelines do not interfere is how this
specification is written, from the storage paths and tables of the code, and not a result: the
lemma `EachModuleRuns` only carries the theorems of the modules over to it, and the run explores
one pipeline per behaviour because of it.  With them follow

| theorem | property |
|---|---|
| `PipelinesTypes` | `PipelinesTypeOK` |
| `PipelinesRefine` | `PipelinesImplement` |

**Only model-checked.**  All liveness (`ClaimsResolve`, `TransactionsEnd`, `ActivationsEnd`,
`PreparedCompletes`) and everything with ENABLED, which the prover does not do.
The five properties of the violation runs are false and so have no proof.  The types of the
source registry are the other way round: `TypeCorrect` proves them for every instance, and no
run repeats it.  What a fold
computes is proved only where a claim needs it: the value of what is held and the need of the
orders are known to be numbers, and sums of shares are opaque elsewhere, since the library has
no induction that can be instantiated here.

## 6. Not modelled

- The reviewed events of the canonical journal: planned, below.
- Integrated allocation: cost bases, exchange rates, new-year sizing, clocks and cut-offs, the
  rows of failed and superseded attempts, the caps of positions and sectors (in the quote), the
  adapters that turn evidence into quotes, gap recovery and its read-only reconciliation.
- US operating portfolio: every entry point refuses sessions from 2026-10-12 on
  (`assertLegacyUsRecoveryDate`), so only historical repairs still run it.
- Entry decisions are one row with a revision and a compare-and-set on it, the protocol
  `TradeApproval` already has; the simulated portfolio of the browser is superseded by the
  model series; derived views are recomputed from the books.
- Screening publication: chart and instrument caches, raw and legacy uploads, the evidence of
  the publication contract; the initial status that a scheduled run saves once before
  `Mark`.  The US journal is the KR journal over other objects and not a second model.
- KOSPI: cash, shares, fees and statistics of the book; what late recovery and retrospective
  apply check about their inputs before they publish like any other run.
- Shadow publication: reconciliation of revised KR history, vintage corrections, the daily input
  archive, contracts and clocks, audit rows, rank-state artifacts, calendar gaps.
- Registry: the legacy `kr.json`, back-test sources, several candidates per
  compaction, field-level enrichment, deferral by publication contracts.
- Scoring, indicators, back tests, parsing and the user interface.  They are most of the
  repository's lines: back tests and research scripts are batch numerics over floating-point
  series without state that outlives a call, pages render what the servers answer, one-off
  repairs ran once.  None has a protocol, and a translation of their arithmetic would show
  nothing a unit test does not.  The share of lines the models stand for is therefore small,
  and it is the share that keeps state.  Collectors are external inputs.

## 7. Plan

Done, in order of importance: approval with documents and journal; save transactions; source
registry; shadow publication; daily publication (KR screening, signal journal, KOSPI series and
book, US screening, integrated allocation); an abstract specification of every component that
writes in several steps and is read in between, except the source registry, the screening
publication and the signal journal; proofs as section 5 says: every safety property the passing runs check is a theorem.
Next:

1. The reviewed-event append on the canonical journal.
2. Abstract specifications of the source registry, the screening publication and the signal
   journal.
3. `projectNewActualPool` as a pure function against a reference definition.

Each new module gets a race run, a recovery run where something can die, and a proof module
for its safety invariants; runs that answer the same question are merged.
