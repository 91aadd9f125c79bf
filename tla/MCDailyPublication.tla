-------------------------- MODULE MCDailyPublication --------------------------
(* The daily publications of one owner: the KR screening, its signal        *)
(* journal, the KOSPI series and its model book, the US screening, and the  *)
(* evidence and the books of the integrated allocation.                     *)
(* They write different objects and read none of each other's, so a         *)
(* behaviour runs one of them while the others stay as they began.  The     *)
(* screening runs either while its sources are registered anew, or while    *)
(* pages are open.                                                          *)
EXTENDS MCScreeningPublication, SignalJournal, KospiShadowStore, KospiBook, UsScreening,
  IntegratedAllocation, AllocationBook

CONSTANTS page1, job1, job2, reader1, traded, rival, x, y,
  run1, run2, stock, etf, share

VARIABLE pipeline
allVars == <<pipeline, screeningVars, journalVars, kospiVars, bookVars, usVars,
             allocationVars, allocationBookVars>>

\* The one evidence that is not in storage yet.
LateUsDay == <<"US", 1>>

PipelinesInit ==
  /\ pipeline \in {"screening", "pages", "journal", "series", "book", "us", "evidence", "allocation"}
  /\ ScreeningInit /\ JournalInit /\ KospiInit /\ BookInit /\ UsInit
  /\ registered = {"S07"} /\ stored = [s \in EvidenceSlots |-> IF s = LateUsDay THEN NoEvidence ELSE x]
  /\ AllocationInit /\ AllocationBookInit
  /\ active = 1
  /\ pipeline # "series" => original = EmptySeries
  /\ pipeline # "allocation" => kind = "S07"
  /\ pipeline # "book" => unified /\ previousRows = [s \in Stocks |-> NoRow]

\* Of two runs the first to start is job1, or run1: they have no other difference.
BothIdle == \A r \in JournalRuns : JournalAt(r, "idle")
BothResting == \A r \in AllocationRuns : InStep(r, "idle")
\* Only a run that starts or reads its calendar looks at the clock: time may
\* wait for the next of them.
ClockIsRead ==
  \E r \in JournalRuns :
    JournalAt(r, "keys") \/ (JournalAt(r, "idle") /\ starts < MaxJournalStarts)
\* The two settings of one code have no other difference: the first run has one.
FirstSetup == (starts = 0 /\ starts' = 1) => catchUp'[job1].setup.config = 1
\* A publication that fails when none may start after it only stops.
FailsInVain ==
  \/ builds = MaxBuilds /\ Fail(Workflow)
  \/ starts = MaxJournalStarts /\ \E r \in JournalRuns : JournalFail(r)
  \/ kospiRuns = MaxKospiRuns /\ KospiRunFails
  \/ usRuns = MaxUsRuns /\ UsRunFails
  \/ allocationStarts = MaxAllocationStarts /\ \E r \in AllocationRuns : AllocationFails(r)
\* What is in storage is not prepared again: that ends without a write.
OnlyLateIsStaged == \A r \in AllocationRuns : run[r].slot \in {<<>>, LateUsDay}
\* A replay that stops early is the start of one that fails or has to wait.
ReplaysGoThrough == \A r \in AllocationRuns : run[r].through \in {0, Len(MarketsDue)}

PipelinesNext ==
  /\ UNCHANGED pipeline
  /\ \/ /\ pipeline \in {"screening", "pages"} /\ ScreeningNext
        /\ UNCHANGED IF pipeline = "pages" THEN registrations ELSE browser
        /\ UNCHANGED <<journalVars, kospiVars, bookVars, usVars, allocationVars,
                       allocationBookVars>>
     \/ /\ pipeline = "journal" /\ JournalNext
        /\ BothIdle => catchUp'[job2] = catchUp[job2]
        /\ ~ClockIsRead => UNCHANGED <<today, over>>
        /\ FirstSetup
        /\ UNCHANGED <<screeningVars, kospiVars, bookVars, usVars, allocationVars,
                       allocationBookVars>>
     \/ /\ pipeline = "series" /\ KospiNext
        /\ UNCHANGED <<screeningVars, journalVars, bookVars, usVars, allocationVars,
                       allocationBookVars>>
     \/ /\ pipeline = "book" /\ BookNext
        /\ UNCHANGED <<screeningVars, journalVars, kospiVars, usVars, allocationVars,
                       allocationBookVars>>
     \/ /\ pipeline = "us" /\ UsNext
        /\ UNCHANGED <<screeningVars, journalVars, kospiVars, bookVars, allocationVars,
                       allocationBookVars>>
     \/ /\ pipeline = "evidence" /\ AllocationNext
        /\ (OnlyLateIsStaged /\ ReplaysGoThrough)'
        /\ BothResting => run'[run2] = run[run2]
        /\ UNCHANGED <<screeningVars, journalVars, kospiVars, bookVars, usVars, allocationBookVars>>
     \/ /\ pipeline = "allocation" /\ AllocationBookNext
        /\ UNCHANGED <<screeningVars, journalVars, kospiVars, bookVars, usVars, allocationVars>>
  /\ ~FailsInVain

PipelinesSpec == PipelinesInit /\ [][PipelinesNext]_allVars

\* The type invariants of the seven modules, each where its variables change.
PipelinesTypeOK ==
  CASE pipeline \in {"screening", "pages"} -> ScreeningTypeOK
    [] pipeline = "journal" -> JournalTypeOK
    [] pipeline = "series" -> KospiTypeOK
    [] pipeline = "book" -> BookTypeOK
    [] pipeline = "us" -> UsTypeOK
    [] pipeline = "evidence" -> AllocationTypeOK
    [] pipeline = "allocation" -> AllocationBookTypeOK

\* What the publications put object by object, each does as if in one step.
PipelinesImplement ==
  ImplementsCorrectedSeries /\ ImplementsDatedResults /\ ImplementsEvidenceBooks

-----------------------------------------------------------------------------
(* The small instances.                                                    *)

Setup(code, config) == [code |-> code, config |-> config]
ThreeSetups == {Setup(1, 1), Setup(1, 2), Setup(2, 1)}

TwoSourceSets == {1, 2}

Row(score, volume, rising) ==
  [score |-> score, open |-> TRUE, volume |-> volume, close |-> TRUE, observed |-> volume,
   eligible |-> TRUE, fit |-> TRUE, rising |-> rising]

\* One stock goes through every score and a halt; the other takes its room.
TwoStocks ==
  [s \in {traded, rival} |->
     IF s = traded THEN {Row(1, TRUE, TRUE), Row(2, TRUE, FALSE), Row(3, TRUE, TRUE), Row(2, FALSE, TRUE)}
     ELSE {Row(1, TRUE, TRUE), Row(2, TRUE, TRUE)}]
OneSector == [s \in {traded, rival} |-> 1]

\* The evidence of LateUsDay is still to be prepared, in two ways.
TwoUsDays == <<{"KR", "US"}, {"US"}>>
UsDiffers == [m \in {"KR", "US"} |-> IF m = "US" THEN {x, y} ELSE {x}]

OneEach == [m \in Sleeves |-> CASE m = "K" -> {stock} [] m = "E" -> {etf} [] m = "U" -> {share}]
Quote(open, close, onset, sell) ==
  [open |-> open, close |-> close, entry |-> TRUE, onset |-> onset, confirmed |-> onset, sell |-> sell,
   stop |-> FALSE, forcedOpen |-> 0, forcedClose |-> 0, size |-> 1]
\* A halt of the stock, a stop and a forced exit of the ETF, and a US share that
\* leaves its universe.
AllocationQuotes ==
  [s \in Listed |->
     CASE s = stock -> {Quote(5, 5, TRUE, FALSE), Quote(7, 7, FALSE, TRUE), Quote(0, 6, FALSE, FALSE)}
       [] s = etf -> {Quote(5, 5, TRUE, FALSE), [Quote(3, 3, FALSE, FALSE) EXCEPT !.stop = TRUE],
                      [Quote(0, 0, FALSE, FALSE) EXCEPT !.forcedClose = 4]}
       [] s = share -> {Quote(5, 5, TRUE, FALSE), Quote(0, 0, FALSE, TRUE)}]
UsOnTheDay == [s \in Listed |-> IF s = share THEN 0 ELSE 1]
WholeEtf == [m \in Sleeves |-> IF m = "E" THEN 1 ELSE 2]
=============================================================================
