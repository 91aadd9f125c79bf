----------------------- MODULE MCDailyPublicationProofs -----------------------
(***************************************************************************)
(* Proofs about the daily publications as MCDailyPublication puts them     *)
(* together: what is proved of the modules one by one holds of the whole.  *)
(***************************************************************************)
EXTENDS MCDailyPublication, ScreeningPublicationProofs, DailyPublicationProofs,
  IntegratedAllocationProofs

Pipelines == {"screening", "pages", "journal", "series", "book", "us", "evidence", "allocation"}

\* They start together, each as its module says.
LEMMA EachStarts ==
  PipelinesInit =>
    /\ pipeline \in Pipelines
    /\ ScreeningInit /\ JournalInit /\ KospiInit /\ BookInit /\ UsInit
    /\ AllocationInit /\ AllocationBookInit
BY DEF PipelinesInit, Pipelines

\* A step of the pipelines is a step of one module and a stutter of the others.
LEMMA OneSteps ==
  ASSUME PipelinesNext
  PROVE  /\ UNCHANGED pipeline
         /\ [ScreeningNext]_screeningVars /\ [JournalNext]_journalVars
         /\ [KospiNext]_kospiVars /\ [BookNext]_bookVars /\ [UsNext]_usVars
         /\ [AllocationNext]_allocationVars /\ [AllocationBookNext]_allocationBookVars
BY DEF PipelinesNext

LEMMA EachSteps ==
  [PipelinesNext]_allVars =>
    /\ UNCHANGED pipeline
    /\ [ScreeningNext]_screeningVars /\ [JournalNext]_journalVars
    /\ [KospiNext]_kospiVars /\ [BookNext]_bookVars /\ [UsNext]_usVars
    /\ [AllocationNext]_allocationVars /\ [AllocationBookNext]_allocationBookVars
<1>1. CASE PipelinesNext
  BY <1>1, OneSteps
<1>2. CASE UNCHANGED allVars
  BY <1>2 DEF allVars
<1> QED
  BY <1>1, <1>2

\* Whatever pipeline runs, every module sees a behaviour of its own, because
\* that is how the pipelines are put together.
LEMMA EachModuleRuns ==
  PipelinesSpec =>
    /\ ScreeningSpec /\ JournalSpec /\ KospiSpec /\ BookSpec /\ UsSpec
    /\ AllocationSpec /\ AllocationBookSpec
BY EachStarts, EachSteps, PTL
   DEF PipelinesSpec, ScreeningSpec, JournalSpec, KospiSpec, BookSpec, UsSpec,
       AllocationSpec, AllocationBookSpec

\* The variables of every daily publication keep their types, for any
\* instance of its constants, whichever of them runs.
THEOREM PipelinesTypes == PipelinesSpec => []PipelinesTypeOK
<1>1. pipeline \in Pipelines /\ UNCHANGED pipeline => (pipeline \in Pipelines)'
  OBVIOUS
<1>2. PipelinesSpec => [](pipeline \in Pipelines)
  BY <1>1, EachStarts, EachSteps, PTL DEF PipelinesSpec
<1>3. /\ pipeline \in Pipelines
      /\ ScreeningTypeOK /\ JournalTypeOK /\ KospiTypeOK /\ BookTypeOK /\ UsTypeOK
      /\ AllocationTypeOK /\ AllocationBookTypeOK
      => PipelinesTypeOK
  BY DEF Pipelines, PipelinesTypeOK
<1> QED
  BY <1>2, <1>3, EachModuleRuns, ScreeningTypes, JournalTypes, KospiTypes, BookTypes,
     UsTypes, AllocationTypes, AllocationBookTypes, PTL

\* What the KOSPI runs, the US screening and the evidence staging put object by
\* object, dying anywhere and starting over, does what the corrected series,
\* the dated results and the evidence books promise, whichever of them runs.
THEOREM PipelinesRefine == PipelinesSpec => PipelinesImplement
BY EachModuleRuns, KospiImplementsCorrectedSeries, UsImplementsDatedResults,
   AllocationImplementsBooks, PTL DEF PipelinesImplement
=============================================================================
