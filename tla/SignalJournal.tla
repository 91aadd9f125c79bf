---------------------------- MODULE SignalJournal ----------------------------
(***************************************************************************)
(* The immutable journal of daily signals.  Every publication of the       *)
(* screening catches up with all sessions since the journal began: it      *)
(* activates the rule it runs under, then records each session that its    *)
(* rule in force has not completed, as observed or reconstructed.  Any     *)
(* number of runs, of different code and settings, overlap and fail        *)
(* between their awaits; objects are written once, the coverage is not.    *)
(*                                                                         *)
(* Data abstraction.  A rule is named by its setup, code and settings; a   *)
(* result by the setup that computed it, the last session of the sources   *)
(* it was computed from, and whether it was observed or reconstructed.     *)
(***************************************************************************)
EXTENDS Naturals, FiniteSets

CONSTANTS
  JournalRuns,        \* concurrent publications
  Setups,             \* [code, config] that runs may be deployed with
  LastSession,        \* sessions 1 .. LastSession since SIGNAL_JOURNAL_START
  MaxReconstructions, \* sessions that one run reconstructs
  MaxJournalStarts    \* bound: publications

Sessions == 1 .. LastSession

ASSUME JournalAssumption ==
  /\ LastSession \in Nat \ {0} /\ MaxReconstructions \in Nat /\ MaxJournalStarts \in Nat
  /\ \A s \in Setups : s = [code |-> s.code, config |-> s.config]

VARIABLES
  over,        \* sessions that signalSessionCalendar counts as over
  today,       \* the session of the day in the market's time zone
  rules,       \* activations
  days,        \* result of each session and rule, or nothing
  runArchive,  \* screening_run_archive under signal-KR-<session>-<rule>
  completed,   \* completion markers
  coverage,    \* coverage.json
  catchUp,     \* progress and locals of each run
  starts

signalObjects == <<rules, days, runArchive, completed, coverage>>
journalVars == <<over, today, signalObjects, catchUp, starts>>

Nothing == [kind |-> "none"]
Result(setup, through, kind) == [kind |-> kind, setup |-> setup, through |-> through]

\* ruleAt: the activation in force on a session, newest registration first.
InForce(known, d) == {r \in known : r.from <= d}
RuleAt(known, d) ==
  CHOOSE r \in InForce(known, d) :
    \A o \in InForce(known, d) : o.from < r.from \/ (o.from = r.from /\ o.at <= r.at)

Latest(known, d) == IF InForce(known, d) = {} THEN Nothing ELSE RuleAt(known, d).setup

NoCatchUp == [pc |-> "idle"]

JournalInit ==
  /\ over = 0 /\ today = 1
  /\ rules = {} /\ completed = {}
  /\ days = [d \in Sessions |-> [s \in Setups |-> Nothing]]
  /\ runArchive = days
  /\ coverage = [through |-> 0, pending |-> {}]
  /\ catchUp = [r \in JournalRuns |-> NoCatchUp] /\ starts = 0

JournalAt(r, pc) == catchUp[r].pc = pc
CatchUpTo(r, pc) == catchUp' = [catchUp EXCEPT ![r].pc = pc]
CatchUpEnds(r) == catchUp' = [catchUp EXCEPT ![r] = NoCatchUp]
ObjectsStay == UNCHANGED <<over, today, signalObjects, starts>>

\* "Past sessions are over regardless of their special close hour."
NextDay ==
  /\ today < LastSession
  /\ today' = today + 1 /\ over' = today
  /\ UNCHANGED <<signalObjects, catchUp, starts>>

\* Today's session counts once its close has passed, and never does on a day
\* whose special hours are not confirmed.
SessionCloses ==
  /\ over' = today /\ over < today
  /\ UNCHANGED <<today, signalObjects, catchUp, starts>>

\* A run publishes the screen of a session, which need not be over, from
\* sources that may have gaps; its clock is read here, and an activation is
\* registered with it.
StartCatchUp(r, setup, asOf, traded) ==
  /\ JournalAt(r, "idle")
  /\ starts < MaxJournalStarts /\ starts' = starts + 1
  /\ asOf \in 1 .. today /\ traded \subseteq 1 .. asOf /\ asOf \in traded
  /\ catchUp' = [catchUp EXCEPT ![r] =
       [pc |-> "rules", setup |-> setup, traded |-> traded, asOf |-> asOf,
        on |-> today, at |-> starts + 1, known |-> {}, done |-> {}, to |-> 0, date |-> 1,
        pending |-> {}, reconstructed |-> 0, optional |-> FALSE, value |-> Nothing]]
  /\ UNCHANGED <<over, today, signalObjects>>

LoadRules(r) ==
  /\ JournalAt(r, "rules")
  /\ catchUp' = [catchUp EXCEPT ![r] = [@ EXCEPT !.known = rules,
       !.pc = IF Latest(rules, catchUp[r].on) = catchUp[r].setup THEN "keys" ELSE "activate"]]
  /\ ObjectsStay

\* Mutant: every activation takes effect at the start of the journal.
ActivationFromStart(r) == [setup |-> catchUp[r].setup, from |-> 1, at |-> catchUp[r].at]

\* "Backfill never applies a newly activated rule to older sessions."
Activation(r) ==
  [setup |-> catchUp[r].setup, from |-> IF catchUp[r].known = {} THEN 1 ELSE catchUp[r].on,
   at |-> catchUp[r].at]

Activate(r) ==
  /\ JournalAt(r, "activate")
  /\ rules' = rules \cup {Activation(r)}
  /\ catchUp' = [catchUp EXCEPT ![r] = [@ EXCEPT !.pc = "keys",
                                             !.known = catchUp[r].known \cup {Activation(r)}]]
  /\ UNCHANGED <<over, today, days, runArchive, completed, coverage, starts>>

\* signalSessionCalendar and completedSignalKeys
LoadCompleted(r) ==
  /\ JournalAt(r, "keys")
  /\ catchUp' = [catchUp EXCEPT ![r] = [@ EXCEPT !.pc = "session", !.done = completed, !.to = over]]
  /\ ObjectsStay

-----------------------------------------------------------------------------
(* One session.                                                            *)

Rule(r) == RuleAt(catchUp[r].known, catchUp[r].date).setup
Key(r) == <<catchUp[r].date, Rule(r)>>

Skip(r) ==
  catchUp' = [catchUp EXCEPT ![r] = [@ EXCEPT !.date = catchUp[r].date + 1, !.pc = "session"]]
Wait(r) ==
  catchUp' = [catchUp EXCEPT ![r] =
    [@ EXCEPT !.date = catchUp[r].date + 1, !.pc = "session",
              !.pending = catchUp[r].pending \cup {catchUp[r].date}]]

\* An optional record may fail without ending the run.
RecordAs(r, value, optional) ==
  catchUp' = [catchUp EXCEPT ![r] =
    [@ EXCEPT !.pc = "day", !.value = value, !.optional = optional,
              !.reconstructed = catchUp[r].reconstructed + (IF optional THEN 1 ELSE 0)]]

AlreadyCompleted(r) ==
  /\ JournalAt(r, "session") /\ catchUp[r].date <= catchUp[r].to
  /\ Key(r) \in catchUp[r].done
  /\ Skip(r)
  /\ ObjectsStay

\* The run has the code of the rule in force and the data of the session.
Computable(r) ==
  /\ Rule(r).code = catchUp[r].setup.code
  /\ catchUp[r].date \in catchUp[r].traded

\* A day that is already there is recorded again as it is; otherwise the
\* present session is observed and a few earlier ones are reconstructed with
\* the settings of their rule.
ReadDay(r) ==
  LET run == catchUp[r]
      saved == days[run.date][Rule(r)] IN
  /\ JournalAt(r, "session") /\ run.date <= run.to
  /\ Key(r) \notin run.done
  /\ IF saved # Nothing THEN RecordAs(r, saved, FALSE)
     ELSE IF ~Computable(r) THEN Wait(r)
     ELSE IF run.date = run.asOf /\ Rule(r) = run.setup
     THEN RecordAs(r, Result(run.setup, run.asOf, "OBSERVED"), FALSE)
     ELSE IF run.reconstructed >= MaxReconstructions THEN Wait(r)
     ELSE RecordAs(r, Result([code |-> run.setup.code, config |-> Rule(r).config],
                             run.asOf, "RECONSTRUCTED"), TRUE)
  /\ ObjectsStay

\* Mutant: the day is overwritten.
OverwriteDay(r) ==
  LET run == catchUp[r] IN
  /\ JournalAt(r, "day")
  /\ days' = [days EXCEPT ![run.date][Rule(r)] = run.value]
  /\ CatchUpTo(r, "archive")
  /\ UNCHANGED <<over, today, rules, runArchive, completed, coverage, starts>>

\* recordSignal: the day is written once and read back, whoever wrote it.
WriteDay(r) ==
  LET run == catchUp[r]
      saved == IF days[run.date][Rule(r)] = Nothing THEN run.value ELSE days[run.date][Rule(r)] IN
  /\ JournalAt(r, "day")
  /\ days' = [days EXCEPT ![run.date][Rule(r)] = saved]
  /\ catchUp' = [catchUp EXCEPT ![r] = [@ EXCEPT !.pc = "archive", !.value = saved]]
  /\ UNCHANGED <<over, today, rules, runArchive, completed, coverage, starts>>

\* Mutant: a reconstruction that failed is passed over.
FailedIsPassedOver(r) ==
  /\ catchUp[r].pc \in {"day", "archive", "marker"}
  /\ catchUp[r].optional
  /\ Skip(r)
  /\ ObjectsStay

\* An error while an earlier session is reconstructed only leaves it pending.
ReconstructionFails(r) ==
  /\ catchUp[r].pc \in {"day", "archive", "marker"}
  /\ catchUp[r].optional
  /\ Wait(r)
  /\ ObjectsStay

\* The first result under a run id stays; another one is an error.
ArchiveDay(r) ==
  LET run == catchUp[r]
      kept == runArchive[run.date][Rule(r)] IN
  /\ JournalAt(r, "archive") /\ kept \in {Nothing, run.value}
  /\ runArchive' = [runArchive EXCEPT ![run.date][Rule(r)] = run.value]
  /\ CatchUpTo(r, "marker")
  /\ UNCHANGED <<over, today, rules, days, completed, coverage, starts>>

\* Mutant: the markers are one list, written back as it was read.
MarkInList(r) ==
  /\ JournalAt(r, "marker")
  /\ completed' = catchUp[r].done \cup {Key(r)}
  /\ catchUp' = [catchUp EXCEPT ![r] =
       [@ EXCEPT !.date = catchUp[r].date + 1, !.pc = "session", !.value = Nothing]]
  /\ UNCHANGED <<over, today, rules, days, runArchive, coverage, starts>>

MarkCompleted(r) ==
  /\ JournalAt(r, "marker")
  /\ completed' = completed \cup {Key(r)}
  /\ catchUp' = [catchUp EXCEPT ![r] =
       [@ EXCEPT !.date = catchUp[r].date + 1, !.pc = "session", !.value = Nothing]]
  /\ UNCHANGED <<over, today, rules, days, runArchive, coverage, starts>>

SaveCoverage(r) ==
  /\ JournalAt(r, "session") /\ catchUp[r].date > catchUp[r].to
  /\ coverage' = [through |-> catchUp[r].asOf, pending |-> catchUp[r].pending]
  /\ CatchUpEnds(r)
  /\ UNCHANGED <<over, today, rules, days, runArchive, completed, starts>>

\* Any other error, a time-out or the end of the process.
JournalFail(r) ==
  /\ ~JournalAt(r, "idle")
  /\ CatchUpEnds(r)
  /\ ObjectsStay

JournalNext ==
  \/ NextDay \/ SessionCloses
  \/ \E r \in JournalRuns :
       \/ \E setup \in Setups, asOf \in Sessions, traded \in SUBSET Sessions :
            StartCatchUp(r, setup, asOf, traded)
       \/ LoadRules(r) \/ Activate(r) \/ LoadCompleted(r)
       \/ AlreadyCompleted(r) \/ ReadDay(r) \/ WriteDay(r) \/ ArchiveDay(r) \/ MarkCompleted(r)
       \/ ReconstructionFails(r) \/ SaveCoverage(r) \/ JournalFail(r)

JournalSpec == JournalInit /\ [][JournalNext]_journalVars

-----------------------------------------------------------------------------
(* Types and safety.                                                       *)

Results ==
  {Nothing} \cup
  [kind : {"OBSERVED", "RECONSTRUCTED"}, setup : Setups, through : Sessions]

\* The type invariant of the signal journal.
JournalTypeOK ==
  /\ over \in 0 .. LastSession /\ today \in Sessions /\ starts \in 0 .. MaxJournalStarts
  /\ rules \subseteq [setup : Setups, from : Sessions, at : 1 .. MaxJournalStarts]
  /\ days \in [Sessions -> [Setups -> Results]]
  /\ runArchive \in [Sessions -> [Setups -> Results]]
  /\ completed \subseteq Sessions \X Setups
  /\ coverage.through \in 0 .. LastSession /\ coverage.pending \subseteq Sessions
  /\ \A r \in JournalRuns :
       catchUp[r] = NoCatchUp \/
       /\ catchUp[r].setup \in Setups /\ catchUp[r].value \in Results
       /\ catchUp[r].known \subseteq rules /\ catchUp[r].done \subseteq completed
       /\ catchUp[r].date \in 1 .. LastSession + 1
       /\ catchUp[r].reconstructed \in 0 .. MaxReconstructions

\* A recorded session is the work of the very rule it is filed under, from
\* sources that reach it, and called observed only when they end with it;
\* that rule was activated for it.  The archive holds the same first result,
\* and a completion marker is there only with both: although overlapping runs
\* of other code and settings record the same session and fail in between.
JournalIsFaithful ==
  \A d \in Sessions, s \in Setups :
    LET saved == days[d][s] IN
    /\ saved # Nothing =>
         /\ saved.setup = s /\ d <= saved.through
         /\ saved.kind = "OBSERVED" => saved.through = d
         /\ \E a \in rules : a.setup = s /\ a.from <= d
    /\ runArchive[d][s] \in {Nothing, saved}
    /\ <<d, s>> \in completed => saved # Nothing /\ runArchive[d][s] = saved

Accounted(d) == d \in coverage.pending \/ \E s \in Setups : <<d, s>> \in completed

\* The coverage is overwritten by every run that gets to its end, also by an
\* older or an overtaken one, and its day may be a session that is still open
\* and that no list names.  Still each session before its day is listed as
\* pending or completed under some rule, and a run that writes the coverage
\* has accounted for every session that was over when it read the calendar,
\* those after the day of its sources too.
CoverageNeverOverclaims ==
  /\ [](\A d \in 1 .. coverage.through - 1 : Accounted(d))
  /\ [][\A r \in JournalRuns :
          JournalAt(r, "session") /\ catchUp'[r] # catchUp[r] /\ coverage' # coverage
          => \A d \in 1 .. catchUp[r].to : Accounted(d)']_journalVars

\* "Backfill never applies a newly activated rule to older sessions": a run
\* that knew a rule activates another one without changing the rule in force
\* on any session before its own day, however late the activation is written.
OlderSessionsKeepTheirRule ==
  [][\A r \in JournalRuns :
       rules' # rules /\ JournalAt(r, "activate") /\ catchUp'[r] # catchUp[r]
         /\ catchUp[r].known # {}
       => \A d \in 1 .. catchUp[r].on - 1 : Latest(rules', d) = Latest(rules, d)]_journalVars
=============================================================================
