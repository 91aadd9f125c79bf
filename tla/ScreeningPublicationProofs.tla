---------------------- MODULE ScreeningPublicationProofs ----------------------
(***************************************************************************)
(* Proofs about the publication of the daily screening, for any number of  *)
(* web builds, browsers, source versions and Drive files: the records of a *)
(* publication agree, a browser never goes back a generation, and a        *)
(* preview keeps the confirmed marks; and about the signal journal, for    *)
(* any setups, sessions and runs: what it records is faithful to its rule, *)
(* its coverage hides no session before its own day, and a new rule leaves *)
(* older ones alone.                                                       *)
(***************************************************************************)
EXTENDS ScreeningPublication, SignalJournal, WellFoundedInduction, TLAPS

BuildKinds == {"cli", "web", "reuse", "drive"}

-----------------------------------------------------------------------------
(* The order of the awaits.                                                *)

In(kind, phase, s) == \E i \in DOMAIN Steps(kind, phase) : Steps(kind, phase)[i] = s

Before(kind, phase, s, t) ==
  \E i, j \in DOMAIN Steps(kind, phase) :
    i < j /\ Steps(kind, phase)[i] = s /\ Steps(kind, phase)[j] = t

LEMMA StepsAreSequences ==
  ASSUME NEW kind \in BuildKinds, NEW phase
  PROVE  Steps(kind, phase) \in Seq(StepNames)
<1>1. CASE kind = "cli" /\ phase = "FINAL"
  BY <1>1 DEF Steps, StepNames
<1>2. CASE kind = "cli" /\ phase # "FINAL"
  BY <1>2 DEF Steps, StepNames
<1>3. CASE kind = "web" /\ phase = "FINAL"
  BY <1>3 DEF Steps, StepNames
<1>4. CASE kind = "web" /\ phase # "FINAL"
  BY <1>4 DEF Steps, StepNames
<1>5. CASE kind = "reuse"
  BY <1>5 DEF Steps, StepNames
<1>6. CASE kind = "drive" /\ phase = "FINAL"
  BY <1>6 DEF Steps, StepNames
<1>7. CASE kind = "drive" /\ phase # "FINAL"
  BY <1>7 DEF Steps, StepNames
<1> QED
  BY <1>1, <1>2, <1>3, <1>4, <1>5, <1>6, <1>7 DEF BuildKinds

LEMMA StepsAreDistinct ==
  ASSUME NEW kind \in BuildKinds, NEW phase
  PROVE  \A i, j \in DOMAIN Steps(kind, phase) :
           Steps(kind, phase)[i] = Steps(kind, phase)[j] => i = j
  BY DEF Steps, BuildKinds

\* What the steps that follow another step are.
LEMMA StepsFollow ==
  ASSUME NEW kind \in BuildKinds, NEW phase,
         NEW i \in DOMAIN Steps(kind, phase), NEW j \in DOMAIN Steps(kind, phase), j = i + 1
  PROVE  /\ Steps(kind, phase)[j] \in {"again", "sources"} =>
              Steps(kind, phase)[i] \in {"receipt", "again"}
         /\ Steps(kind, phase)[j] \in {"baseline", "latest", "advance"} =>
              Steps(kind, phase)[i] \in {"baseline", "latest"}
  BY DEF Steps, BuildKinds

\* Which kinds a step belongs to.
LEMMA StepOfKind ==
  ASSUME NEW kind \in BuildKinds, NEW phase
  PROVE  /\ In(kind, phase, "archive") \/ In(kind, phase, "history") \/ In(kind, phase, "confirm")
              \/ In(kind, phase, "certify")
            => kind \in {"cli", "web"} /\ phase = "FINAL"
         /\ In(kind, phase, "keep") => phase # "FINAL"
         /\ In(kind, phase, "mark") \/ In(kind, phase, "journal") \/ In(kind, phase, "close")
            => kind \in {"cli", "web", "reuse"}
         /\ In(kind, phase, "baseline") \/ In(kind, phase, "latest") \/ In(kind, phase, "advance")
            => kind = "drive"
         /\ In(kind, phase, "summary") \/ In(kind, phase, "receipt") \/ In(kind, phase, "again")
              \/ In(kind, phase, "sources")
            => kind = "reuse"
         /\ In(kind, phase, "look") \/ In(kind, phase, "head") \/ In(kind, phase, "load")
            => kind = "web"
         /\ In("web", phase, "load") /\ In("reuse", phase, "summary")
  BY DEF Steps, BuildKinds, In

\* What a step comes after.
LEMMA StepOrder ==
  ASSUME NEW kind \in BuildKinds, NEW phase
  PROVE  /\ In(kind, phase, "history") => Before(kind, phase, "archive", "history")
         /\ In(kind, phase, "certify") =>
              /\ Before(kind, phase, "archive", "certify")
              /\ Before(kind, phase, "history", "certify")
              /\ Before(kind, phase, "journal", "certify")
         /\ In(kind, phase, "close") /\ phase = "FINAL" /\ kind # "reuse" =>
              Before(kind, phase, "certify", "close")
         /\ In(kind, phase, "upload") /\ phase # "FINAL" => Before(kind, phase, "keep", "upload")
         /\ kind = "reuse" /\ (In(kind, phase, "mark")) => Before(kind, phase, "sources", "mark")
         /\ kind = "reuse" /\ (In(kind, phase, "journal")) => Before(kind, phase, "sources", "journal")
         /\ kind = "reuse" /\ (In(kind, phase, "close")) => Before(kind, phase, "sources", "close")
  BY DEF Steps, BuildKinds, In, Before

LEMMA LoadedBefore ==
  ASSUME NEW phase, NEW s \in {"archive", "history", "mark", "journal", "confirm", "certify", "close"},
         In("web", phase, s)
  PROVE  Before("web", phase, "load", s)
  BY DEF Steps, In, Before

\* What a step does not come after.
LEMMA FirstIsFirst ==
  ASSUME NEW kind \in BuildKinds, NEW phase, NEW s
  PROVE  ~Before(kind, phase, s, Steps(kind, phase)[1])
<1>1. \A j \in DOMAIN Steps(kind, phase) : Steps(kind, phase)[j] = Steps(kind, phase)[1] => j = 1
  BY StepsAreDistinct DEF Steps, BuildKinds
<1>2. \A i \in DOMAIN Steps(kind, phase) : i \in Nat /\ i >= 1 /\ 1 \in DOMAIN Steps(kind, phase)
  BY DEF Steps, BuildKinds
<1> QED
  BY <1>1, <1>2 DEF Before

LEMMA KeepIsLate ==
  ASSUME NEW kind \in BuildKinds, NEW phase
  PROVE  ~Before(kind, phase, "keep", "guard")
  BY DEF Steps, BuildKinds, Before

LEMMA LoadIsEarly ==
  ASSUME NEW phase, NEW s \in {"sources", "archive", "history", "journal", "certify", "keep", "load"}
  PROVE  ~Before("web", phase, s, "load")
<1>1. CASE phase = "FINAL"
  BY <1>1 DEF Steps, Before
<1>2. CASE phase # "FINAL"
  BY <1>2 DEF Steps, Before
<1> QED
  BY <1>1, <1>2

LEMMA ReuseWritesLittle ==
  ASSUME NEW phase, NEW s \in {"archive", "history", "certify", "keep", "load"}, NEW t
  PROVE  ~Before("reuse", phase, s, t)
  BY DEF Steps, Before

LEMMA FirstStep ==
  ASSUME NEW kind \in BuildKinds, NEW phase
  PROVE  In(kind, phase, Steps(kind, phase)[1])
  BY DEF Steps, BuildKinds, In

LEMMA NextStep ==
  ASSUME NEW kind \in BuildKinds, NEW phase, NEW s, In(kind, phase, s),
         NEW i, i = CHOOSE j \in DOMAIN Steps(kind, phase) : Steps(kind, phase)[j] = s
  PROVE  /\ i \in DOMAIN Steps(kind, phase) /\ Steps(kind, phase)[i] = s
         /\ i # Len(Steps(kind, phase)) => i + 1 \in DOMAIN Steps(kind, phase)
<1>1. i \in DOMAIN Steps(kind, phase) /\ Steps(kind, phase)[i] = s
  BY DEF In
<1>2. Steps(kind, phase) \in Seq(StepNames)
  BY StepsAreSequences
<1> QED
  BY <1>1, <1>2

-----------------------------------------------------------------------------
(* The invariant.                                                          *)

WriterSet ==
  [pc : StepNames \cup {"idle"}, kind : BuildKinds, mine : ResultSet, seen : ResultSet,
   left : SUBSET {"page", "dashboard"}]

IsConfirmed(o) == Exists(o) /\ PhaseOf(o) = "FINAL"
On(w, s) == In(build[w].kind, PhaseOf(Mine(w)), s)
Passed(w, s) == Before(build[w].kind, PhaseOf(Mine(w)), s, build[w].pc)

\* What a writer is, and what it relies on by its step.
WriterIs(w) ==
  /\ On(w, build[w].pc)
  /\ Mine(w).base \in Versions
  /\ build[w].kind # "drive" => Mine(w).drive = 0
  /\ build[w].kind = "cli" \/ Passed(w, "load") => Mine(w).id # 0

WriterRelies(w) ==
  /\ build[w].pc \in {"baseline", "latest", "advance"} =>
       w = Workflow /\ driveHead.drive <= Mine(w).drive
  /\ build[w].pc \in {"again", "sources"} => build[w].seen \in receipts
  /\ Passed(w, "sources") => Mine(w) \in receipts
  /\ Passed(w, "archive") => Mine(w).id # 0 /\ archive[Mine(w).id] = Mine(w)
  /\ Passed(w, "history") => history[DateOf(Mine(w))] # 0
  /\ build[w].kind # "reuse" /\ Passed(w, "journal") => Mine(w).id \in journalled
  /\ Passed(w, "certify") => Mine(w) \in receipts
  /\ Passed(w, "keep") /\ IsConfirmed(build[w].seen) => IsConfirmed(marks)

WriterOK(w) == build[w].pc # "idle" => WriterIs(w) /\ WriterRelies(w)

BrowserOK(b) ==
  /\ browser[b].since <= driveHead.drive
  /\ browser[b].pc \in {"shown", "repair"} => browser[b].since <= browser[b].got.drive

HeadOK == ~Exists(driveHead) => driveHead.drive = 0
ReceiptsNamed == \A r \in receipts : r.base \in Versions /\ r.id # 0

Public == HeadOK /\ ReceiptsNamed /\ PublicationRecordsAgree

ScreeningInv ==
  /\ ScreeningTypeOK /\ Public
  /\ \A w \in Writers : WriterOK(w)
  /\ \A b \in Browsers : BrowserOK(b)

-----------------------------------------------------------------------------
(* What is kept is kept.                                                   *)

OnlyGrow ==
  /\ \A i \in DOMAIN archive : Exists(archive[i]) => archive'[i] = archive[i]
  /\ \A d \in Dates : history[d] # 0 => history'[d] # 0
  /\ receipts \subseteq receipts' /\ journalled \subseteq journalled'
  /\ IsConfirmed(marks) => IsConfirmed(marks)'

LEMMA NothingChanges ==
  ASSUME UNCHANGED records, UNCHANGED marks
  PROVE  OnlyGrow
BY DEF OnlyGrow, records, IsConfirmed, Exists, PhaseOf, Newest

LEMMA TypedWriter ==
  ASSUME ScreeningTypeOK, NEW w \in Writers
  PROVE  build[w] \in WriterSet
BY DEF ScreeningTypeOK, WriterSet, BuildKinds

LEMMA MineDate ==
  ASSUME NEW o, o.base \in Versions, o.drive = 0
  PROVE  Exists(o) /\ DateOf(o) \in Dates
BY ScreeningAssumption DEF Exists, DateOf, Newest, Dates, Versions

LEMMA ArchiveStays ==
  ASSUME ScreeningInv, NEW v \in Writers, WriterIs(v), Passed(v, "archive"), OnlyGrow,
         Mine(v).id # 0, archive[Mine(v).id] = Mine(v)
  PROVE  archive'[Mine(v).id] = Mine(v)
<1>1. archive \in [1 .. MaxBuilds -> ResultSet]
  BY DEF ScreeningInv, ScreeningTypeOK
<1>2. Mine(v).id \in 0 .. MaxBuilds
  BY TypedWriter DEF ScreeningInv, WriterSet, ResultSet, Mine
<1>3. Mine(v).id \in DOMAIN archive
  BY <1>1, <1>2, ScreeningAssumption
<1>4. Exists(Mine(v))
  BY DEF WriterIs, Exists, Versions
<1> QED
  BY <1>3, <1>4 DEF OnlyGrow

LEMMA HistoryStays ==
  ASSUME ScreeningInv, NEW v \in Writers, WriterIs(v), Passed(v, "history"), OnlyGrow,
         history[DateOf(Mine(v))] # 0
  PROVE  history'[DateOf(Mine(v))] # 0
<1>1. On(v, "history")
  BY DEF Passed, Before, On, In
<1>2. build[v].kind # "drive"
  BY <1>1, TypedWriter, StepOfKind DEF ScreeningInv, WriterSet, On
<1>3. DateOf(Mine(v)) \in Dates
  BY <1>2, MineDate DEF WriterIs
<1> QED
  BY <1>3 DEF OnlyGrow

LEMMA ElementOf ==
  ASSUME NEW T, NEW S \in Seq(T), NEW i \in 1 .. Len(S)
  PROVE  S[i] \in T
OBVIOUS

LEMMA PhaseIs ==
  ASSUME NEW o \in ResultSet, o.base \in Versions
  PROVE  PhaseOf(o) \in Phases
<1>1. Len(DriveFiles) \in Nat /\ o.drive \in 0 .. Len(DriveFiles) /\ o.base \in 1 .. Len(Registered)
  BY ScreeningAssumption DEF ResultSet, Versions
<1> DEFINE Row == [date : Nat, phase : Phases]
<1>2. Registered \in Seq(Row) /\ DriveFiles \in Seq(Row)
  BY ScreeningAssumption
<1>3. \A r \in Row : r.phase \in Phases
  OBVIOUS
<1> HIDE DEF Row
<1>4. o.drive # 0 => DriveFiles[o.drive] \in Row
  <2> SUFFICES ASSUME o.drive # 0
               PROVE  DriveFiles[o.drive] \in Row
    OBVIOUS
  <2>1. o.drive \in 1 .. Len(DriveFiles)
    BY <1>1
  <2> QED
    BY <2>1, <1>2, ElementOf
<1>5. Registered[o.base] \in Row
  BY <1>1, <1>2, ElementOf
<1> QED
  BY <1>3, <1>4, <1>5 DEF PhaseOf, Newest

\* A run that others leave alone keeps what it relies on.
LEMMA OthersStay ==
  ASSUME ScreeningInv, NEW v \in Writers, build'[v] = build[v], OnlyGrow,
         v = Workflow => UNCHANGED driveHead
  PROVE  WriterOK(v)'
<1> SUFFICES ASSUME build[v].pc # "idle"
             PROVE  WriterIs(v)' /\ WriterRelies(v)'
  BY DEF WriterOK
<1>1. WriterIs(v) /\ WriterRelies(v) /\ build[v] \in WriterSet
  BY TypedWriter DEF ScreeningInv, WriterOK
<1>2. PhaseOf(Mine(v)') = PhaseOf(Mine(v)) /\ Mine(v)' = Mine(v)
  BY DEF Mine
<1>3. WriterIs(v)'
  BY <1>1 DEF WriterIs, On, Passed, Mine, PhaseOf, Newest
<1>4. \A s : Passed(v, s)' <=> Passed(v, s)
  BY DEF Passed, Mine, PhaseOf, Newest
<1>5. Passed(v, "archive") => Mine(v).id # 0 /\ archive'[Mine(v).id] = Mine(v)
  BY <1>1, ArchiveStays DEF WriterRelies
<1>6. Passed(v, "history") => history'[DateOf(Mine(v))] # 0
  BY <1>1, HistoryStays DEF WriterRelies
<1>7. build[v].pc \in {"baseline", "latest", "advance"} =>
        v = Workflow /\ driveHead'.drive <= Mine(v).drive
  BY <1>1 DEF WriterRelies
<1>8. /\ build[v].pc \in {"again", "sources"} => build[v].seen \in receipts'
      /\ Passed(v, "sources") => Mine(v) \in receipts'
      /\ build[v].kind # "reuse" /\ Passed(v, "journal") => Mine(v).id \in journalled'
      /\ Passed(v, "certify") => Mine(v) \in receipts'
  BY <1>1 DEF WriterRelies, OnlyGrow
<1>9. IsConfirmed(build[v].seen)' <=> IsConfirmed(build[v].seen)
  BY DEF IsConfirmed, Exists, PhaseOf, Newest
<1>10. Passed(v, "keep") /\ IsConfirmed(build[v].seen) => IsConfirmed(marks)'
  BY <1>1 DEF WriterRelies, OnlyGrow
<1>11. DateOf(Mine(v))' = DateOf(Mine(v))
  BY DEF Mine, DateOf, Newest
<1>12. WriterRelies(v)'
  BY <1>2, <1>4, <1>5, <1>6, <1>7, <1>8, <1>9, <1>10, <1>11 DEF WriterRelies
<1> QED
  BY <1>3, <1>12

\* The step after the present one.
LEMMA AfterIs ==
  ASSUME ScreeningInv, NEW w \in Writers, build[w].pc # "idle", NEW nx, nx = After(w), nx # "idle"
  PROVE  /\ nx \in StepNames /\ On(w, nx)
         /\ \A s : Before(build[w].kind, PhaseOf(Mine(w)), s, nx) => s = build[w].pc \/ Passed(w, s)
         /\ nx \in {"again", "sources"} => build[w].pc \in {"receipt", "again"}
         /\ nx \in {"baseline", "latest", "advance"} => build[w].pc \in {"baseline", "latest"}
<1> DEFINE k == build[w].kind
           p == PhaseOf(Mine(w))
           S == Steps(k, p)
           i == CHOOSE j \in DOMAIN S : S[j] = build[w].pc
<1>1. k \in BuildKinds /\ In(k, p, build[w].pc)
  BY TypedWriter DEF WriterSet, ScreeningInv, WriterOK, WriterIs, On
<1>2. /\ i \in DOMAIN S /\ S[i] = build[w].pc
      /\ i # Len(S) => i + 1 \in DOMAIN S
  BY <1>1, NextStep
<1>3. i # Len(S) /\ nx = S[i + 1]
  BY DEF After, StepsOf
<1>4. S \in Seq(StepNames)
  BY <1>1, StepsAreSequences
<1>5. nx \in StepNames /\ On(w, nx)
  <2>1. nx \in StepNames
    BY <1>2, <1>3, <1>4
  <2>2. In(k, p, nx)
    BY <1>2, <1>3 DEF In
  <2> QED
    BY <2>1, <2>2 DEF On
<1>6. ASSUME NEW s, Before(k, p, s, nx)
      PROVE  s = build[w].pc \/ Passed(w, s)
  <2>1. PICK a \in DOMAIN S, b \in DOMAIN S : a < b /\ S[a] = s /\ S[b] = nx
    BY <1>6 DEF Before
  <2>2. b = i + 1
    BY <2>1, <1>1, <1>2, <1>3, StepsAreDistinct
  <2>3. a = i \/ a < i
    BY <2>1, <2>2, <1>2, <1>4
  <2> QED
    BY <2>1, <2>3, <1>2 DEF Passed, Before
<1>7. /\ nx \in {"again", "sources"} => build[w].pc \in {"receipt", "again"}
      /\ nx \in {"baseline", "latest", "advance"} => build[w].pc \in {"baseline", "latest"}
  BY <1>1, <1>2, <1>3, StepsFollow
<1> QED
  BY <1>5, <1>6, <1>7

-----------------------------------------------------------------------------
(* Where a step takes a writer.                                            *)

OnlyMoves(w) ==
  /\ build' \in [Writers -> WriterSet]
  /\ \A v \in Writers \ {w} : build'[v] = build[v]

LEMMA BuildTypes ==
  ASSUME ScreeningInv
  PROVE  build \in [Writers -> WriterSet]
BY DEF ScreeningInv, ScreeningTypeOK, WriterSet, BuildKinds

LEMMA Replaced ==
  ASSUME ScreeningInv, NEW w \in Writers, NEW r \in WriterSet, build' = [build EXCEPT ![w] = r]
  PROVE  OnlyMoves(w) /\ build'[w] = r
BY BuildTypes DEF OnlyMoves

LEMMA IdleIsTyped ==
  Missing \in ResultSet /\ Idle \in WriterSet
BY ScreeningAssumption DEF Missing, ResultSet, Idle, WriterSet, BuildKinds

LEMMA Stops ==
  ASSUME ScreeningInv, NEW w \in Writers, Stop(w)
  PROVE  OnlyMoves(w) /\ WriterOK(w)'
<1>1. OnlyMoves(w) /\ build'[w] = Idle
  BY Replaced, IdleIsTyped DEF Stop
<1>2. build'[w].pc = "idle"
  BY <1>1 DEF Idle
<1> QED
  BY <1>1, <1>2 DEF WriterOK

\* What the step that a writer leaves behind has provided.
Delivers(w) ==
  /\ build[w].pc \notin {"load", "sources"}
  /\ build[w].pc = "receipt" => build[w].seen \in receipts'
  /\ build[w].pc = "archive" => Mine(w).id # 0 /\ archive'[Mine(w).id] = Mine(w)
  /\ build[w].pc = "history" => history'[DateOf(Mine(w))] # 0
  /\ build[w].pc = "journal" /\ build[w].kind # "reuse" => Mine(w).id \in journalled'
  /\ build[w].pc = "certify" => Mine(w) \in receipts'
  /\ build[w].pc = "keep" /\ IsConfirmed(build[w].seen) => IsConfirmed(marks)'

\* Moving on to a later step with the same result in hand.
LEMMA MovesOn ==
  ASSUME ScreeningInv, NEW w \in Writers, build[w].pc # "idle", OnlyGrow, Delivers(w),
         build[w].pc \in {"baseline", "latest"} => UNCHANGED driveHead,
         NEW o \in ResultSet,
         o = build[w].seen \/ build[w].pc \in {"look", "guard"},
         NEW nx, nx = After(w), nx # "idle",
         build' = [build EXCEPT ![w] = [build[w] EXCEPT !.pc = nx, !.seen = o]]
  PROVE  OnlyMoves(w) /\ WriterOK(w)'
<1>1. WriterIs(w) /\ WriterRelies(w) /\ build[w] \in WriterSet
  BY TypedWriter DEF ScreeningInv, WriterOK
<1>2. /\ nx \in StepNames /\ On(w, nx)
      /\ \A s : Before(build[w].kind, PhaseOf(Mine(w)), s, nx) => s = build[w].pc \/ Passed(w, s)
      /\ nx \in {"again", "sources"} => build[w].pc \in {"receipt", "again"}
      /\ nx \in {"baseline", "latest", "advance"} => build[w].pc \in {"baseline", "latest"}
  BY AfterIs
<1> DEFINE r == [build[w] EXCEPT !.pc = nx, !.seen = o]
<1>3. /\ r \in WriterSet /\ r.pc = nx /\ r.seen = o
      /\ r.kind = build[w].kind /\ r.mine = build[w].mine
  BY <1>1, <1>2 DEF WriterSet
<1>4. OnlyMoves(w) /\ build'[w] = r
  BY <1>3, Replaced
<1> HIDE DEF r
<1>5. /\ Mine(w)' = Mine(w) /\ build'[w].kind = build[w].kind
      /\ build'[w].pc = nx /\ build'[w].seen = o
  BY <1>3, <1>4 DEF Mine
<1>6. /\ PhaseOf(Mine(w))' = PhaseOf(Mine(w)) /\ DateOf(Mine(w))' = DateOf(Mine(w))
  BY <1>5 DEF PhaseOf, DateOf, Newest
<1>7. \A s : Passed(w, s)' => s = build[w].pc \/ Passed(w, s)
  BY <1>2, <1>5, <1>6 DEF Passed
<1>8. WriterIs(w)'
  <2>1. On(w, build[w].pc)'
    BY <1>2, <1>5, <1>6 DEF On
  <2>2. /\ Mine(w)'.base \in Versions
        /\ build'[w].kind # "drive" => Mine(w)'.drive = 0
        /\ build'[w].kind = "cli" \/ Passed(w, "load")' => Mine(w)'.id # 0
    BY <1>1, <1>5, <1>7 DEF WriterIs, Delivers
  <2> QED
    BY <2>1, <2>2 DEF WriterIs, Versions
<1>9. \A s : ~Passed(w, s) \/ ~(build[w].pc \in {"look", "guard"} /\ s = "keep")
  <2>1. CASE build[w].pc = "guard"
    BY <2>1, <1>1, KeepIsLate DEF Passed, WriterSet
  <2>2. CASE build[w].pc = "look"
    <3>1. build[w].kind = "web"
      BY <2>2, <1>1, StepOfKind DEF WriterSet, WriterIs, On
    <3>2. Steps("web", PhaseOf(Mine(w)))[1] = "look"
      BY DEF Steps
    <3> QED
      BY <3>1, <3>2, <2>2, FirstIsFirst DEF Passed, BuildKinds
  <2> QED
    BY <2>1, <2>2
<1>10. nx \in {"baseline", "latest", "advance"} =>
         w = Workflow /\ driveHead'.drive <= Mine(w).drive
  BY <1>1, <1>2 DEF WriterRelies
<1>11. nx \in {"again", "sources"} => o \in receipts'
  BY <1>1, <1>2 DEF WriterRelies, Delivers, OnlyGrow
<1>12. /\ Passed(w, "sources")' => Mine(w) \in receipts'
       /\ Passed(w, "certify")' => Mine(w) \in receipts'
       /\ build[w].kind # "reuse" /\ Passed(w, "journal")' => Mine(w).id \in journalled'
  BY <1>1, <1>7 DEF WriterRelies, Delivers, OnlyGrow
<1>13. Passed(w, "archive")' => Mine(w).id # 0 /\ archive'[Mine(w).id] = Mine(w)
  <2>1. CASE build[w].pc = "archive"
    BY <2>1 DEF Delivers
  <2>2. CASE Passed(w, "archive")
    BY <2>2, <1>1, ArchiveStays DEF WriterRelies
  <2> QED
    BY <2>1, <2>2, <1>7
<1>14. Passed(w, "history")' => history'[DateOf(Mine(w))] # 0
  <2>1. CASE build[w].pc = "history"
    BY <2>1 DEF Delivers
  <2>2. CASE Passed(w, "history")
    BY <2>2, <1>1, HistoryStays DEF WriterRelies
  <2> QED
    BY <2>1, <2>2, <1>7
<1>15. Passed(w, "keep")' /\ IsConfirmed(o) => IsConfirmed(marks)'
  BY <1>1, <1>7, <1>9 DEF WriterRelies, Delivers, OnlyGrow
<1>16. IsConfirmed(build[w].seen)' <=> IsConfirmed(o)
  BY <1>5 DEF IsConfirmed, Exists, PhaseOf, Newest
<1>17. WriterRelies(w)'
  BY <1>5, <1>6, <1>10, <1>11, <1>12, <1>13, <1>14, <1>15, <1>16 DEF WriterRelies
<1> QED
  BY <1>4, <1>8, <1>17 DEF WriterOK

LEMMA BuildAdvances ==
  ASSUME ScreeningInv, NEW w \in Writers, build[w].pc # "idle", OnlyGrow, Delivers(w),
         build[w].pc \in {"baseline", "latest"} => UNCHANGED driveHead,
         Advance(w)
  PROVE  OnlyMoves(w) /\ WriterOK(w)'
<1>1. CASE After(w) = "idle"
  BY <1>1, Stops DEF Advance, Stop
<1>2. CASE After(w) # "idle"
  <2>1. build[w] \in WriterSet
    BY TypedWriter DEF ScreeningInv
  <2>2. build' = [build EXCEPT ![w] = [build[w] EXCEPT !.pc = After(w)]]
    BY <1>2 DEF Advance
  <2>3. [build[w] EXCEPT !.pc = After(w)] = [build[w] EXCEPT !.pc = After(w), !.seen = build[w].seen]
    BY <2>1 DEF WriterSet
  <2>4. build[w].seen \in ResultSet
    BY <2>1 DEF WriterSet
  <2> QED
    BY <1>2, <2>2, <2>3, <2>4, MovesOn
<1> QED
  BY <1>1, <1>2

LEMMA StopsOrAdvances ==
  ASSUME ScreeningInv, NEW w \in Writers, build[w].pc # "idle", OnlyGrow, NEW error \in BOOLEAN,
         ~error => Delivers(w),
         build[w].pc \in {"baseline", "latest"} => UNCHANGED driveHead,
         Unless(w, error)
  PROVE  OnlyMoves(w) /\ WriterOK(w)'
BY Stops, BuildAdvances DEF Unless

-----------------------------------------------------------------------------
(* One step of one writer.                                                 *)

\* The types of everything but the locals of the writers.
RestTyped ==
  /\ active \in Versions /\ registrations \in 0 .. MaxRegistrations
  /\ {page, dashboard, driveHead, marks} \subseteq ResultSet
  /\ archive \in [1 .. MaxBuilds -> ResultSet]
  /\ history \in [Dates -> 0 .. MaxBuilds]
  /\ receipts \subseteq ResultSet /\ journalled \subseteq 1 .. MaxBuilds
  /\ stages \in [1 .. MaxBuilds -> {"none", "RUNNING", "NOT_RUN", "FAILED", "COMPLETED", "SKIPPED"}]
  /\ builds \in 0 .. MaxBuilds
  /\ browser \in [Browsers -> [pc : BrowserSteps, got : ResultSet, since : 0 .. Len(DriveFiles)]]

LEMMA TypesSplit ==
  ScreeningTypeOK <=> RestTyped /\ build \in [Writers -> WriterSet]
BY DEF ScreeningTypeOK, RestTyped, WriterSet, BuildKinds

LEMMA TypesSplitNext ==
  ScreeningTypeOK' <=> RestTyped' /\ build' \in [Writers -> WriterSet]
BY DEF ScreeningTypeOK, RestTyped, WriterSet, BuildKinds

LEMMA WriterStep ==
  ASSUME ScreeningInv, NEW w \in Writers, OnlyMoves(w), WriterOK(w)', OnlyGrow,
         RestTyped', Public', UNCHANGED browser,
         w # Workflow => UNCHANGED driveHead,
         driveHead'.drive >= driveHead.drive
  PROVE  ScreeningInv'
<1>1. ScreeningTypeOK'
  BY TypesSplitNext DEF OnlyMoves
<1>2. ASSUME NEW v \in Writers
      PROVE  WriterOK(v)'
  BY OthersStay DEF OnlyMoves
<1>3. ASSUME NEW b \in Browsers
      PROVE  BrowserOK(b)'
  <2>1. BrowserOK(b)
    BY DEF ScreeningInv
  <2>2. driveHead.drive \in Nat /\ driveHead'.drive \in Nat /\ browser[b].since \in Nat
    <3>1. RestTyped
      BY TypesSplit DEF ScreeningInv
    <3> QED
      BY <3>1, ScreeningAssumption DEF RestTyped, ResultSet
  <2> QED
    BY <2>1, <2>2 DEF BrowserOK
<1> QED
  BY <1>1, <1>2, <1>3 DEF ScreeningInv

\* A step that only reads.
LEMMA ReadingStep ==
  ASSUME ScreeningInv, NEW w \in Writers, OnlyMoves(w), WriterOK(w)',
         UNCHANGED <<active, registrations, objects, records, browser>>,
         builds' \in 0 .. MaxBuilds
  PROVE  ScreeningInv'
<1>1. RestTyped /\ Public
  BY TypesSplit DEF ScreeningInv
<1>2. RestTyped'
  BY <1>1 DEF RestTyped, objects, records
<1>3. Public'
  BY <1>1 DEF Public, HeadOK, Exists, ReceiptsNamed, PublicationRecordsAgree, ReceiptCertifies,
              CompletedHasReceipt, HistoryIsArchived, PhaseOf, DateOf, Newest, objects, records
<1>4. OnlyGrow
  BY NothingChanges DEF objects
<1>5. UNCHANGED driveHead /\ driveHead.drive \in Nat
  BY <1>1, ScreeningAssumption DEF objects, RestTyped, ResultSet
<1> QED
  BY <1>2, <1>3, <1>4, <1>5, WriterStep DEF objects

LEMMA OnlyReadsIs ==
  ASSUME ScreeningInv, OnlyReads
  PROVE  /\ UNCHANGED <<active, registrations, objects, records, browser>>
         /\ builds' \in 0 .. MaxBuilds /\ OnlyGrow /\ UNCHANGED driveHead
<1>1. UNCHANGED <<active, registrations, objects, records, browser>> /\ UNCHANGED builds
  BY DEF OnlyReads, outside
<1>2. builds \in 0 .. MaxBuilds
  BY DEF ScreeningInv, ScreeningTypeOK
<1> QED
  BY <1>1, <1>2, NothingChanges DEF objects

LEMMA ReadAndStop ==
  ASSUME ScreeningInv, NEW w \in Writers, OnlyReads, Stop(w)
  PROVE  ScreeningInv'
BY OnlyReadsIs, Stops, ReadingStep

LEMMA SeesAndAdvances ==
  ASSUME ScreeningInv, NEW w \in Writers, build[w].pc \in {"look", "guard"},
         NEW o \in ResultSet, AdvanceSeeing(w, o), OnlyReads
  PROVE  ScreeningInv'
<1>1. Delivers(w)
  BY DEF Delivers
<1>2. build' = [build EXCEPT ![w] = [build[w] EXCEPT !.pc = After(w), !.seen = o]]
  BY DEF AdvanceSeeing
<1>3. OnlyMoves(w) /\ WriterOK(w)'
  <2>1. CASE After(w) # "idle"
    BY <2>1, <1>1, <1>2, OnlyReadsIs, MovesOn
  <2>2. CASE After(w) = "idle"
    <3> DEFINE r == [build[w] EXCEPT !.pc = "idle", !.seen = o]
    <3>1. r \in WriterSet /\ r.pc = "idle"
      BY TypedWriter DEF ScreeningInv, WriterSet
    <3>2. build' = [build EXCEPT ![w] = r]
      BY <2>2, <1>2
    <3> HIDE DEF r
    <3> QED
      BY <3>1, <3>2, Replaced DEF WriterOK
  <2> QED
    BY <2>1, <2>2
<1> QED
  BY <1>3, OnlyReadsIs, ReadingStep

LEMMA ReadAndAdvance ==
  ASSUME ScreeningInv, NEW w \in Writers, OnlyReads, Advance(w),
         build[w].pc \in {"summary", "receipt", "again", "baseline", "latest", "newer", "verify",
                          "head", "readback", "confirm"},
         build[w].pc = "receipt" => build[w].seen \in receipts
  PROVE  ScreeningInv'
<1>1. Delivers(w)
  BY OnlyReadsIs DEF Delivers, OnlyGrow
<1>2. OnlyMoves(w) /\ WriterOK(w)'
  BY <1>1, OnlyReadsIs, BuildAdvances
<1> QED
  BY <1>2, OnlyReadsIs, ReadingStep

-----------------------------------------------------------------------------
(* The steps that read and decide.                                         *)

LEMMA Begins ==
  ASSUME ScreeningInv, NEW w \in Writers, NEW kind \in {"cli", "web", "drive"},
         NEW mine \in ResultSet, NEW seen \in ResultSet, Begin(w, kind, mine, seen),
         mine.base \in Versions, kind # "drive" => mine.drive = 0, kind = "cli" => mine.id # 0,
         kind = "drive" => w = Workflow /\ driveHead.drive <= mine.drive,
         builds' \in 0 .. MaxBuilds
  PROVE  ScreeningInv'
<1> DEFINE r == [pc |-> Steps(kind, PhaseOf(mine))[1], kind |-> kind, mine |-> mine, seen |-> seen,
                 left |-> {"page", "dashboard"}]
<1>1. /\ build' = [build EXCEPT ![w] = r]
      /\ UNCHANGED <<active, registrations, objects, records, browser>>
  BY DEF Begin
<1>2. /\ Steps(kind, PhaseOf(mine))[1] \in StepNames
      /\ Steps(kind, PhaseOf(mine))[1] \notin {"again", "sources"}
      /\ Steps(kind, PhaseOf(mine))[1] \in {"baseline", "latest", "advance"} => kind = "drive"
  BY DEF Steps, StepNames
<1>3. r \in WriterSet
  BY <1>2 DEF WriterSet, BuildKinds
<1>4. OnlyMoves(w) /\ build'[w] = r
  BY <1>1, <1>3, Replaced
<1>5. Mine(w)' = mine /\ PhaseOf(Mine(w))' = PhaseOf(mine)
  BY <1>4 DEF Mine, PhaseOf, Newest
<1>6. \A s : ~Passed(w, s)'
  BY <1>4, <1>5, FirstIsFirst DEF Passed, BuildKinds
<1>7. On(w, build[w].pc)'
  BY <1>4, <1>5, FirstStep DEF On, BuildKinds
<1>8. WriterIs(w)'
  BY <1>4, <1>5, <1>6, <1>7 DEF WriterIs, Versions
<1>9. UNCHANGED driveHead
  BY <1>1 DEF objects
<1>10. WriterRelies(w)'
  BY <1>2, <1>4, <1>5, <1>6, <1>9 DEF WriterRelies
<1> QED
  BY <1>1, <1>4, <1>8, <1>10, ReadingStep DEF WriterOK

LEMMA StartCliStep ==
  ASSUME ScreeningInv, StartCli
  PROVE  ScreeningInv'
<1> DEFINE mine == [id |-> builds + 1, base |-> active, drive |-> 0, code |-> CodeOf["cli"]]
<1>1. Workflow \in Writers /\ builds \in 0 .. MaxBuilds /\ active \in Versions
  BY DEF Writers, ScreeningInv, ScreeningTypeOK
<1>2. mine \in ResultSet /\ builds' \in 0 .. MaxBuilds
  BY <1>1, ScreeningAssumption DEF StartCli, ResultSet, Versions
<1>3. Begin(Workflow, "cli", mine, Missing)
  BY DEF StartCli
<1>4. mine.base \in Versions /\ mine.drive = 0 /\ mine.id # 0
  BY <1>1, ScreeningAssumption
<1> HIDE DEF mine
<1> QED
  BY <1>1, <1>2, <1>3, <1>4, IdleIsTyped, Begins

LEMMA StartDriveStep ==
  ASSUME ScreeningInv, NEW n \in 1 .. Len(DriveFiles), StartDrive(n)
  PROVE  ScreeningInv'
<1> DEFINE mine == [id |-> builds + 1, base |-> active, drive |-> n, code |-> CodeOf["cli"]]
<1>1. Workflow \in Writers /\ builds \in 0 .. MaxBuilds /\ active \in Versions /\ driveHead \in ResultSet
  BY DEF Writers, ScreeningInv, ScreeningTypeOK
<1>2. mine \in ResultSet /\ builds' \in 0 .. MaxBuilds
  <2>1. builds + 1 \in 0 .. MaxBuilds /\ builds' = builds + 1
    BY <1>1, ScreeningAssumption DEF StartDrive
  <2>2. active \in 0 .. Len(Registered) /\ n \in 0 .. Len(DriveFiles)
    BY <1>1, ScreeningAssumption DEF Versions
  <2> QED
    BY <2>1, <2>2, ScreeningAssumption DEF ResultSet
<1>3. Begin(Workflow, "drive", mine, driveHead)
  BY DEF StartDrive
<1>4. driveHead.drive \in Nat
  BY <1>1, ScreeningAssumption DEF ResultSet
<1>5. mine.base \in Versions /\ driveHead.drive <= mine.drive
  BY <1>1, <1>4 DEF StartDrive
<1> HIDE DEF mine
<1> QED
  BY <1>1, <1>2, <1>3, <1>5, Begins

LEMMA StartWebStep ==
  ASSUME ScreeningInv, NEW w \in Writers, StartWeb(w)
  PROVE  ScreeningInv'
<1> DEFINE mine == [id |-> 0, base |-> active, drive |-> 0, code |-> CodeOf["web"]]
<1>1. builds' \in 0 .. MaxBuilds /\ active \in Versions
  BY DEF StartWeb, ScreeningInv, ScreeningTypeOK
<1>2. mine \in ResultSet /\ mine.base \in Versions /\ mine.drive = 0
  BY <1>1, ScreeningAssumption DEF ResultSet, Versions
<1>3. Begin(w, "web", mine, Missing)
  BY DEF StartWeb
<1> HIDE DEF mine
<1> QED
  BY <1>1, <1>2, <1>3, IdleIsTyped, Begins

LEMMA LookStep ==
  ASSUME ScreeningInv, NEW w \in Writers, Look(w)
  PROVE  ScreeningInv'
<1>1. build[w].pc = "look" /\ page \in ResultSet /\ AdvanceSeeing(w, page) /\ OnlyReads
  BY DEF Look, At, ScreeningInv, ScreeningTypeOK
<1> QED
  BY <1>1, SeesAndAdvances

LEMMA GuardStep ==
  ASSUME ScreeningInv, NEW w \in Writers, Guard(w)
  PROVE  ScreeningInv'
<1>1. build[w].pc = "guard" /\ page \in ResultSet /\ OnlyReads
  BY DEF Guard, At, ScreeningInv, ScreeningTypeOK
<1>2. Stop(w) \/ AdvanceSeeing(w, page)
  BY DEF Guard
<1> QED
  BY <1>1, <1>2, SeesAndAdvances, ReadAndStop

\* A decision that takes the writer to another kind of publication, at its start.
LEMMA Turns ==
  ASSUME ScreeningInv, NEW w \in Writers, build[w].pc # "idle", OnlyReads,
         NEW kind \in BuildKinds, NEW pc \in StepNames,
         build[w].kind # "drive",
         \/ kind = "reuse" /\ pc = "summary"
         \/ kind = "web" /\ pc = "load",
         build' = [build EXCEPT ![w] = [build[w] EXCEPT !.kind = kind, !.pc = pc]]
  PROVE  ScreeningInv'
<1>1. build[w] \in WriterSet /\ WriterIs(w)
  BY TypedWriter DEF ScreeningInv, WriterOK
<1> DEFINE r == [build[w] EXCEPT !.kind = kind, !.pc = pc]
<1>2. /\ r \in WriterSet /\ r.kind = kind /\ r.pc = pc
      /\ r.mine = build[w].mine /\ r.seen = build[w].seen
  BY <1>1 DEF WriterSet
<1>3. OnlyMoves(w) /\ build'[w] = r
  BY <1>2, Replaced
<1> HIDE DEF r
<1>4. Mine(w)' = Mine(w) /\ PhaseOf(Mine(w))' = PhaseOf(Mine(w))
  BY <1>2, <1>3 DEF Mine, PhaseOf, Newest
<1>5. \A s \in {"sources", "archive", "history", "journal", "certify", "keep", "load"} : ~Passed(w, s)'
  <2>1. Steps("reuse", PhaseOf(Mine(w)))[1] = "summary"
    BY DEF Steps
  <2> QED
    BY <2>1, <1>2, <1>3, <1>4, FirstIsFirst, LoadIsEarly DEF Passed, BuildKinds
<1>6. On(w, build[w].pc)'
  BY <1>2, <1>3, <1>4, StepOfKind DEF On, BuildKinds
<1>7. WriterIs(w)'
  BY <1>1, <1>2, <1>3, <1>4, <1>5, <1>6 DEF WriterIs, Versions
<1>8. WriterRelies(w)'
  BY <1>2, <1>3, <1>5 DEF WriterRelies
<1> QED
  BY <1>3, <1>7, <1>8, OnlyReadsIs, ReadingStep DEF WriterOK

LEMMA ReadHeadStep ==
  ASSUME ScreeningInv, NEW w \in Writers, ReadHead(w)
  PROVE  ScreeningInv'
<1>1. build[w].pc = "head" /\ OnlyReads
  BY DEF ReadHead, At
<1>2. \/ Stop(w) \/ Advance(w)
      \/ build' = [build EXCEPT ![w] = [build[w] EXCEPT !.kind = "reuse", !.pc = "summary"]]
  BY DEF ReadHead
<1>3. build[w].kind # "drive"
  BY <1>1, TypedWriter, StepOfKind DEF ScreeningInv, WriterSet, WriterOK, WriterIs, On
<1>4. "reuse" \in BuildKinds /\ "summary" \in StepNames
  BY DEF BuildKinds, StepNames
<1> QED
  BY <1>1, <1>2, <1>3, <1>4, ReadAndStop, ReadAndAdvance, Turns

LEMMA ReuseKind ==
  ASSUME ScreeningInv, NEW w \in Writers, build[w].pc \in {"summary", "receipt", "again", "sources"}
  PROVE  build[w].kind = "reuse"
BY TypedWriter, StepOfKind DEF ScreeningInv, WriterSet, WriterOK, WriterIs, On

LEMMA ReadSummaryStep ==
  ASSUME ScreeningInv, NEW w \in Writers, ReadSummary(w)
  PROVE  ScreeningInv'
<1>1. build[w].pc = "summary" /\ OnlyReads
  BY DEF ReadSummary, At
<1>2. \/ Advance(w)
      \/ build' = [build EXCEPT ![w] = [build[w] EXCEPT !.kind = "web", !.pc = "load"]]
  BY DEF ReadSummary, BuildAnew
<1>3. CASE Advance(w)
  BY <1>1, <1>3, ReadAndAdvance
<1>4. CASE build' = [build EXCEPT ![w] = [build[w] EXCEPT !.kind = "web", !.pc = "load"]]
  <2>1. "web" \in BuildKinds /\ "load" \in StepNames /\ build[w].kind # "drive"
    BY <1>1, ReuseKind DEF BuildKinds, StepNames
  <2> QED
    BY <1>1, <1>4, <2>1, Turns
<1> QED
  BY <1>2, <1>3, <1>4

LEMMA ReadReceiptStep ==
  ASSUME ScreeningInv, NEW w \in Writers, ReadReceipt(w)
  PROVE  ScreeningInv'
<1>1. build[w].pc = "receipt" /\ OnlyReads
  BY DEF ReadReceipt, At
<1>2. \/ Advance(w) /\ build[w].seen \in receipts
      \/ build' = [build EXCEPT ![w] = [build[w] EXCEPT !.kind = "web", !.pc = "load"]]
  BY DEF ReadReceipt, BuildAnew
<1>3. CASE Advance(w) /\ build[w].seen \in receipts
  BY <1>1, <1>3, ReadAndAdvance
<1>4. CASE build' = [build EXCEPT ![w] = [build[w] EXCEPT !.kind = "web", !.pc = "load"]]
  <2>1. "web" \in BuildKinds /\ "load" \in StepNames /\ build[w].kind # "drive"
    BY <1>1, ReuseKind DEF BuildKinds, StepNames
  <2> QED
    BY <1>1, <1>4, <2>1, Turns
<1> QED
  BY <1>2, <1>3, <1>4

LEMMA PlainReads ==
  ASSUME ScreeningInv, NEW w \in Writers,
         ReadAgain(w) \/ ReadNewer(w) \/ Baseline(w) \/ ReadLatest(w) \/ Verify(w)
  PROVE  ScreeningInv'
<1>1. /\ build[w].pc \in {"again", "newer", "baseline", "latest", "verify"} /\ OnlyReads
      /\ Stop(w) \/ Advance(w)
  BY DEF ReadAgain, ReadNewer, Baseline, ReadLatest, Verify, At, Unless
<1> QED
  BY <1>1, ReadAndStop, ReadAndAdvance

LEMMA Ends ==
  ASSUME ScreeningInv, NEW w \in Writers, Fail(w) \/ Readback(w)
  PROVE  ScreeningInv'
BY ReadAndStop DEF Fail, Readback

LEMMA ReuseHasNoPhase ==
  ASSUME NEW p, NEW q, NEW s, NEW t
  PROVE  /\ In("reuse", p, s) <=> In("reuse", q, s)
         /\ Before("reuse", p, s, t) <=> Before("reuse", q, s, t)
BY DEF In, Before, Steps

\* The reused publication is a certified one, hence registered and named.
LEMMA Certified ==
  ASSUME ScreeningInv, NEW r \in receipts
  PROVE  /\ r \in ResultSet /\ r.base \in Versions /\ r.id # 0 /\ r.drive = 0
         /\ r.id \in 1 .. MaxBuilds
<1>1. r \in ResultSet
  BY DEF ScreeningInv, ScreeningTypeOK
<1>2. r.base \in Versions /\ r.id # 0 /\ r.drive = 0
  BY DEF ScreeningInv, Public, ReceiptsNamed, PublicationRecordsAgree, ReceiptCertifies
<1> QED
  BY <1>1, <1>2, ScreeningAssumption DEF ResultSet

LEMMA ReadSourcesStep ==
  ASSUME ScreeningInv, NEW w \in Writers, ReadSources(w)
  PROVE  ScreeningInv'
<1>1. build[w].pc = "sources" /\ OnlyReads
  BY DEF ReadSources, At
<1>2. CASE Stop(w)
  BY <1>1, <1>2, ReadAndStop
<1>3. CASE build' = [build EXCEPT ![w] =
             [build[w] EXCEPT !.pc = After(w), !.mine = build[w].seen, !.seen = Missing]]
  <2> DEFINE nx == After(w)
             o == build[w].seen
             r == [build[w] EXCEPT !.pc = nx, !.mine = o, !.seen = Missing]
  <2>1. build[w].kind = "reuse" /\ build[w] \in WriterSet /\ o \in receipts
    BY <1>1, ReuseKind, TypedWriter DEF ScreeningInv, WriterOK, WriterRelies
  <2>2. /\ o \in ResultSet /\ o.base \in Versions /\ o.id # 0 /\ o.drive = 0
    BY <2>1, Certified
  <2>3. nx # "idle" =>
          /\ nx \in StepNames /\ On(w, nx)
          /\ nx \notin {"again", "sources", "baseline", "latest", "advance"}
    BY <1>1, AfterIs
  <2>4. /\ r \in WriterSet /\ r.pc = nx /\ r.mine = o /\ r.kind = "reuse"
    BY <2>1, <2>2, <2>3, IdleIsTyped DEF WriterSet
  <2>5. build' = [build EXCEPT ![w] = r]
    BY <1>3
  <2> HIDE DEF r
  <2>6. OnlyMoves(w) /\ build'[w] = r
    BY <2>4, <2>5, Replaced
  <2> HIDE DEF nx, o
  <2>7. SUFFICES ASSUME nx # "idle"
                 PROVE  WriterIs(w)' /\ WriterRelies(w)'
    BY <1>1, <2>4, <2>6, OnlyReadsIs, ReadingStep DEF WriterOK
  <2>8. Mine(w)' = o
    BY <2>4, <2>6 DEF Mine
  <2>9. On(w, build[w].pc)'
    BY <2>1, <2>3, <2>4, <2>6, <2>7, ReuseHasNoPhase DEF On
  <2>10. WriterIs(w)'
    BY <2>2, <2>4, <2>6, <2>8, <2>9 DEF WriterIs, Versions
  <2>11. \A s \in {"archive", "history", "certify", "keep"} : ~Passed(w, s)'
    BY <2>4, <2>6, ReuseWritesLittle DEF Passed
  <2>12. WriterRelies(w)'
    BY <1>1, <2>1, <2>3, <2>4, <2>6, <2>7, <2>8, <2>11, OnlyReadsIs DEF WriterRelies, OnlyGrow
  <2> QED
    BY <2>10, <2>12
<1> QED
  BY <1>2, <1>3 DEF ReadSources

LEMMA LoadStep ==
  ASSUME ScreeningInv, NEW w \in Writers, Load(w)
  PROVE  ScreeningInv'
<1>1. /\ build[w].pc = "load"
      /\ UNCHANGED <<active, registrations, objects, records, browser>>
      /\ builds \in 0 .. MaxBuilds
  BY DEF Load, At, ScreeningInv, ScreeningTypeOK
<1>2. CASE Stop(w) /\ UNCHANGED builds
  BY <1>1, <1>2, Stops, ReadingStep
<1>3. CASE /\ builds < MaxBuilds /\ builds' = builds + 1
           /\ build' = [build EXCEPT ![w] =
                [build[w] EXCEPT !.pc = After(w), !.mine = [Mine(w) EXCEPT !.id = builds + 1]]]
  <2> DEFINE nx == After(w)
             m == [Mine(w) EXCEPT !.id = builds + 1]
             r == [build[w] EXCEPT !.pc = nx, !.mine = m]
  <2>1. build[w] \in WriterSet /\ WriterIs(w) /\ Mine(w) \in ResultSet
    BY <1>1, TypedWriter DEF ScreeningInv, WriterOK, WriterSet, Mine
  <2>2. build[w].kind = "web"
    BY <1>1, <2>1, StepOfKind DEF WriterIs, On, WriterSet
  <2>3. nx # "idle" =>
          /\ nx \in StepNames /\ On(w, nx)
          /\ nx \notin {"again", "sources", "baseline", "latest", "advance"}
          /\ \A s : Before(build[w].kind, PhaseOf(Mine(w)), s, nx) => s = build[w].pc \/ Passed(w, s)
    BY <1>1, AfterIs
  <2>4. builds' \in 0 .. MaxBuilds /\ builds + 1 # 0 /\ builds + 1 \in 0 .. MaxBuilds
    BY <1>1, <1>3, ScreeningAssumption
  <2>5. /\ m \in ResultSet /\ m.base = Mine(w).base /\ m.drive = Mine(w).drive /\ m.id # 0
    BY <2>1, <2>4 DEF ResultSet
  <2>6. /\ r \in WriterSet /\ r.pc = nx /\ r.mine = m /\ r.kind = "web"
    BY <2>1, <2>2, <2>3, <2>5 DEF WriterSet
  <2>7. build' = [build EXCEPT ![w] = r]
    BY <1>3
  <2> HIDE DEF r
  <2>8. OnlyMoves(w) /\ build'[w] = r
    BY <2>6, <2>7, Replaced
  <2> HIDE DEF nx, m
  <2>9. SUFFICES ASSUME nx # "idle"
                 PROVE  WriterIs(w)' /\ WriterRelies(w)'
    BY <1>1, <2>4, <2>6, <2>8, ReadingStep DEF WriterOK
  <2>10. Mine(w)' = m /\ PhaseOf(Mine(w))' = PhaseOf(Mine(w))
    BY <2>5, <2>6, <2>8 DEF Mine, PhaseOf, Newest
  <2>11. \A s \in {"sources", "archive", "history", "journal", "certify", "keep"} : ~Passed(w, s)'
    BY <1>1, <2>2, <2>3, <2>6, <2>8, <2>9, <2>10, LoadIsEarly DEF Passed
  <2>12. WriterIs(w)'
    BY <2>1, <2>2, <2>3, <2>5, <2>6, <2>8, <2>9, <2>10 DEF WriterIs, On, Versions
  <2>13. WriterRelies(w)'
    BY <2>3, <2>6, <2>8, <2>9, <2>11 DEF WriterRelies
  <2> QED
    BY <2>12, <2>13
<1> QED
  BY <1>2, <1>3 DEF Load

-----------------------------------------------------------------------------
(* The steps that write.                                                   *)

LEMMA Typed ==
  ASSUME ScreeningInv
  PROVE  RestTyped /\ build \in [Writers -> WriterSet]
BY TypesSplit DEF ScreeningInv

LEMMA PublicKept ==
  ASSUME ScreeningInv, OnlyGrow, UNCHANGED <<driveHead, receipts, history>>,
         \A i \in 1 .. MaxBuilds :
           stages'[i] = "COMPLETED" => stages[i] = "COMPLETED" \/ \E r \in receipts : r.id = i
  PROVE  Public'
<1>1. Public /\ RestTyped
  BY Typed DEF ScreeningInv
<1>2. HeadOK' /\ ReceiptsNamed'
  BY <1>1 DEF Public, HeadOK, ReceiptsNamed, Exists
<1>3. ReceiptCertifies'
  <2> SUFFICES ASSUME NEW r \in receipts
               PROVE  /\ r.drive = 0 /\ PhaseOf(r)' = "FINAL"
                      /\ archive'[r.id] = r /\ history'[DateOf(r)'] # 0
                      /\ r.id \in journalled'
    BY DEF ReceiptCertifies
  <2>1. /\ r.drive = 0 /\ PhaseOf(r) = "FINAL"
        /\ archive[r.id] = r /\ history[DateOf(r)] # 0 /\ r.id \in journalled
    BY <1>1 DEF Public, PublicationRecordsAgree, ReceiptCertifies
  <2>2. Exists(r) /\ r.id \in DOMAIN archive
    BY <1>1, Certified, ScreeningAssumption DEF Exists, Versions, RestTyped
  <2>3. archive'[r.id] = r
    BY <2>1, <2>2 DEF OnlyGrow
  <2> QED
    BY <2>1, <2>3 DEF OnlyGrow, PhaseOf, DateOf, Newest
<1>4. CompletedHasReceipt'
  BY <1>1 DEF Public, PublicationRecordsAgree, CompletedHasReceipt
<1>5. HistoryIsArchived'
  <2> SUFFICES ASSUME NEW d \in Dates, history[d] # 0
               PROVE  /\ Exists(archive'[history[d]]) /\ DateOf(archive'[history[d]]) = d
                      /\ PhaseOf(archive'[history[d]]) = "FINAL"
    BY DEF HistoryIsArchived, Exists, DateOf, PhaseOf, Newest
  <2>1. /\ Exists(archive[history[d]]) /\ DateOf(archive[history[d]]) = d
        /\ PhaseOf(archive[history[d]]) = "FINAL"
    BY <1>1 DEF Public, PublicationRecordsAgree, HistoryIsArchived
  <2>2. history[d] \in DOMAIN archive
    BY <1>1, ScreeningAssumption DEF RestTyped
  <2> QED
    BY <2>1, <2>2 DEF OnlyGrow
<1> QED
  BY <1>2, <1>3, <1>4, <1>5 DEF Public, PublicationRecordsAgree

\* Whoever archives, journals or certifies a publication knows its id.
LEMMA Named ==
  ASSUME ScreeningInv, NEW w \in Writers,
         build[w].pc \in {"archive", "history", "mark", "journal", "confirm", "certify", "close"}
  PROVE  /\ Mine(w).id # 0 /\ Mine(w).id \in 1 .. MaxBuilds
         /\ Mine(w) \in ResultSet /\ build[w].kind # "drive"
<1>1. build[w] \in WriterSet /\ WriterIs(w) /\ WriterRelies(w)
  BY TypedWriter DEF ScreeningInv, WriterOK
<1>2. build[w].kind \in {"cli", "web", "reuse"}
  BY <1>1, StepOfKind DEF WriterSet, WriterIs, On
<1>3. Mine(w).id # 0
  <2>1. CASE build[w].kind = "cli"
    BY <2>1, <1>1 DEF WriterIs
  <2>2. CASE build[w].kind = "web"
    <3>1. Passed(w, "load")
      BY <2>2, <1>1, LoadedBefore DEF Passed, WriterIs, On
    <3> QED
      BY <3>1, <1>1 DEF WriterIs
  <2>3. CASE build[w].kind = "reuse"
    <3>1. build[w].pc \in {"mark", "journal", "close"}
      BY <2>3, <1>1, StepOfKind DEF WriterIs, On, BuildKinds
    <3>2. Passed(w, "sources")
      BY <3>1, <2>3, <1>1, StepOrder DEF Passed, WriterIs, On, BuildKinds
    <3> QED
      BY <3>2, <1>1, Certified DEF WriterRelies
  <2> QED
    BY <1>2, <2>1, <2>2, <2>3
<1>4. Mine(w) \in ResultSet
  BY <1>1 DEF WriterSet, Mine
<1> QED
  BY <1>2, <1>3, <1>4, ScreeningAssumption DEF ResultSet

\* The records of a confirmed publication are in place before its receipt.
LEMMA ReadyToCertify ==
  ASSUME ScreeningInv, NEW w \in Writers, build[w].pc \in {"history", "certify"}
  PROVE  /\ Mine(w).drive = 0 /\ PhaseOf(Mine(w)) = "FINAL" /\ Mine(w).base \in Versions
         /\ archive[Mine(w).id] = Mine(w)
         /\ build[w].pc = "certify" => history[DateOf(Mine(w))] # 0 /\ Mine(w).id \in journalled
<1>1. build[w] \in WriterSet /\ WriterIs(w) /\ WriterRelies(w)
  BY TypedWriter DEF ScreeningInv, WriterOK
<1>2. build[w].kind \in {"cli", "web"} /\ PhaseOf(Mine(w)) = "FINAL"
  BY <1>1, StepOfKind DEF WriterSet, WriterIs, On
<1>3. /\ Passed(w, "archive")
      /\ build[w].pc = "certify" => Passed(w, "history") /\ Passed(w, "journal")
  BY <1>1, StepOrder DEF WriterSet, WriterIs, On, Passed
<1> QED
  BY <1>1, <1>2, <1>3 DEF WriterIs, WriterRelies

LEMMA HeadIsNat ==
  ASSUME ScreeningInv
  PROVE  driveHead.drive \in Nat
BY Typed, ScreeningAssumption DEF RestTyped, ResultSet

\* What a step that leaves head, history and receipts alone keeps.
LEMMA QuietWrite ==
  ASSUME ScreeningInv, NEW w \in Writers, OnlyMoves(w), WriterOK(w)', OnlyGrow, RestTyped',
         UNCHANGED <<driveHead, receipts, history, browser>>,
         \A i \in 1 .. MaxBuilds :
           stages'[i] = "COMPLETED" => stages[i] = "COMPLETED" \/ \E r \in receipts : r.id = i
  PROVE  ScreeningInv'
BY PublicKept, WriterStep, HeadIsNat

LEMMA ArchiveStep ==
  ASSUME ScreeningInv, NEW w \in Writers, Archive(w)
  PROVE  ScreeningInv'
<1> DEFINE i == Mine(w).id
<1>1. /\ build[w].pc = "archive"
      /\ archive' = [archive EXCEPT ![i] = IF Exists(archive[i]) THEN archive[i] ELSE Mine(w)]
      /\ Unless(w, Exists(archive[i]) /\ archive[i] # Mine(w))
      /\ UNCHANGED <<outside, objects, history, receipts, journalled, stages>>
  BY DEF Archive, At
<1>2. i # 0 /\ i \in 1 .. MaxBuilds /\ Mine(w) \in ResultSet
  BY <1>1, Named
<1>3. RestTyped
  BY Typed
<1>4. archive' \in [1 .. MaxBuilds -> ResultSet]
  BY <1>1, <1>2, <1>3 DEF RestTyped
<1>5. OnlyGrow
  BY <1>1, <1>3 DEF OnlyGrow, RestTyped, objects, IsConfirmed, Exists, PhaseOf, Newest
<1>6. ~(Exists(archive[i]) /\ archive[i] # Mine(w)) => archive'[i] = Mine(w)
  BY <1>1, <1>2, <1>3 DEF RestTyped
<1>7. ~(Exists(archive[i]) /\ archive[i] # Mine(w)) => Delivers(w)
  BY <1>1, <1>2, <1>6 DEF Delivers
<1>8. OnlyMoves(w) /\ WriterOK(w)'
  BY <1>1, <1>5, <1>7, StopsOrAdvances
<1>9. RestTyped'
  BY <1>1, <1>3, <1>4 DEF RestTyped, outside, objects
<1> QED
  BY <1>1, <1>5, <1>8, <1>9, QuietWrite DEF outside, objects

LEMMA HistoryStep ==
  ASSUME ScreeningInv, NEW w \in Writers, History(w)
  PROVE  ScreeningInv'
<1> DEFINE d == DateOf(Mine(w))
<1>1. /\ build[w].pc = "history" /\ Advance(w)
      /\ history' = [history EXCEPT ![d] = Mine(w).id]
      /\ UNCHANGED <<outside, objects, archive, receipts, journalled, stages>>
  BY DEF History, At
<1>2. Mine(w).id # 0 /\ Mine(w).id \in 1 .. MaxBuilds
  BY <1>1, Named
<1>3. /\ Mine(w).drive = 0 /\ PhaseOf(Mine(w)) = "FINAL" /\ Mine(w).base \in Versions
      /\ archive[Mine(w).id] = Mine(w)
  BY <1>1, ReadyToCertify
<1>4. d \in Dates /\ Exists(Mine(w))
  BY <1>3, MineDate
<1>5. RestTyped /\ Public
  BY Typed DEF ScreeningInv
<1>6. \A e \in Dates : history'[e] = IF e = d THEN Mine(w).id ELSE history[e]
  BY <1>1, <1>5 DEF RestTyped
<1>7. OnlyGrow
  BY <1>1, <1>2, <1>6 DEF OnlyGrow, objects, IsConfirmed, Exists, PhaseOf, Newest
<1>8. Delivers(w)
  BY <1>1, <1>2, <1>4, <1>6 DEF Delivers
<1>9. OnlyMoves(w) /\ WriterOK(w)'
  BY <1>1, <1>7, <1>8, BuildAdvances
<1>10. RestTyped'
  <2>1. history' \in [Dates -> 0 .. MaxBuilds]
    <3>1. Mine(w).id \in 0 .. MaxBuilds /\ history \in [Dates -> 0 .. MaxBuilds]
      BY <1>2, <1>5 DEF RestTyped
    <3> QED
      BY <1>1, <3>1
  <2> QED
    BY <1>1, <1>5, <2>1 DEF RestTyped, outside, objects
<1>11. Public'
  <2>1. HeadOK' /\ ReceiptsNamed' /\ CompletedHasReceipt'
    BY <1>1, <1>5 DEF Public, HeadOK, ReceiptsNamed, PublicationRecordsAgree, CompletedHasReceipt,
                      Exists, objects
  <2>2. ReceiptCertifies'
    <3> SUFFICES ASSUME NEW r \in receipts
                 PROVE  /\ r.drive = 0 /\ PhaseOf(r) = "FINAL"
                        /\ archive[r.id] = r /\ history'[DateOf(r)] # 0
                        /\ r.id \in journalled
      BY <1>1 DEF ReceiptCertifies, PhaseOf, DateOf, Newest
    <3>1. /\ r.drive = 0 /\ PhaseOf(r) = "FINAL"
          /\ archive[r.id] = r /\ history[DateOf(r)] # 0 /\ r.id \in journalled
      BY <1>5 DEF Public, PublicationRecordsAgree, ReceiptCertifies
    <3>2. DateOf(r) \in Dates
      BY Certified, MineDate
    <3> QED
      BY <3>1, <3>2, <1>7 DEF OnlyGrow
  <2>3. HistoryIsArchived'
    <3> SUFFICES ASSUME NEW e \in Dates, history'[e] # 0
                 PROVE  /\ Exists(archive[history'[e]]) /\ DateOf(archive[history'[e]]) = e
                        /\ PhaseOf(archive[history'[e]]) = "FINAL"
      BY <1>1 DEF HistoryIsArchived, Exists, DateOf, PhaseOf, Newest
    <3>1. CASE e = d
      BY <3>1, <1>3, <1>4, <1>6
    <3>2. CASE e # d
      BY <3>2, <1>5, <1>6 DEF Public, PublicationRecordsAgree, HistoryIsArchived
    <3> QED
      BY <3>1, <3>2
  <2> QED
    BY <2>1, <2>2, <2>3 DEF Public, PublicationRecordsAgree
<1> QED
  BY <1>1, <1>7, <1>9, <1>10, <1>11, WriterStep, HeadIsNat DEF outside, objects

LEMMA AdvanceHeadStep ==
  ASSUME ScreeningInv, NEW w \in Writers, AdvanceHead(w)
  PROVE  ScreeningInv'
<1>1. /\ build[w].pc = "advance" /\ Advance(w) /\ driveHead' = Mine(w)
      /\ UNCHANGED <<outside, page, dashboard, marks, records>>
  BY DEF AdvanceHead, At
<1>2. /\ Mine(w).base \in Versions /\ Mine(w) \in ResultSet /\ w = Workflow
      /\ driveHead.drive <= Mine(w).drive
  BY <1>1, TypedWriter
  DEF ScreeningInv, WriterSet, WriterOK, WriterIs, WriterRelies, Mine
<1>3. RestTyped /\ Public /\ driveHead.drive \in Nat /\ Mine(w).drive \in Nat
  BY <1>2, Typed, HeadIsNat, ScreeningAssumption DEF ScreeningInv, ResultSet
<1>4. OnlyGrow
  BY <1>1, NothingChanges
<1>5. OnlyMoves(w) /\ WriterOK(w)'
  BY <1>1, <1>4, BuildAdvances DEF Delivers
<1>6. RestTyped'
  BY <1>1, <1>2, <1>3 DEF RestTyped, outside, records
<1>7. Public'
  <2>1. HeadOK'
    BY <1>1, <1>2 DEF HeadOK, Exists, Versions
  <2> QED
    BY <2>1, <1>1, <1>3 DEF Public, Exists, ReceiptsNamed, PublicationRecordsAgree, ReceiptCertifies,
         CompletedHasReceipt, HistoryIsArchived, PhaseOf, DateOf, Newest, records
<1> QED
  BY <1>1, <1>2, <1>3, <1>4, <1>5, <1>6, <1>7, WriterStep DEF outside

LEMMA KeepStep ==
  ASSUME ScreeningInv, NEW w \in Writers, Keep(w)
  PROVE  ScreeningInv'
<1> DEFINE cached == build[w].seen
<1>1. /\ build[w].pc = "keep" /\ Advance(w)
      /\ marks' = IF IsConfirmed(cached) THEN cached ELSE marks
      /\ UNCHANGED <<active, registrations, page, dashboard, driveHead, records, builds, browser>>
  BY DEF Keep, At, IsConfirmed
<1>2. cached \in ResultSet /\ RestTyped
  BY Typed, TypedWriter DEF ScreeningInv, WriterSet
<1>3. IsConfirmed(marks)' <=> IsConfirmed(marks')
  BY DEF IsConfirmed, Exists, PhaseOf, Newest
<1>4. OnlyGrow
  BY <1>1, <1>3 DEF OnlyGrow, records
<1>5. Delivers(w)
  BY <1>1, <1>3 DEF Delivers
<1>6. OnlyMoves(w) /\ WriterOK(w)'
  BY <1>1, <1>4, <1>5, BuildAdvances
<1>7. marks' \in ResultSet
  BY <1>1, <1>2 DEF RestTyped
<1>8. RestTyped'
  BY <1>1, <1>2, <1>7 DEF RestTyped, records
<1> QED
  BY <1>1, <1>4, <1>6, <1>8, QuietWrite DEF records

LEMMA UploadStep ==
  ASSUME ScreeningInv, NEW w \in Writers, UploadPage(w) \/ UploadDashboard(w)
  PROVE  ScreeningInv'
<1>1. PICK part \in {"page", "dashboard"} : Uploaded(w, part)
  BY DEF UploadPage, UploadDashboard
<1>2. build[w].pc = "upload" /\ build[w] \in WriterSet /\ Mine(w) \in ResultSet
  BY <1>1, TypedWriter DEF Uploaded, At, ScreeningInv, WriterSet, Mine
<1> DEFINE left == build[w].left \ {part}
           nx == IF build[w].left = {part} THEN After(w) ELSE "upload"
<1>3. /\ UNCHANGED <<active, registrations, driveHead, marks, records, builds, browser>>
      /\ build' = [build EXCEPT ![w] = [build[w] EXCEPT !.left = left, !.pc = nx]]
  BY <1>1 DEF Uploaded
<1>4. OnlyGrow /\ RestTyped
  BY <1>3, Typed, NothingChanges
<1>5. OnlyMoves(w) /\ WriterOK(w)'
  <2> DEFINE r == [build[w] EXCEPT !.pc = nx]
             s == [build[w] EXCEPT !.left = left, !.pc = nx]
  <2>1. WriterIs(w) /\ WriterRelies(w)
    BY <1>2 DEF ScreeningInv, WriterOK
  <2>2. nx # "idle" =>
          /\ nx \in StepNames /\ On(w, nx)
          /\ \A t : Before(build[w].kind, PhaseOf(Mine(w)), t, nx) => t = build[w].pc \/ Passed(w, t)
          /\ nx \notin {"again", "sources", "baseline", "latest", "advance"}
    BY <1>2, <2>1, AfterIs DEF WriterIs, Passed, StepNames
  <2>3. /\ s \in WriterSet /\ s.pc = nx /\ s.kind = build[w].kind /\ s.mine = build[w].mine
        /\ s.seen = build[w].seen
    BY <1>2, <2>2 DEF WriterSet
  <2>4. build' = [build EXCEPT ![w] = s]
    BY <1>3
  <2> HIDE DEF s, nx
  <2>5. OnlyMoves(w) /\ build'[w] = s
    BY <2>3, <2>4, Replaced
  <2>6. SUFFICES ASSUME nx # "idle"
                 PROVE  WriterIs(w)' /\ WriterRelies(w)'
    BY <2>3, <2>5 DEF WriterOK
  <2>7. /\ Mine(w)' = Mine(w) /\ PhaseOf(Mine(w))' = PhaseOf(Mine(w))
        /\ DateOf(Mine(w))' = DateOf(Mine(w)) /\ IsConfirmed(build[w].seen)' = IsConfirmed(build[w].seen)
    BY <2>3, <2>5 DEF Mine, PhaseOf, DateOf, Newest, IsConfirmed, Exists
  <2>8. \A t : Passed(w, t)' => t = "upload" \/ Passed(w, t)
    BY <1>2, <2>2, <2>3, <2>5, <2>6, <2>7 DEF Passed
  <2>9. WriterIs(w)'
    BY <2>1, <2>2, <2>3, <2>5, <2>6, <2>7, <2>8 DEF WriterIs, On, Versions
  <2>10. WriterRelies(w)'
    BY <1>3, <2>1, <2>2, <2>3, <2>5, <2>6, <2>7, <2>8 DEF WriterRelies, records, IsConfirmed, Exists,
         PhaseOf, Newest
  <2> QED
    BY <2>9, <2>10
<1>6. page' \in ResultSet /\ dashboard' \in ResultSet
  <2>1. SummaryOf(Mine(w)) \in ResultSet
    <3>1. 0 \in 0 .. MaxBuilds
      BY ScreeningAssumption
    <3>2. [Mine(w) EXCEPT !.id = 0] \in ResultSet
      BY <3>1, <1>2 DEF ResultSet
    <3> QED
      BY <3>2, <1>2 DEF SummaryOf
  <2> QED
    BY <2>1, <1>2, <1>4 DEF UploadPage, UploadDashboard, RestTyped
<1>7. RestTyped'
  BY <1>3, <1>4, <1>6 DEF RestTyped, records
<1> QED
  BY <1>3, <1>4, <1>5, <1>7, QuietWrite DEF records

\* The status of a publication, written while its other records stay.
LEMMA StatusStep ==
  ASSUME ScreeningInv, NEW w \in Writers, NEW status,
         build[w].pc \in {"mark", "journal", "confirm", "certify", "close"},
         status \in {"RUNNING", "NOT_RUN", "FAILED", "SKIPPED", "COMPLETED"},
         status = "COMPLETED" => Mine(w) \in receipts,
         Staged(w, status), OnlyGrow, OnlyMoves(w), WriterOK(w)',
         UNCHANGED <<outside, objects, archive, history, receipts>>,
         journalled' = journalled \/ journalled' = journalled \cup {Mine(w).id}
  PROVE  ScreeningInv'
<1>1. RestTyped /\ Mine(w).id \in 1 .. MaxBuilds
  BY Typed, Named
<1>2. stages' = [stages EXCEPT ![Mine(w).id] = status]
  BY DEF Staged
<1>3. stages' \in
        [1 .. MaxBuilds -> {"none", "RUNNING", "NOT_RUN", "FAILED", "COMPLETED", "SKIPPED"}]
  BY <1>1, <1>2 DEF RestTyped
<1>4. RestTyped'
  BY <1>1, <1>3 DEF RestTyped, outside, objects
<1>5. \A i \in 1 .. MaxBuilds :
        stages'[i] = "COMPLETED" => stages[i] = "COMPLETED" \/ \E r \in receipts : r.id = i
  BY <1>1, <1>2 DEF RestTyped
<1> QED
  BY <1>4, <1>5, QuietWrite DEF outside, objects

LEMMA RecordsGrow ==
  ASSUME UNCHANGED <<objects, archive, history, receipts>>, journalled \subseteq journalled'
  PROVE  OnlyGrow
BY DEF OnlyGrow, objects, IsConfirmed, Exists, PhaseOf, Newest

LEMMA MarkStep ==
  ASSUME ScreeningInv, NEW w \in Writers, Mark(w)
  PROVE  ScreeningInv'
<1>1. /\ build[w].pc = "mark" /\ Advance(w) /\ Staged(w, "RUNNING")
      /\ UNCHANGED <<outside, objects, archive, history, receipts, journalled>>
  BY DEF Mark, At
<1>2. OnlyGrow /\ Delivers(w)
  BY <1>1, RecordsGrow DEF Delivers
<1>3. OnlyMoves(w) /\ WriterOK(w)'
  BY <1>1, <1>2, BuildAdvances
<1> QED
  BY <1>1, <1>2, <1>3, StatusStep

LEMMA JournalStep ==
  ASSUME ScreeningInv, NEW w \in Writers, Journal(w)
  PROVE  ScreeningInv'
<1>1. /\ build[w].pc = "journal" /\ Advance(w) /\ Staged(w, "NOT_RUN")
      /\ journalled' = journalled \cup {Mine(w).id}
      /\ UNCHANGED <<outside, objects, archive, history, receipts>>
  BY DEF Journal, At
<1>2. OnlyGrow /\ Delivers(w)
  BY <1>1, RecordsGrow DEF Delivers
<1>3. OnlyMoves(w) /\ WriterOK(w)'
  BY <1>1, <1>2, BuildAdvances
<1> QED
  BY <1>1, <1>2, <1>3, StatusStep

LEMMA JournalFailsStep ==
  ASSUME ScreeningInv, NEW w \in Writers, JournalFails(w)
  PROVE  ScreeningInv'
<1>1. /\ build[w].pc = "journal" /\ Stop(w) /\ Staged(w, "FAILED")
      /\ UNCHANGED <<outside, objects, archive, history, receipts, journalled>>
  BY DEF JournalFails, At
<1>2. OnlyGrow
  BY <1>1, RecordsGrow
<1>3. OnlyMoves(w) /\ WriterOK(w)'
  BY <1>1, Stops
<1> QED
  BY <1>1, <1>2, <1>3, StatusStep

LEMMA CompletionFailsStep ==
  ASSUME ScreeningInv, NEW w \in Writers, build[w].pc \in {"confirm", "certify"},
         CompletionFails(w),
         UNCHANGED <<outside, objects, archive, history, journalled>>
  PROVE  ScreeningInv'
<1>1. Stop(w) /\ UNCHANGED receipts /\ (Staged(w, "FAILED") \/ UNCHANGED stages)
  BY DEF CompletionFails
<1>2. OnlyGrow /\ OnlyMoves(w) /\ WriterOK(w)'
  BY <1>1, RecordsGrow, Stops
<1>3. CASE Staged(w, "FAILED")
  BY <1>1, <1>2, <1>3, StatusStep
<1>4. CASE UNCHANGED stages
  BY <1>1, <1>4, ReadAndStop DEF OnlyReads, records
<1> QED
  BY <1>1, <1>3, <1>4

LEMMA ConfirmStep ==
  ASSUME ScreeningInv, NEW w \in Writers, Confirm(w)
  PROVE  ScreeningInv'
<1>1. build[w].pc = "confirm" /\ UNCHANGED <<outside, objects, archive, history, journalled>>
  BY DEF Confirm, At
<1>2. CASE Advance(w) /\ UNCHANGED <<receipts, stages>>
  BY <1>1, <1>2, ReadAndAdvance DEF OnlyReads, records
<1>3. CASE CompletionFails(w)
  BY <1>1, <1>3, CompletionFailsStep
<1> QED
  BY <1>2, <1>3 DEF Confirm

LEMMA CloseStep ==
  ASSUME ScreeningInv, NEW w \in Writers, Close(w)
  PROVE  ScreeningInv'
<1> DEFINE status == IF ~Preview(w) THEN "COMPLETED"
                     ELSE IF build[w].kind = "web" THEN "SKIPPED" ELSE "NOT_RUN"
<1>1. /\ build[w].pc = "close" /\ Advance(w) /\ Staged(w, status)
      /\ UNCHANGED <<outside, objects, archive, history, receipts, journalled>>
  BY DEF Close, At
<1>2. OnlyGrow /\ Delivers(w)
  BY <1>1, RecordsGrow DEF Delivers
<1>3. OnlyMoves(w) /\ WriterOK(w)'
  BY <1>1, <1>2, BuildAdvances
<1>4. status = "COMPLETED" => Mine(w) \in receipts
  <2> SUFFICES ASSUME ~Preview(w)
               PROVE  Mine(w) \in receipts
    OBVIOUS
  <2>1. build[w] \in WriterSet /\ WriterIs(w) /\ WriterRelies(w)
    BY <1>1, TypedWriter DEF ScreeningInv, WriterOK
  <2>2. PhaseOf(Mine(w)) = "FINAL"
    <3>1. PhaseOf(Mine(w)) \in Phases
      BY <2>1, PhaseIs DEF WriterSet, WriterIs, Mine
    <3> QED
      BY <3>1 DEF Preview, Phases
  <2>3. Passed(w, "certify") \/ Passed(w, "sources")
    BY <1>1, <2>1, <2>2, StepOrder DEF WriterSet, WriterIs, On, Passed
  <2> QED
    BY <2>1, <2>3 DEF WriterRelies
<1>5. status \in {"RUNNING", "NOT_RUN", "FAILED", "SKIPPED", "COMPLETED"}
  OBVIOUS
<1> HIDE DEF status
<1> QED
  BY <1>1, <1>2, <1>3, <1>4, <1>5, StatusStep

LEMMA CertifyStep ==
  ASSUME ScreeningInv, NEW w \in Writers, Certify(w)
  PROVE  ScreeningInv'
<1>1. build[w].pc = "certify" /\ UNCHANGED <<outside, objects, archive, history, journalled>>
  BY DEF Certify, At
<1>2. CASE receipts' = receipts \cup {Mine(w)} /\ Advance(w) /\ UNCHANGED stages
  <2>1. OnlyGrow /\ Delivers(w)
    BY <1>1, <1>2 DEF OnlyGrow, Delivers, objects, IsConfirmed, Exists, PhaseOf, Newest
  <2>2. OnlyMoves(w) /\ WriterOK(w)'
    BY <1>1, <1>2, <2>1, BuildAdvances
  <2>3. Mine(w).id # 0 /\ Mine(w) \in ResultSet
    BY <1>1, Named
  <2>4. RestTyped /\ Public
    BY Typed DEF ScreeningInv
  <2>5. RestTyped'
    BY <1>1, <1>2, <2>3, <2>4 DEF RestTyped, outside, objects
  <2>6. /\ Mine(w).drive = 0 /\ PhaseOf(Mine(w)) = "FINAL" /\ Mine(w).base \in Versions
        /\ archive[Mine(w).id] = Mine(w) /\ history[DateOf(Mine(w))] # 0
        /\ Mine(w).id \in journalled
    BY <1>1, ReadyToCertify
  <2>7. ReceiptCertifies'
    BY <1>1, <1>2, <2>4, <2>6 DEF Public, PublicationRecordsAgree, ReceiptCertifies, PhaseOf, DateOf,
         Newest
  <2>8. HeadOK' /\ ReceiptsNamed' /\ CompletedHasReceipt' /\ HistoryIsArchived'
    BY <1>1, <1>2, <2>3, <2>4, <2>6 DEF Public, HeadOK, ReceiptsNamed, PublicationRecordsAgree,
         CompletedHasReceipt, HistoryIsArchived, Exists, PhaseOf, DateOf, Newest, objects
  <2>9. Public'
    BY <2>7, <2>8 DEF Public, PublicationRecordsAgree
  <2> QED
    BY <1>1, <2>1, <2>2, <2>5, <2>9, WriterStep, HeadIsNat DEF outside, objects
<1>3. CASE CompletionFails(w)
  BY <1>1, <1>3, CompletionFailsStep
<1> QED
  BY <1>2, <1>3 DEF Certify

LEMMA WriteStep ==
  ASSUME ScreeningInv, NEW w \in Writers, Write(w)
  PROVE  ScreeningInv'
BY StartWebStep, Ends, LookStep, ReadHeadStep, ReadSummaryStep, ReadReceiptStep, PlainReads,
   ReadSourcesStep, LoadStep, AdvanceHeadStep, ArchiveStep, HistoryStep, GuardStep, KeepStep,
   UploadStep, MarkStep, JournalStep, JournalFailsStep, ConfirmStep, CertifyStep, CloseStep
DEF Write

-----------------------------------------------------------------------------
(* Registrations and browsers.                                             *)

\* A step that leaves the writers and the records alone.
LEMMA WritersStay ==
  ASSUME ScreeningInv, UNCHANGED <<build, driveHead, marks, records>>, RestTyped',
         \A b \in Browsers : BrowserOK(b)'
  PROVE  ScreeningInv'
<1>1. Public /\ build \in [Writers -> WriterSet]
  BY Typed DEF ScreeningInv
<1>2. Public'
  BY <1>1 DEF Public, HeadOK, Exists, ReceiptsNamed, PublicationRecordsAgree, ReceiptCertifies,
              CompletedHasReceipt, HistoryIsArchived, PhaseOf, DateOf, Newest, records
<1>3. ASSUME NEW v \in Writers
      PROVE  WriterOK(v)'
  BY NothingChanges, OthersStay
<1>4. ScreeningTypeOK'
  BY <1>1, TypesSplitNext
<1> QED
  BY <1>2, <1>3, <1>4 DEF ScreeningInv

LEMMA RegisterStep ==
  ASSUME ScreeningInv, Register
  PROVE  ScreeningInv'
<1>1. RestTyped /\ \A b \in Browsers : BrowserOK(b)
  BY Typed DEF ScreeningInv
<1>2. registrations' \in 0 .. MaxRegistrations
  BY <1>1, ScreeningAssumption DEF Register, RestTyped
<1>3. RestTyped'
  BY <1>1, <1>2 DEF RestTyped, Register, objects, records
<1>4. \A b \in Browsers : BrowserOK(b)'
  BY <1>1 DEF BrowserOK, Register, objects
<1> QED
  BY <1>3, <1>4, WritersStay DEF Register, objects

BrowserSet == [pc : BrowserSteps, got : ResultSet, since : 0 .. Len(DriveFiles)]

LEMMA BrowserMoves ==
  ASSUME ScreeningInv, NEW b \in Browsers, NEW r \in BrowserSet,
         browser' = [browser EXCEPT ![b] = r],
         r.since <= driveHead.drive, r.pc \in {"shown", "repair"} => r.since <= r.got.drive,
         UNCHANGED <<active, registrations, page, driveHead, marks, records, build, builds>>,
         dashboard' \in ResultSet
  PROVE  ScreeningInv'
<1>1. RestTyped /\ \A c \in Browsers : BrowserOK(c)
  BY Typed DEF ScreeningInv
<1>2. browser \in [Browsers -> BrowserSet]
  BY <1>1 DEF RestTyped, BrowserSet
<1>3. /\ browser' \in [Browsers -> BrowserSet] /\ browser'[b] = r
      /\ \A c \in Browsers \ {b} : browser'[c] = browser[c]
  BY <1>2
<1>4. RestTyped'
  BY <1>1, <1>3 DEF RestTyped, BrowserSet, records
<1>5. \A c \in Browsers : BrowserOK(c)'
  BY <1>1, <1>3 DEF BrowserOK
<1> QED
  BY <1>4, <1>5, WritersStay

\* A browser that stays with what it holds, or shows it.
LEMMA BrowserSees ==
  ASSUME ScreeningInv, NEW b \in Browsers, NEW pc \in BrowserSteps, SeeTo(b, pc),
         pc \in {"shown", "repair"} => browser[b].since <= browser[b].got.drive,
         UNCHANGED <<active, registrations, page, driveHead, marks, records, build, builds>>,
         dashboard' \in ResultSet
  PROVE  ScreeningInv'
<1>1. browser \in [Browsers -> BrowserSet] /\ BrowserOK(b)
  BY Typed DEF ScreeningInv, RestTyped, BrowserSet
<1> DEFINE r == [browser[b] EXCEPT !.pc = pc]
<1>2. browser[b] \in BrowserSet
  BY <1>1
<1>3. r \in BrowserSet /\ r.pc = pc /\ r.got = browser[b].got /\ r.since = browser[b].since
  BY <1>2 DEF BrowserSet
<1>4. browser' = [browser EXCEPT ![b] = r]
  BY <1>1 DEF SeeTo
<1> HIDE DEF r
<1> QED
  BY <1>1, <1>3, <1>4, BrowserMoves DEF BrowserOK

\* What matches the head is no older than what the browser knows of.
LEMMA ShownIsCurrent ==
  ASSUME ScreeningInv, NEW b \in Browsers, GenerationShown(browser[b].got)
  PROVE  browser[b].since <= browser[b].got.drive
<1>1. browser[b].since <= driveHead.drive /\ HeadOK
  BY DEF ScreeningInv, BrowserOK, Public
<1>2. browser[b] \in BrowserSet
  BY Typed DEF RestTyped, BrowserSet
<1>3. browser[b].since \in Nat /\ browser[b].got.drive \in Nat
  BY <1>2, ScreeningAssumption DEF BrowserSet, ResultSet
<1> QED
  BY <1>1, <1>3 DEF GenerationShown, CurrentGeneration, HeadOK

LEMMA BrowseStep ==
  ASSUME ScreeningInv, NEW b \in Browsers, Browse(b)
  PROVE  ScreeningInv'
<1>1. RestTyped /\ browser[b] \in BrowserSet /\ BrowserOK(b)
  BY Typed DEF ScreeningInv, RestTyped, BrowserSet
<1>2. driveHead.drive \in 0 .. Len(DriveFiles) /\ Len(DriveFiles) \in Nat
  BY <1>1, ScreeningAssumption DEF RestTyped, ResultSet
<1>3. OnlyLooks =>
        /\ UNCHANGED <<active, registrations, page, driveHead, marks, records, build, builds>>
        /\ dashboard' \in ResultSet
  BY <1>1 DEF OnlyLooks, objects, RestTyped
<1>4. CASE SeeNothing(b) /\ OnlyLooks
  <2> DEFINE r == [pc |-> "idle", got |-> Missing, since |-> 0]
  <2>1. r \in BrowserSet /\ r.since <= driveHead.drive
    BY <1>2, IdleIsTyped DEF BrowserSet, BrowserSteps
  <2>2. browser' = [browser EXCEPT ![b] = r]
    BY <1>4 DEF SeeNothing
  <2> QED
    BY <1>3, <1>4, <2>1, <2>2, BrowserMoves
<1>5. CASE Open(b)
  <2> DEFINE r == [pc |-> "summary", got |-> dashboard, since |-> driveHead.drive]
  <2>1. r \in BrowserSet /\ r.since <= driveHead.drive
    BY <1>1, <1>2 DEF BrowserSet, BrowserSteps, RestTyped
  <2>2. browser' = [browser EXCEPT ![b] = r] /\ OnlyLooks
    BY <1>5 DEF Open
  <2> QED
    BY <1>3, <2>1, <2>2, BrowserMoves
<1>6. CASE SummaryInput(b)
  BY <1>3, <1>6, BrowserSees DEF SummaryInput, BrowserSteps
<1>7. CASE SummaryHead(b)
  <2>1. CASE GenerationShown(browser[b].got)
    BY <1>3, <1>7, <2>1, ShownIsCurrent, BrowserSees DEF SummaryHead, BrowserSteps
  <2>2. CASE ~GenerationShown(browser[b].got)
    BY <1>3, <1>7, <2>2, BrowserSees DEF SummaryHead, BrowserSteps
  <2> QED
    BY <2>1, <2>2
<1>8. CASE SeePage(b)
  <2> DEFINE r == [browser[b] EXCEPT !.pc = "pageInput", !.got = page]
  <2>1. r \in BrowserSet /\ r.pc = "pageInput" /\ r.since = browser[b].since
    BY <1>1 DEF BrowserSet, BrowserSteps, RestTyped
  <2>2. browser' = [browser EXCEPT ![b] = r] /\ OnlyLooks
    BY <1>8 DEF SeePage
  <2> HIDE DEF r
  <2> QED
    BY <1>1, <1>3, <2>1, <2>2, BrowserMoves DEF BrowserOK
<1>9. CASE PageInput(b)
  BY <1>3, <1>4, <1>9, BrowserSees DEF PageInput, BrowserSteps
<1>10. CASE PageHead(b)
  <2>1. CASE GenerationShown(browser[b].got)
    BY <1>3, <1>10, <2>1, ShownIsCurrent, BrowserSees DEF PageHead, BrowserSteps
  <2>2. CASE ~GenerationShown(browser[b].got)
    BY <1>4, <1>10, <2>2 DEF PageHead
  <2> QED
    BY <2>1, <2>2
<1>11. CASE Repair(b)
  <2>1. browser[b].since <= browser[b].got.drive
    BY <1>1, <1>11 DEF BrowserOK, Repair
  <2>2. SummaryOf(browser[b].got) \in ResultSet
    <3>1. 0 \in 0 .. MaxBuilds /\ browser[b].got \in ResultSet
      BY <1>1, ScreeningAssumption DEF BrowserSet
    <3>2. [browser[b].got EXCEPT !.id = 0] \in ResultSet
      BY <3>1 DEF ResultSet
    <3> QED
      BY <3>1, <3>2 DEF SummaryOf
  <2> QED
    BY <1>11, <2>1, <2>2, BrowserSees DEF Repair, BrowserSteps
<1>12. CASE RepairLost(b)
  <2>1. browser[b].since <= browser[b].got.drive
    BY <1>1, <1>12 DEF BrowserOK, RepairLost
  <2> QED
    BY <1>3, <1>12, <2>1, BrowserSees DEF RepairLost, BrowserSteps
<1> QED
  BY <1>5, <1>6, <1>7, <1>8, <1>9, <1>10, <1>11, <1>12 DEF Browse

-----------------------------------------------------------------------------
(* The theorems.                                                           *)

LEMMA StartsRight ==
  ASSUME ScreeningInit
  PROVE  ScreeningInv
<1>1. Missing \in ResultSet /\ Idle \in WriterSet
  BY IdleIsTyped
<1>2. RestTyped
  <2>1. 0 \in 0 .. MaxBuilds /\ 0 \in 0 .. MaxRegistrations /\ 0 \in 0 .. Len(DriveFiles)
    BY ScreeningAssumption
  <2>2. browser \in [Browsers -> [pc : BrowserSteps, got : ResultSet, since : 0 .. Len(DriveFiles)]]
    BY <1>1, <2>1 DEF ScreeningInit, BrowserSteps
  <2>3. archive \in [1 .. MaxBuilds -> ResultSet] /\ history \in [Dates -> 0 .. MaxBuilds]
    BY <1>1, <2>1 DEF ScreeningInit
  <2>4. stages \in
          [1 .. MaxBuilds -> {"none", "RUNNING", "NOT_RUN", "FAILED", "COMPLETED", "SKIPPED"}]
    BY DEF ScreeningInit
  <2> QED
    BY <1>1, <2>1, <2>2, <2>3, <2>4 DEF ScreeningInit, RestTyped
<1>3. ScreeningTypeOK
  BY <1>1, <1>2, TypesSplit DEF ScreeningInit
<1>4. Public
  BY DEF ScreeningInit, Public, HeadOK, ReceiptsNamed, PublicationRecordsAgree, ReceiptCertifies,
         CompletedHasReceipt, HistoryIsArchived, Missing
<1>5. \A w \in Writers : WriterOK(w)
  BY DEF ScreeningInit, WriterOK, Idle
<1>6. \A b \in Browsers : BrowserOK(b)
  BY DEF ScreeningInit, BrowserOK, Missing
<1> QED
  BY <1>3, <1>4, <1>5, <1>6 DEF ScreeningInv

LEMMA StaysRight ==
  ASSUME ScreeningInv, [ScreeningNext]_screeningVars
  PROVE  ScreeningInv'
<1>1. CASE UNCHANGED screeningVars
  <2>1. RestTyped /\ \A b \in Browsers : BrowserOK(b)
    BY Typed DEF ScreeningInv
  <2>2. RestTyped'
    BY <1>1, <2>1 DEF RestTyped, screeningVars, objects, records
  <2>3. \A b \in Browsers : BrowserOK(b)'
    BY <1>1, <2>1 DEF BrowserOK, screeningVars, objects
  <2> QED
    BY <1>1, <2>2, <2>3, WritersStay DEF screeningVars, objects
<1> QED
  BY <1>1, RegisterStep, StartCliStep, StartDriveStep, WriteStep, BrowseStep DEF ScreeningNext

LEMMA ScreeningInvariant == ScreeningSpec => []ScreeningInv
BY StartsRight, StaysRight, PTL DEF ScreeningSpec

\* The type invariant of the screening publication.
THEOREM ScreeningTypes == ScreeningSpec => []ScreeningTypeOK
<1>1. ScreeningInv => ScreeningTypeOK
  BY DEF ScreeningInv
<1> QED
  BY <1>1, ScreeningInvariant, PTL

\* Receipts, statuses, history and archive of the publications agree at every
\* moment, whichever publications fail or overtake each other on the way.
THEOREM RecordsAgree == ScreeningSpec => []PublicationRecordsAgree
<1>1. ScreeningInv => PublicationRecordsAgree
  BY DEF ScreeningInv, Public
<1> QED
  BY <1>1, ScreeningInvariant, PTL

LEMMA ShownHolds ==
  ASSUME ScreeningInv
  PROVE  NoOlderGeneration
<1> SUFFICES ASSUME NEW b \in Browsers, browser[b].pc \in {"shown", "repair"}
             PROVE  browser[b].got.drive >= browser[b].since
  BY DEF NoOlderGeneration
<1>1. BrowserOK(b) /\ browser[b] \in BrowserSet
  BY Typed DEF ScreeningInv, RestTyped, BrowserSet
<1>2. browser[b].since \in Nat /\ browser[b].got.drive \in Nat
  BY <1>1, ScreeningAssumption DEF BrowserSet, ResultSet
<1> QED
  BY <1>1, <1>2 DEF BrowserOK

\* No browser shows an older generation of the Drive results than the one
\* published when it opened the page.
THEOREM BrowsersNeverGoBack == ScreeningSpec => []NoOlderGeneration
<1>1. ScreeningInv => NoOlderGeneration
  BY ShownHolds
<1> QED
  BY <1>1, ScreeningInvariant, PTL

\* A preview that replaces the confirmed page its writer had read leaves
\* confirmed marks in store.
THEOREM MarksOutliveThePage == ScreeningSpec => PreviewKeepsMarks
<1>1. ASSUME ScreeningInv, [ScreeningNext]_screeningVars
      PROVE  [\A w \in Writers :
               PreviewReplaces(w) /\ build[w].seen = page => MarksAreKept]_screeningVars
  <2> SUFFICES ASSUME NEW w \in Writers, At(w, "upload"), Preview(w), IsConfirmed(build[w].seen)
               PROVE  IsConfirmed(marks)
    BY DEF IsConfirmed, PreviewReplaces, MarksAreKept
  <2>1. build[w] \in WriterSet /\ WriterIs(w) /\ WriterRelies(w)
    BY <1>1, TypedWriter DEF ScreeningInv, WriterOK, At
  <2>2. Passed(w, "keep")
    BY <2>1, StepOrder DEF WriterSet, WriterIs, On, Passed, At, Preview
  <2> QED
    BY <2>1, <2>2 DEF WriterRelies
<1> QED
  BY <1>1, ScreeningInvariant, PTL DEF ScreeningSpec, PreviewKeepsMarks

-----------------------------------------------------------------------------
(* The rule in force exists: a bounded set of numbers has a greatest one,  *)
(* once for the first session of a rule and once for its registration.     *)

LEMMA LeastSession ==
  ASSUME NEW T \in SUBSET Nat, T # {}
  PROVE  \E m \in T : \A x \in T : m <= x
<1>1. PICK m \in T : \A x \in T : ~ (<<x, m>> \in OpToRel(<, Nat))
  BY NatLessThanWellFounded, WFMin
<1>2. \A x \in T : ~ (x < m)
  BY <1>1 DEF OpToRel
<1>3. m \in Nat /\ \A x \in T : x \in Nat
  OBVIOUS
<1> QED
  BY <1>2, <1>3

LEMMA GreatestNat ==
  ASSUME NEW N \in Nat, NEW T \in SUBSET (0 .. N), T # {}
  PROVE  \E m \in T : \A x \in T : x <= m
<1> DEFINE U == {N - x : x \in T}
<1>0. \A x \in T : x \in 0 .. N
  OBVIOUS
<1>1. U \in SUBSET Nat /\ U # {}
  <2>1. \A x \in T : N - x \in Nat
    BY <1>0
  <2> QED
    BY <2>1
<1>2. PICK u \in U : \A x \in U : u <= x
  BY <1>1, LeastSession
<1>3. PICK m \in T : u = N - m
  BY <1>2
<1>4. \A x \in T : u <= N - x
  BY <1>2
<1>5. \A x \in T : x <= m
  BY <1>0, <1>3, <1>4
<1> QED
  BY <1>5

Rules == [setup : Setups, from : Sessions, at : 1 .. MaxJournalStarts]

\* The first activation covers the journal from its start.
Begun(known) == known # {} => \E a \in known : a.from = 1

LEMMA RuleExists ==
  ASSUME NEW known \in SUBSET Rules, Begun(known), known # {}, NEW d \in Sessions
  PROVE  RuleAt(known, d) \in InForce(known, d)
<1> DEFINE S == InForce(known, d)
           F == {r.from : r \in S}
<1>1. S # {} /\ S \subseteq Rules
  BY JournalAssumption DEF Begun, InForce, Sessions
<1>2. F \in SUBSET (0 .. LastSession) /\ F # {}
  BY <1>1 DEF Rules, Sessions
<1>3. PICK f \in F : \A x \in F : x <= f
  BY <1>2, GreatestNat, JournalAssumption
<1> DEFINE A == {r.at : r \in {o \in S : o.from = f}}
<1>4. A \in SUBSET (0 .. MaxJournalStarts) /\ A # {}
  BY <1>1, <1>3 DEF Rules
<1>5. PICK a \in A : \A x \in A : x <= a
  BY <1>4, GreatestNat, JournalAssumption
<1>6. PICK r \in S : r.from = f /\ r.at = a
  BY <1>5
<1>7. ASSUME NEW o \in S
      PROVE  o.from < r.from \/ (o.from = r.from /\ o.at <= r.at)
  <2>1. o.from <= f /\ o.from \in Nat /\ f \in Nat
    BY <1>1, <1>2, <1>3 DEF Rules, Sessions
  <2>2. o.from = f => o.at <= a
    BY <1>5
  <2> QED
    BY <2>1, <2>2, <1>6
<1> QED
  BY <1>6, <1>7 DEF RuleAt

LEMMA RuleTyped ==
  ASSUME NEW known \in SUBSET Rules, Begun(known), known # {}, NEW d \in Sessions
  PROVE  /\ RuleAt(known, d).setup \in Setups
         /\ \E a \in known : a.setup = RuleAt(known, d).setup /\ a.from <= d
  BY RuleExists DEF InForce, Rules

LEMMA SetupIsNotNothing == \A s \in Setups : s # Nothing
<1> SUFFICES ASSUME NEW s \in Setups PROVE s # Nothing
  OBVIOUS
<1>1. s = [code |-> s.code, config |-> s.config]
  BY JournalAssumption
<1>2. "code" \in DOMAIN s
  BY <1>1
<1>3. "code" \notin DOMAIN Nothing
  BY DEF Nothing
<1> QED
  BY <1>2, <1>3

-----------------------------------------------------------------------------
(* The inductive invariant: what the objects hold, and what every run      *)
(* relies on by its step.                                                  *)

Recording == {"day", "archive", "marker"}

Runs ==
  [pc : {"rules", "activate", "keys", "session"} \cup Recording,
   setup : Setups, traded : SUBSET Sessions, asOf : Sessions, on : Sessions,
   at : 1 .. MaxJournalStarts, known : SUBSET Rules, done : SUBSET (Sessions \X Setups),
   to : 0 .. LastSession, date : 1 .. LastSession + 1, pending : SUBSET Sessions,
   reconstructed : 0 .. MaxReconstructions, optional : BOOLEAN, value : Results]

\* A result may be filed under a rule for a session.
Filed(value, d, s) ==
  /\ value # Nothing /\ value.setup = s /\ d <= value.through
  /\ value.kind = "OBSERVED" => value.through = d
  /\ \E a \in rules : a.setup = s /\ a.from <= d

Covered(d, pending) == d \in pending \/ \E s \in Setups : <<d, s>> \in completed

RunKnows(r) ==
  /\ catchUp[r].known \subseteq rules /\ Begun(catchUp[r].known)
  /\ catchUp[r].done \subseteq completed
  /\ catchUp[r].asOf <= today /\ catchUp[r].traded \subseteq 1 .. catchUp[r].asOf
  /\ catchUp[r].pc \notin {"rules", "activate"} => catchUp[r].known # {}
  /\ catchUp[r].pc \notin {"rules", "activate", "keys"} => catchUp[r].asOf - 1 <= catchUp[r].to

RunCovers(r) == \A d \in 1 .. catchUp[r].date - 1 : Covered(d, catchUp[r].pending)

RunRecords(r) ==
  /\ catchUp[r].pc \in Recording =>
       /\ catchUp[r].date <= catchUp[r].to
       /\ Filed(catchUp[r].value, catchUp[r].date, Rule(r))
  /\ catchUp[r].pc \in {"archive", "marker"} =>
       days[catchUp[r].date][Rule(r)] = catchUp[r].value
  /\ catchUp[r].pc = "marker" =>
       runArchive[catchUp[r].date][Rule(r)] = catchUp[r].value

RunOK(r) ==
  catchUp[r] # NoCatchUp =>
    catchUp[r] \in Runs /\ RunKnows(r) /\ RunCovers(r) /\ RunRecords(r)

ObjectsTyped ==
  /\ today \in Sessions /\ over \in {today - 1, today} /\ starts \in 0 .. MaxJournalStarts
  /\ rules \in SUBSET Rules /\ Begun(rules)
  /\ days \in [Sessions -> [Setups -> Results]]
  /\ runArchive \in [Sessions -> [Setups -> Results]]
  /\ completed \in SUBSET (Sessions \X Setups)
  /\ coverage.through \in 0 .. LastSession /\ coverage.pending \in SUBSET Sessions
  /\ catchUp \in [JournalRuns -> Runs \cup {NoCatchUp}]

SessionIsFaithful(d, s) ==
  /\ days[d][s] # Nothing => Filed(days[d][s], d, s)
  /\ runArchive[d][s] \in {Nothing, days[d][s]}
  /\ <<d, s>> \in completed => days[d][s] # Nothing /\ runArchive[d][s] = days[d][s]

JournalInv ==
  /\ ObjectsTyped
  /\ \A d \in Sessions, s \in Setups : SessionIsFaithful(d, s)
  /\ \A d \in 1 .. coverage.through - 1 : Covered(d, coverage.pending)
  /\ \A r \in JournalRuns : RunOK(r)

LEMMA InvImplies ==
  JournalInv => /\ JournalTypeOK /\ JournalIsFaithful
                /\ \A d \in 1 .. coverage.through - 1 : Accounted(d)
<1> SUFFICES ASSUME JournalInv
             PROVE  /\ JournalTypeOK /\ JournalIsFaithful
                    /\ \A d \in 1 .. coverage.through - 1 : Accounted(d)
  OBVIOUS
<1>1. ASSUME NEW r \in JournalRuns, catchUp[r] # NoCatchUp
      PROVE  /\ catchUp[r].setup \in Setups /\ catchUp[r].value \in Results
             /\ catchUp[r].known \subseteq rules /\ catchUp[r].done \subseteq completed
             /\ catchUp[r].date \in 1 .. LastSession + 1
             /\ catchUp[r].reconstructed \in 0 .. MaxReconstructions
  BY <1>1 DEF JournalInv, RunOK, RunKnows, Runs
<1>2. JournalTypeOK
  <2>1. over \in 0 .. LastSession
    BY JournalAssumption DEF JournalInv, ObjectsTyped, Sessions
  <2> QED
    BY <1>1, <2>1 DEF JournalInv, ObjectsTyped, JournalTypeOK, Rules
<1>3. JournalIsFaithful
  BY DEF JournalInv, SessionIsFaithful, Filed, JournalIsFaithful
<1>4. \A d \in 1 .. coverage.through - 1 : Accounted(d)
  BY DEF JournalInv, Covered, Accounted
<1> QED
  BY <1>2, <1>3, <1>4

LEMMA InvInit == JournalInit => JournalInv
<1> SUFFICES ASSUME JournalInit PROVE JournalInv
  OBVIOUS
<1>1. days = [d \in Sessions |-> [s \in Setups |-> Nothing]] /\ runArchive = days
  BY DEF JournalInit
<1>2. ObjectsTyped
  BY <1>1, JournalAssumption DEF JournalInit, ObjectsTyped, Sessions, Begun, Results
<1>3. \A d \in Sessions, s \in Setups : SessionIsFaithful(d, s)
  BY <1>1 DEF JournalInit, SessionIsFaithful
<1>4. coverage.through = 0 /\ \A r \in JournalRuns : RunOK(r)
  BY DEF JournalInit, RunOK
<1> QED
  BY <1>2, <1>3, <1>4 DEF JournalInv

-----------------------------------------------------------------------------
(* Objects only grow, so a run keeps what it relies on while others move.  *)

ObjectsGrow ==
  /\ rules \subseteq rules' /\ completed \subseteq completed' /\ today <= today' /\ today' \in Nat
  /\ \A d \in Sessions, s \in Setups :
       /\ days[d][s] # Nothing => days'[d][s] = days[d][s]
       /\ runArchive[d][s] # Nothing => runArchive'[d][s] = runArchive[d][s]

LEMMA RecordedRule ==
  ASSUME NEW r \in JournalRuns, catchUp[r] \in Runs, RunKnows(r),
         catchUp[r].pc \in Recording \cup {"session"}, catchUp[r].date <= catchUp[r].to
  PROVE  /\ catchUp[r].date \in Sessions /\ Rule(r) \in Setups
         /\ \E a \in rules : a.setup = Rule(r) /\ a.from <= catchUp[r].date
<1>1. catchUp[r].date \in Sessions
  BY JournalAssumption DEF Runs, Sessions
<1>2. catchUp[r].known \in SUBSET Rules /\ catchUp[r].known # {} /\ Begun(catchUp[r].known)
  BY DEF Runs, RunKnows, Recording
<1>3. catchUp[r].known \subseteq rules
  BY DEF RunKnows
<1> QED
  BY <1>1, <1>2, <1>3, RuleTyped DEF Rule

LEMMA RunStays ==
  ASSUME JournalInv, ObjectsGrow, NEW r \in JournalRuns, catchUp'[r] = catchUp[r]
  PROVE  RunOK(r)'
<1> SUFFICES ASSUME catchUp[r] # NoCatchUp
             PROVE  catchUp[r] \in Runs /\ RunKnows(r)' /\ RunCovers(r)' /\ RunRecords(r)'
  BY DEF RunOK
<1>1. catchUp[r] \in Runs /\ RunKnows(r) /\ RunCovers(r) /\ RunRecords(r)
  BY DEF JournalInv, RunOK
<1>2. RunKnows(r)'
  <2>1. today \in Nat /\ catchUp[r].asOf \in Nat
    BY <1>1 DEF JournalInv, ObjectsTyped, Runs, Sessions
  <2> QED
    BY <1>1, <2>1 DEF RunKnows, ObjectsGrow
<1>3. RunCovers(r)'
  BY <1>1 DEF RunCovers, Covered, ObjectsGrow
<1>4. RunRecords(r)'
  <2>1. Rule(r)' = Rule(r)
    BY DEF Rule
  <2>2. CASE catchUp[r].pc \in Recording
    <3>1. catchUp[r].date <= catchUp[r].to /\ Filed(catchUp[r].value, catchUp[r].date, Rule(r))
      BY <1>1, <2>2 DEF RunRecords
    <3>2. catchUp[r].date \in Sessions /\ Rule(r) \in Setups
      BY <1>1, <2>2, <3>1, RecordedRule
    <3>3. catchUp[r].value # Nothing
      BY <3>1 DEF Filed
    <3>4. Filed(catchUp[r].value, catchUp[r].date, Rule(r))'
      BY <3>1, <2>1 DEF ObjectsGrow, Filed
    <3> QED
      BY <1>1, <2>1, <3>1, <3>2, <3>3, <3>4 DEF RunRecords, ObjectsGrow
  <2>3. CASE catchUp[r].pc \notin Recording
    BY <2>3 DEF RunRecords, Recording
  <2> QED
    BY <2>2, <2>3
<1> QED
  BY <1>1, <1>2, <1>3, <1>4

\* A step of one run: what is left to show is its own part and the objects.
LEMMA OtherJobsStay ==
  ASSUME JournalInv, ObjectsGrow, ObjectsTyped', NEW r \in JournalRuns, RunOK(r)',
         catchUp' = [catchUp EXCEPT ![r] = catchUp'[r]],
         \A d \in Sessions, s \in Setups : SessionIsFaithful(d, s)',
         \A d \in 1 .. coverage'.through - 1 : Covered(d, coverage.pending)'
  PROVE  JournalInv'
<1>1. ASSUME NEW q \in JournalRuns PROVE RunOK(q)'
  <2>1. CASE q = r
    BY <2>1
  <2>2. CASE q # r
    <3>1. catchUp'[q] = catchUp[q]
      BY <2>2 DEF JournalInv, ObjectsTyped
    <3> QED
      BY <3>1, RunStays
  <2> QED
    BY <2>1, <2>2
<1> QED
  BY <1>1 DEF JournalInv

\* A step that writes no object.
LEMMA LocalStep ==
  ASSUME JournalInv, NEW r \in JournalRuns,
         UNCHANGED <<rules, days, runArchive, completed, coverage>>,
         over' = over /\ today' = today /\ starts' \in 0 .. MaxJournalStarts,
         catchUp' = [catchUp EXCEPT ![r] = catchUp'[r]],
         catchUp'[r] \in Runs \cup {NoCatchUp}, RunOK(r)'
  PROVE  JournalInv'
<1>1. ObjectsTyped'
  BY DEF JournalInv, ObjectsTyped, Begun
<1>2. ObjectsGrow
  <2>1. today \in Nat
    BY DEF JournalInv, ObjectsTyped, Sessions
  <2> QED
    BY <2>1 DEF ObjectsGrow
<1>3. ASSUME NEW d \in Sessions, NEW s \in Setups PROVE SessionIsFaithful(d, s)'
  <2>1. SessionIsFaithful(d, s)
    BY DEF JournalInv
  <2> QED
    BY <2>1 DEF SessionIsFaithful, Filed
<1>4. \A d \in 1 .. coverage'.through - 1 : Covered(d, coverage.pending)'
  BY DEF JournalInv, Covered
<1> QED
  BY <1>1, <1>2, <1>3, <1>4, OtherJobsStay

-----------------------------------------------------------------------------
(* One lemma per action.                                                   *)

LEMMA RunIsActive ==
  ASSUME JournalInv, NEW r \in JournalRuns, catchUp[r].pc # "idle"
  PROVE  catchUp[r] \in Runs /\ RunKnows(r) /\ RunCovers(r) /\ RunRecords(r)
  BY DEF JournalInv, RunOK, NoCatchUp

LEMMA StartKeeps ==
  ASSUME JournalInv, NEW r \in JournalRuns, NEW setup \in Setups, NEW asOf \in Sessions,
         NEW traded \in SUBSET Sessions, StartCatchUp(r, setup, asOf, traded)
  PROVE  JournalInv'
<1>1. catchUp'[r] =
        [pc |-> "rules", setup |-> setup, traded |-> traded, asOf |-> asOf,
         on |-> today, at |-> starts + 1, known |-> {}, done |-> {}, to |-> 0, date |-> 1,
         pending |-> {}, reconstructed |-> 0, optional |-> FALSE, value |-> Nothing]
  BY DEF StartCatchUp, JournalInv, ObjectsTyped
<1>2. starts' = starts + 1 /\ starts' \in 1 .. MaxJournalStarts
  BY JournalAssumption DEF StartCatchUp, JournalInv, ObjectsTyped
<1>3. today \in Sessions /\ starts + 1 \in 1 .. MaxJournalStarts
  BY <1>2 DEF JournalInv, ObjectsTyped
<1>4. catchUp'[r] \in Runs
  BY <1>1, <1>3, JournalAssumption DEF Runs, Recording, Results, Sessions
<1>5. RunOK(r)'
  <2>0. asOf <= today /\ traded \subseteq 1 .. asOf /\ today' = today
    BY DEF StartCatchUp, JournalInv, ObjectsTyped, Sessions
  <2>1. RunKnows(r)'
    BY <1>1, <2>0 DEF RunKnows, Begun
  <2>2. RunCovers(r)' /\ RunRecords(r)'
    BY <1>1 DEF RunCovers, RunRecords, Recording
  <2> QED
    BY <1>4, <2>1, <2>2 DEF RunOK
<1>6. catchUp' = [catchUp EXCEPT ![r] = catchUp'[r]]
  BY <1>1 DEF StartCatchUp
<1>7. starts' \in 0 .. MaxJournalStarts
  BY <1>2
<1>8. UNCHANGED <<rules, days, runArchive, completed, coverage>> /\ over' = over /\ today' = today
  BY DEF StartCatchUp, signalObjects
<1> QED
  BY <1>4, <1>5, <1>6, <1>7, <1>8, LocalStep

LEMMA LoadRulesKeeps ==
  ASSUME JournalInv, NEW r \in JournalRuns, LoadRules(r)
  PROVE  JournalInv'
<1> DEFINE c == catchUp[r]
           pc == IF Latest(rules, c.on) = c.setup THEN "keys" ELSE "activate"
<1>1. c \in Runs /\ RunKnows(r) /\ RunCovers(r) /\ c.pc = "rules"
  BY RunIsActive DEF LoadRules, JournalAt
<1>2. catchUp' = [catchUp EXCEPT ![r] = [c EXCEPT !.known = rules, !.pc = pc]]
  BY DEF LoadRules
<1>3. catchUp'[r] = [c EXCEPT !.known = rules, !.pc = pc]
  BY <1>2 DEF JournalInv, ObjectsTyped
<1>4. rules \in SUBSET Rules /\ Begun(rules) /\ pc \in {"keys", "activate"}
  BY DEF JournalInv, ObjectsTyped
<1>5. catchUp'[r] \in Runs
  BY <1>1, <1>3, <1>4 DEF Runs
<1>6. pc = "keys" => rules # {}
  BY <1>1, SetupIsNotNothing DEF Latest, InForce, Runs
<1> HIDE DEF pc
<1>7. RunOK(r)'
  <2>0. /\ catchUp'[r].known = rules /\ catchUp'[r].pc = pc
        /\ catchUp'[r].done = c.done /\ catchUp'[r].asOf = c.asOf
        /\ catchUp'[r].traded = c.traded /\ catchUp'[r].to = c.to
    BY <1>1, <1>3 DEF Runs
  <2>1. RunKnows(r)'
    BY <1>1, <2>0, <1>4, <1>6 DEF RunKnows, LoadRules, ObjectsStay, signalObjects, Begun
  <2>2. RunCovers(r)'
    BY <1>1, <1>3 DEF RunCovers, Covered, LoadRules, ObjectsStay, signalObjects, Runs
  <2>3. RunRecords(r)'
    BY <1>1, <1>3, <1>4 DEF RunRecords, Recording, Runs
  <2> QED
    BY <1>5, <2>1, <2>2, <2>3 DEF RunOK
<1> QED
  BY <1>2, <1>3, <1>5, <1>7, LocalStep
  DEF LoadRules, ObjectsStay, signalObjects, JournalInv, ObjectsTyped

LEMMA LoadCompletedKeeps ==
  ASSUME JournalInv, NEW r \in JournalRuns, LoadCompleted(r)
  PROVE  JournalInv'
<1> DEFINE c == catchUp[r]
           n == [c EXCEPT !.pc = "session", !.done = completed, !.to = over]
<1>1. c \in Runs /\ RunKnows(r) /\ RunCovers(r) /\ c.pc = "keys"
  BY RunIsActive DEF LoadCompleted, JournalAt
<1>2. catchUp' = [catchUp EXCEPT ![r] = n] /\ catchUp'[r] = n
  BY DEF LoadCompleted, JournalInv, ObjectsTyped
<1>3. /\ completed \in SUBSET (Sessions \X Setups) /\ over \in 0 .. LastSession
      /\ today \in Nat /\ today - 1 <= over
  BY JournalAssumption DEF JournalInv, ObjectsTyped, Sessions
<1>4. n \in Runs
  BY <1>1, <1>3 DEF Runs
<1>5. RunOK(r)'
  <2>1. RunKnows(r)'
    BY <1>1, <1>2, <1>3 DEF RunKnows, LoadCompleted, ObjectsStay, signalObjects, Runs, Begun, Sessions
  <2>2. RunCovers(r)'
    BY <1>1, <1>2 DEF RunCovers, Covered, LoadCompleted, ObjectsStay, signalObjects, Runs
  <2>3. RunRecords(r)'
    BY <1>1, <1>2 DEF RunRecords, Recording, Runs
  <2> QED
    BY <1>2, <1>4, <2>1, <2>2, <2>3 DEF RunOK
<1> QED
  BY <1>2, <1>4, <1>5, LocalStep
  DEF LoadCompleted, ObjectsStay, signalObjects, JournalInv, ObjectsTyped

LEMMA EndKeeps ==
  ASSUME JournalInv, NEW r \in JournalRuns, JournalFail(r)
  PROVE  JournalInv'
<1>1. catchUp' = [catchUp EXCEPT ![r] = NoCatchUp] /\ catchUp'[r] = NoCatchUp
  BY DEF JournalFail, CatchUpEnds, JournalInv, ObjectsTyped
<1>2. RunOK(r)'
  BY <1>1 DEF RunOK
<1> QED
  BY <1>1, <1>2, LocalStep DEF JournalFail, ObjectsStay, signalObjects, JournalInv, ObjectsTyped

\* To the next session, which the present one need not hold up: it is
\* completed or pending.
LEMMA NextSessionKeeps ==
  ASSUME JournalInv, NEW r \in JournalRuns, ObjectsStay, catchUp[r] \in Runs,
         catchUp[r].pc \in Recording \cup {"session"}, catchUp[r].date <= catchUp[r].to,
         NEW pending \in SUBSET Sessions, catchUp[r].pending \subseteq pending,
         Covered(catchUp[r].date, pending),
         catchUp' = [catchUp EXCEPT ![r] =
           [catchUp[r] EXCEPT !.date = catchUp[r].date + 1, !.pc = "session", !.pending = pending]]
  PROVE  JournalInv'
<1> DEFINE c == catchUp[r]
           n == [c EXCEPT !.date = c.date + 1, !.pc = "session", !.pending = pending]
<1>1. RunKnows(r) /\ RunCovers(r)
  BY RunIsActive DEF Recording
<1>2. catchUp'[r] = n
  BY DEF JournalInv, ObjectsTyped
<1>3. c.date + 1 \in 1 .. LastSession + 1
  BY JournalAssumption DEF Runs
<1>4. n \in Runs
  BY <1>3 DEF Runs
<1>5. RunOK(r)'
  <2>0. n.pc = "session" /\ n.date = c.date + 1 /\ n.pending = pending
    BY DEF Runs
  <2>1. RunKnows(r)'
    BY <1>1, <1>2 DEF RunKnows, ObjectsStay, signalObjects, Runs, Begun, Recording
  <2>2. RunCovers(r)'
    <3>1. \A d \in 1 .. c.date : Covered(d, pending)
      BY <1>1 DEF RunCovers, Covered, Runs
    <3>2. catchUp'[r].date = c.date + 1 /\ catchUp'[r].pending = pending
      BY <1>2, <2>0
    <3>3. catchUp'[r].date - 1 = c.date
      BY <1>3, <3>2 DEF Runs
    <3> QED
      BY <3>1, <3>2, <3>3 DEF RunCovers, Covered, ObjectsStay, signalObjects
  <2>3. RunRecords(r)'
    BY <1>2, <2>0 DEF RunRecords, Recording
  <2> QED
    BY <1>2, <1>4, <2>1, <2>2, <2>3 DEF RunOK
<1> QED
  BY <1>2, <1>4, <1>5, LocalStep DEF ObjectsStay, signalObjects, JournalInv, ObjectsTyped

LEMMA AlreadyCompletedKeeps ==
  ASSUME JournalInv, NEW r \in JournalRuns, AlreadyCompleted(r)
  PROVE  JournalInv'
<1> DEFINE c == catchUp[r]
<1>1. c \in Runs /\ RunKnows(r) /\ c.pc = "session" /\ c.date <= c.to
  BY RunIsActive DEF AlreadyCompleted, JournalAt
<1>2. Covered(c.date, c.pending)
  <2>1. Rule(r) \in Setups
    BY <1>1, RecordedRule
  <2> QED
    BY <1>1, <2>1 DEF AlreadyCompleted, Key, RunKnows, Covered
<1>3. catchUp' = [catchUp EXCEPT ![r] =
        [c EXCEPT !.date = c.date + 1, !.pc = "session", !.pending = c.pending]]
  <2> DEFINE m == [c EXCEPT !.date = c.date + 1, !.pc = "session"]
  <2>1. catchUp' = [catchUp EXCEPT ![r] = m]
    BY DEF AlreadyCompleted, Skip
  <2>2. m = [c EXCEPT !.date = c.date + 1, !.pc = "session", !.pending = c.pending]
    BY <1>1 DEF Runs
  <2> HIDE DEF m
  <2> QED
    BY <2>1, <2>2
<1>4. c.pending \in SUBSET Sessions
  BY <1>1 DEF Runs
<1> QED
  BY <1>1, <1>2, <1>3, <1>4, NextSessionKeeps DEF AlreadyCompleted

\* Waiting for a session makes it pending.
LEMMA JobWaits ==
  ASSUME JournalInv, NEW r \in JournalRuns, ObjectsStay, Wait(r),
         catchUp[r].pc \in Recording \cup {"session"}, catchUp[r].date <= catchUp[r].to
  PROVE  JournalInv'
<1> DEFINE c == catchUp[r]
           pending == c.pending \cup {c.date}
<1>1. c \in Runs /\ RunKnows(r)
  BY RunIsActive DEF Recording
<1>2. pending \in SUBSET Sessions
  BY <1>1, RecordedRule DEF Runs
<1>3. catchUp' = [catchUp EXCEPT ![r] =
        [c EXCEPT !.date = c.date + 1, !.pc = "session", !.pending = pending]]
  <2> DEFINE m == [c EXCEPT !.date = c.date + 1, !.pc = "session", !.pending = c.pending \cup {c.date}]
  <2>1. catchUp' = [catchUp EXCEPT ![r] = m]
    BY DEF Wait
  <2>2. m = [c EXCEPT !.date = c.date + 1, !.pc = "session", !.pending = pending]
    BY <1>1 DEF Runs
  <2> HIDE DEF m
  <2> QED
    BY <2>1, <2>2
<1>4. Covered(c.date, pending)
  BY DEF Covered
<1> QED
  BY <1>1, <1>2, <1>3, <1>4, NextSessionKeeps

LEMMA ReconstructionFailsKeeps ==
  ASSUME JournalInv, NEW r \in JournalRuns, ReconstructionFails(r)
  PROVE  JournalInv'
<1>1. catchUp[r].pc \in Recording
  BY DEF ReconstructionFails, Recording
<1>2. catchUp[r].date <= catchUp[r].to
  BY <1>1, RunIsActive DEF RunRecords, Recording
<1> QED
  BY <1>1, <1>2, JobWaits DEF ReconstructionFails

\* A result that may be filed under the rule in force is taken up.
LEMMA RecordKeeps ==
  ASSUME JournalInv, NEW r \in JournalRuns, ObjectsStay, JournalAt(r, "session"),
         catchUp[r].date <= catchUp[r].to,
         NEW value \in Results, Filed(value, catchUp[r].date, Rule(r)),
         NEW optional \in BOOLEAN, optional => catchUp[r].reconstructed < MaxReconstructions,
         RecordAs(r, value, optional)
  PROVE  JournalInv'
<1> DEFINE c == catchUp[r]
           count == c.reconstructed + (IF optional THEN 1 ELSE 0)
           n == [c EXCEPT !.pc = "day", !.value = value, !.optional = optional,
                          !.reconstructed = count]
<1>1. c \in Runs /\ RunKnows(r) /\ RunCovers(r) /\ c.pc = "session"
  BY RunIsActive DEF JournalAt
<1>2. catchUp' = [catchUp EXCEPT ![r] = n] /\ catchUp'[r] = n
  BY DEF RecordAs, JournalInv, ObjectsTyped
<1>3. count \in 0 .. MaxReconstructions
  BY <1>1, JournalAssumption DEF Runs
<1> HIDE DEF count
<1>4. n \in Runs
  BY <1>1, <1>3 DEF Runs, Recording
<1>5. RunOK(r)'
  <2>0. /\ n.pc = "day" /\ n.value = value /\ n.date = c.date /\ n.known = c.known
        /\ n.to = c.to /\ n.pending = c.pending
    BY <1>1 DEF Runs
  <2>1. RunKnows(r)'
    BY <1>1, <1>2 DEF RunKnows, ObjectsStay, signalObjects, Runs, Begun
  <2>2. RunCovers(r)'
    BY <1>1, <1>2, <2>0 DEF RunCovers, Covered, ObjectsStay, signalObjects
  <2>3. RunRecords(r)'
    <3>1. Rule(r)' = Rule(r)
      BY <1>2, <2>0 DEF Rule
    <3>2. catchUp'[r].date = c.date /\ catchUp'[r].value = value
      BY <1>2, <2>0
    <3>3. Filed(catchUp[r].value, catchUp[r].date, Rule(r))'
      BY <3>1, <3>2 DEF Filed, ObjectsStay, signalObjects
    <3> QED
      BY <1>2, <2>0, <3>2, <3>3 DEF RunRecords
  <2> QED
    BY <1>2, <1>4, <2>1, <2>2, <2>3 DEF RunOK
<1> QED
  BY <1>2, <1>4, <1>5, LocalStep DEF ObjectsStay, signalObjects, JournalInv, ObjectsTyped

LEMMA ReadDayKeeps ==
  ASSUME JournalInv, NEW r \in JournalRuns, ReadDay(r)
  PROVE  JournalInv'
<1> DEFINE c == catchUp[r]
           saved == days[c.date][Rule(r)]
           observed == Result(c.setup, c.asOf, "OBSERVED")
           again == Result([code |-> c.setup.code, config |-> Rule(r).config],
                           c.asOf, "RECONSTRUCTED")
<1>1. c \in Runs /\ RunKnows(r) /\ c.pc = "session" /\ c.date <= c.to
  BY RunIsActive DEF ReadDay, JournalAt
<1>2. /\ c.date \in Sessions /\ Rule(r) \in Setups
      /\ \E a \in rules : a.setup = Rule(r) /\ a.from <= c.date
  BY <1>1, RecordedRule
<1>3. CASE saved # Nothing
  <2>1. Filed(saved, c.date, Rule(r)) /\ saved \in Results
    BY <1>2, <1>3 DEF JournalInv, SessionIsFaithful, ObjectsTyped
  <2> QED
    BY <1>1, <1>3, <2>1, RecordKeeps DEF ReadDay
<1>4. CASE saved = Nothing /\ Computable(r) /\ c.date = c.asOf /\ Rule(r) = c.setup
  <2>1. observed \in Results /\ observed # Nothing
    BY <1>1 DEF Results, Result, Runs, Nothing
  <2>2. Filed(observed, c.date, Rule(r))
    BY <1>1, <1>2, <1>4, <2>1 DEF Filed, Result, Runs, Sessions
  <2> QED
    BY <1>1, <1>4, <2>1, <2>2, RecordKeeps DEF ReadDay
<1>5. CASE /\ saved = Nothing /\ Computable(r) /\ ~(c.date = c.asOf /\ Rule(r) = c.setup)
           /\ ~(c.reconstructed >= MaxReconstructions)
  <2>0. [code |-> c.setup.code, config |-> Rule(r).config] = Rule(r)
    BY <1>2, <1>5, JournalAssumption DEF Computable
  <2>1. again \in Results /\ again # Nothing
    BY <1>1, <1>2, <2>0 DEF Results, Result, Runs, Nothing
  <2>2. c.date <= c.asOf
    BY <1>1, <1>5 DEF Computable, RunKnows, Runs, Sessions
  <2>3. Filed(again, c.date, Rule(r))
    BY <1>2, <2>0, <2>1, <2>2 DEF Filed, Result
  <2>4. c.reconstructed < MaxReconstructions
    BY <1>1, <1>5, JournalAssumption DEF Runs
  <2> QED
    BY <1>1, <1>5, <2>1, <2>3, <2>4, RecordKeeps DEF ReadDay
<1>6. CASE saved = Nothing /\ (~Computable(r)
             \/ (~(c.date = c.asOf /\ Rule(r) = c.setup) /\ c.reconstructed >= MaxReconstructions))
  <2>1. Wait(r) /\ ObjectsStay
    BY <1>6 DEF ReadDay
  <2> QED
    BY <1>1, <2>1, JobWaits
<1> QED
  BY <1>3, <1>4, <1>5, <1>6

-----------------------------------------------------------------------------
(* The steps that write.                                                   *)

LEMMA ActivateKeeps ==
  ASSUME JournalInv, NEW r \in JournalRuns, Activate(r)
  PROVE  JournalInv'
<1> DEFINE c == catchUp[r]
           rule == Activation(r)
           n == [c EXCEPT !.pc = "keys", !.known = c.known \cup {rule}]
<1>1. c \in Runs /\ RunKnows(r) /\ RunCovers(r) /\ c.pc = "activate"
  BY RunIsActive DEF Activate, JournalAt
<1>2. rule \in Rules /\ (c.known = {} => rule.from = 1)
  BY <1>1, JournalAssumption DEF Activation, Rules, Runs, Sessions
<1>3. rules' = rules \cup {rule} /\ catchUp' = [catchUp EXCEPT ![r] = n] /\ catchUp'[r] = n
  BY DEF Activate, JournalInv, ObjectsTyped
<1>4. Begun(c.known \cup {rule}) /\ Begun(rules \cup {rule})
  BY <1>1, <1>2 DEF RunKnows, Begun
<1> HIDE DEF rule
<1>5. n \in Runs
  BY <1>1, <1>2 DEF Runs
<1>6. ObjectsGrow
  BY <1>3 DEF ObjectsGrow, Activate, JournalInv, ObjectsTyped, Sessions
<1>7. ObjectsTyped'
  BY <1>2, <1>3, <1>4, <1>5 DEF Activate, JournalInv, ObjectsTyped
<1>8. RunOK(r)'
  <2>0. /\ n.pc = "keys" /\ n.known = c.known \cup {rule} /\ n.date = c.date
        /\ n.pending = c.pending
    BY <1>1 DEF Runs
  <2>1. RunKnows(r)'
    BY <1>1, <1>3, <1>4, <2>0 DEF RunKnows, Activate, Runs
  <2>2. RunCovers(r)' /\ RunRecords(r)'
    BY <1>1, <1>3, <2>0 DEF RunCovers, RunRecords, Covered, Recording, Activate
  <2> QED
    BY <1>3, <1>5, <2>1, <2>2 DEF RunOK
<1>9. ASSUME NEW d \in Sessions, NEW s \in Setups PROVE SessionIsFaithful(d, s)'
  <2>1. SessionIsFaithful(d, s)
    BY DEF JournalInv
  <2> QED
    BY <1>3, <2>1 DEF SessionIsFaithful, Filed, Activate
<1>10. \A d \in 1 .. coverage'.through - 1 : Covered(d, coverage.pending)'
  BY DEF JournalInv, Covered, Activate
<1> QED
  BY <1>3, <1>6, <1>7, <1>8, <1>9, <1>10, OtherJobsStay

LEMMA SaveCoverageKeeps ==
  ASSUME JournalInv, NEW r \in JournalRuns, SaveCoverage(r)
  PROVE  JournalInv'
<1> DEFINE c == catchUp[r]
<1>1. c \in Runs /\ RunKnows(r) /\ RunCovers(r) /\ c.pc = "session" /\ c.date > c.to
  BY RunIsActive DEF SaveCoverage, JournalAt
<1>2. catchUp' = [catchUp EXCEPT ![r] = NoCatchUp] /\ catchUp'[r] = NoCatchUp
  BY DEF SaveCoverage, CatchUpEnds, JournalInv, ObjectsTyped
<1>3. coverage'.through = c.asOf /\ coverage'.pending = c.pending
  BY DEF SaveCoverage
<1>4. c.asOf \in 0 .. LastSession /\ c.pending \in SUBSET Sessions
  BY <1>1, JournalAssumption DEF Runs, Sessions
<1>5. ObjectsTyped'
  BY <1>2, <1>3, <1>4 DEF SaveCoverage, JournalInv, ObjectsTyped, Begun
<1>6. ObjectsGrow
  BY DEF ObjectsGrow, SaveCoverage, JournalInv, ObjectsTyped, Sessions
<1>7. RunOK(r)'
  BY <1>2 DEF RunOK
<1>8. ASSUME NEW d \in Sessions, NEW s \in Setups PROVE SessionIsFaithful(d, s)'
  <2>1. SessionIsFaithful(d, s)
    BY DEF JournalInv
  <2> QED
    BY <2>1 DEF SessionIsFaithful, Filed, SaveCoverage
<1>9. \A d \in 1 .. coverage'.through - 1 : Covered(d, coverage.pending)'
  <2>1. \A d \in 1 .. c.asOf - 1 : d \in 1 .. c.date - 1
    BY <1>1 DEF RunKnows, Runs, Sessions
  <2>2. \A d \in 1 .. c.asOf - 1 : Covered(d, c.pending)
    BY <1>1, <2>1 DEF RunCovers
  <2> QED
    BY <1>3, <2>2 DEF Covered, SaveCoverage
<1> QED
  BY <1>2, <1>5, <1>6, <1>7, <1>8, <1>9, OtherJobsStay

\* The run and session a recording step is about.
LEMMA RecordingRun ==
  ASSUME JournalInv, NEW r \in JournalRuns, catchUp[r].pc \in Recording
  PROVE  /\ catchUp[r] \in Runs /\ RunKnows(r) /\ RunCovers(r) /\ RunRecords(r)
         /\ catchUp[r].date \in Sessions /\ Rule(r) \in Setups
         /\ catchUp[r].date <= catchUp[r].to
         /\ Filed(catchUp[r].value, catchUp[r].date, Rule(r))
<1>1. catchUp[r] \in Runs /\ RunKnows(r) /\ RunCovers(r) /\ RunRecords(r)
  BY RunIsActive DEF Recording
<1>2. catchUp[r].date <= catchUp[r].to /\ Filed(catchUp[r].value, catchUp[r].date, Rule(r))
  BY <1>1 DEF RunRecords
<1> QED
  BY <1>1, <1>2, RecordedRule

LEMMA WriteDayKeeps ==
  ASSUME JournalInv, NEW r \in JournalRuns, WriteDay(r)
  PROVE  JournalInv'
<1> DEFINE c == catchUp[r]
           t == c.date
           u == Rule(r)
           saved == IF days[t][u] = Nothing THEN c.value ELSE days[t][u]
           n == [c EXCEPT !.pc = "archive", !.value = saved]
<1>1. /\ c \in Runs /\ RunKnows(r) /\ RunCovers(r) /\ t \in Sessions /\ u \in Setups
      /\ t <= c.to /\ Filed(c.value, t, u) /\ c.pc = "day"
  BY RecordingRun DEF WriteDay, JournalAt, Recording
<1>2. days' = [days EXCEPT ![t][u] = saved]
  BY DEF WriteDay
<1>3. catchUp' = [catchUp EXCEPT ![r] = n] /\ catchUp'[r] = n
  BY DEF WriteDay, JournalInv, ObjectsTyped
<1>4. saved \in Results /\ Filed(saved, t, u)
  <2>1. c.value \in Results /\ days[t][u] \in Results
    BY <1>1 DEF Runs, JournalInv, ObjectsTyped
  <2>2. days[t][u] # Nothing => Filed(days[t][u], t, u)
    BY <1>1 DEF JournalInv, SessionIsFaithful
  <2> QED
    BY <1>1, <2>1, <2>2
<1> HIDE DEF saved
<1>5. n \in Runs
  BY <1>1, <1>4 DEF Runs, Recording
<1>6. ASSUME NEW d \in Sessions, NEW s \in Setups
      PROVE  days'[d][s] = IF d = t /\ s = u THEN saved ELSE days[d][s]
  BY <1>1, <1>2 DEF JournalInv, ObjectsTyped
<1>7. \A d \in Sessions, s \in Setups : days[d][s] # Nothing => days'[d][s] = days[d][s]
  BY <1>6 DEF saved
<1>8. ObjectsGrow
  BY <1>7 DEF ObjectsGrow, WriteDay, JournalInv, ObjectsTyped, Sessions
<1>9. ObjectsTyped'
  <2>1. days' \in [Sessions -> [Setups -> Results]]
    BY <1>1, <1>2, <1>4 DEF JournalInv, ObjectsTyped
  <2> QED
    BY <2>1, <1>3, <1>5 DEF WriteDay, JournalInv, ObjectsTyped, Begun
<1>10. RunOK(r)'
  <2>0. /\ n.pc = "archive" /\ n.known = c.known /\ n.date = c.date /\ n.value = saved
        /\ n.pending = c.pending /\ n.to = c.to
    BY <1>1 DEF Runs
  <2>1. RunKnows(r)'
    BY <1>1, <1>3 DEF RunKnows, WriteDay, Runs, Begun
  <2>2. RunCovers(r)'
    BY <1>1, <1>3, <2>0 DEF RunCovers, Covered, WriteDay
  <2>3. RunRecords(r)'
    <3>1. Rule(r)' = u
      BY <1>3, <2>0 DEF Rule
    <3>2. days'[t][u] = saved
      BY <1>1, <1>6
    <3>3. Filed(catchUp[r].value, catchUp[r].date, Rule(r))'
      BY <1>3, <1>4, <2>0, <3>1 DEF Filed, WriteDay
    <3> QED
      BY <1>1, <1>3, <2>0, <3>1, <3>2, <3>3 DEF RunRecords
  <2> QED
    BY <1>3, <1>5, <2>1, <2>2, <2>3 DEF RunOK
<1>11. ASSUME NEW d \in Sessions, NEW s \in Setups PROVE SessionIsFaithful(d, s)'
  <2>1. SessionIsFaithful(d, s)
    BY DEF JournalInv
  <2>2. days'[d][s] # Nothing => Filed(days'[d][s], d, s)
    BY <2>1, <1>4, <1>6 DEF SessionIsFaithful
  <2>3. UNCHANGED <<rules, runArchive, completed>>
    BY DEF WriteDay
  <2>4. days[d][s] # Nothing => days'[d][s] = days[d][s]
    BY <1>7
  <2> QED
    BY <2>1, <2>2, <2>3, <2>4 DEF SessionIsFaithful, Filed
<1>12. \A d \in 1 .. coverage'.through - 1 : Covered(d, coverage.pending)'
  BY DEF JournalInv, Covered, WriteDay
<1> QED
  BY <1>3, <1>8, <1>9, <1>10, <1>11, <1>12, OtherJobsStay

LEMMA ArchiveDayKeeps ==
  ASSUME JournalInv, NEW r \in JournalRuns, ArchiveDay(r)
  PROVE  JournalInv'
<1> DEFINE c == catchUp[r]
           t == c.date
           u == Rule(r)
           v == c.value
           n == [c EXCEPT !.pc = "marker"]
<1>1. /\ c \in Runs /\ RunKnows(r) /\ RunCovers(r) /\ t \in Sessions /\ u \in Setups
      /\ t <= c.to /\ Filed(v, t, u) /\ c.pc = "archive" /\ days[t][u] = v
  BY RecordingRun DEF ArchiveDay, JournalAt, Recording, RunRecords
<1>2. runArchive[t][u] \in {Nothing, v} /\ runArchive' = [runArchive EXCEPT ![t][u] = v]
  BY DEF ArchiveDay
<1>3. catchUp' = [catchUp EXCEPT ![r] = n] /\ catchUp'[r] = n
  BY DEF ArchiveDay, CatchUpTo, JournalInv, ObjectsTyped
<1>4. v \in Results /\ n \in Runs
  BY <1>1 DEF Runs, Recording
<1>5. ASSUME NEW d \in Sessions, NEW s \in Setups
      PROVE  runArchive'[d][s] = IF d = t /\ s = u THEN v ELSE runArchive[d][s]
  BY <1>1, <1>2 DEF JournalInv, ObjectsTyped
<1>6. \A d \in Sessions, s \in Setups :
        runArchive[d][s] # Nothing => runArchive'[d][s] = runArchive[d][s]
  BY <1>2, <1>5
<1>7. ObjectsGrow
  BY <1>6 DEF ObjectsGrow, ArchiveDay, JournalInv, ObjectsTyped, Sessions
<1>8. ObjectsTyped'
  <2>1. runArchive' \in [Sessions -> [Setups -> Results]]
    BY <1>1, <1>2, <1>4 DEF JournalInv, ObjectsTyped
  <2> QED
    BY <2>1, <1>3, <1>4 DEF ArchiveDay, JournalInv, ObjectsTyped, Begun
<1>9. RunOK(r)'
  <2>0. /\ n.pc = "marker" /\ n.known = c.known /\ n.date = t /\ n.value = v
        /\ n.pending = c.pending /\ n.to = c.to
    BY <1>1 DEF Runs
  <2>1. RunKnows(r)'
    BY <1>1, <1>3 DEF RunKnows, ArchiveDay, Runs, Begun
  <2>2. RunCovers(r)'
    BY <1>1, <1>3, <2>0 DEF RunCovers, Covered, ArchiveDay
  <2>3. RunRecords(r)'
    <3>1. Rule(r)' = u
      BY <1>3, <2>0 DEF Rule
    <3>2. runArchive'[t][u] = v /\ days'[t][u] = v
      BY <1>1, <1>5 DEF ArchiveDay
    <3>3. Filed(catchUp[r].value, catchUp[r].date, Rule(r))'
      BY <1>1, <1>3, <2>0, <3>1 DEF Filed, ArchiveDay
    <3> QED
      BY <1>1, <1>3, <2>0, <3>1, <3>2, <3>3 DEF RunRecords
  <2> QED
    BY <1>3, <1>4, <2>1, <2>2, <2>3 DEF RunOK
<1>10. ASSUME NEW d \in Sessions, NEW s \in Setups PROVE SessionIsFaithful(d, s)'
  <2>1. SessionIsFaithful(d, s)
    BY DEF JournalInv
  <2>2. UNCHANGED <<rules, days, completed>>
    BY DEF ArchiveDay
  <2>3. runArchive'[d][s] \in {Nothing, days[d][s]}
    BY <1>1, <1>5, <2>1 DEF SessionIsFaithful
  <2>4. <<d, s>> \in completed => runArchive'[d][s] = days[d][s]
    BY <1>1, <1>5, <2>1 DEF SessionIsFaithful
  <2> QED
    BY <2>1, <2>2, <2>3, <2>4 DEF SessionIsFaithful, Filed
<1>11. \A d \in 1 .. coverage'.through - 1 : Covered(d, coverage.pending)'
  BY DEF JournalInv, Covered, ArchiveDay
<1> QED
  BY <1>3, <1>7, <1>8, <1>9, <1>10, <1>11, OtherJobsStay

LEMMA MarkCompletedKeeps ==
  ASSUME JournalInv, NEW r \in JournalRuns, MarkCompleted(r)
  PROVE  JournalInv'
<1> DEFINE c == catchUp[r]
           t == c.date
           u == Rule(r)
           n == [c EXCEPT !.date = c.date + 1, !.pc = "session", !.value = Nothing]
<1>1. /\ c \in Runs /\ RunKnows(r) /\ RunCovers(r) /\ t \in Sessions /\ u \in Setups
      /\ t <= c.to /\ Filed(c.value, t, u) /\ c.pc = "marker"
      /\ days[t][u] = c.value /\ runArchive[t][u] = c.value
  BY RecordingRun DEF MarkCompleted, JournalAt, Recording, RunRecords
<1>2. completed' = completed \cup {<<t, u>>}
  BY DEF MarkCompleted, Key
<1>3. catchUp' = [catchUp EXCEPT ![r] = n] /\ catchUp'[r] = n
  BY DEF MarkCompleted, JournalInv, ObjectsTyped
<1>4. t + 1 \in 1 .. LastSession + 1
  BY <1>1, JournalAssumption DEF Sessions
<1>5. n \in Runs
  BY <1>1, <1>4 DEF Runs, Results
<1>6. ObjectsGrow
  BY <1>2 DEF ObjectsGrow, MarkCompleted, JournalInv, ObjectsTyped, Sessions
<1>7. ObjectsTyped'
  BY <1>1, <1>2, <1>3, <1>5 DEF MarkCompleted, JournalInv, ObjectsTyped, Begun
<1>8. RunOK(r)'
  <2>0. n.pc = "session" /\ n.date = t + 1 /\ n.pending = c.pending
    BY <1>1 DEF Runs
  <2>1. RunKnows(r)'
    BY <1>1, <1>2, <1>3 DEF RunKnows, MarkCompleted, Runs, Begun
  <2>2. RunCovers(r)'
    <3>1. \A d \in 1 .. t : d \in c.pending \/ \E s \in Setups : <<d, s>> \in completed'
      <4>1. \A d \in 1 .. t : d \in 1 .. t - 1 \/ d = t
        BY <1>1 DEF Sessions
      <4>2. \A d \in 1 .. t - 1 : Covered(d, c.pending)
        BY <1>1 DEF RunCovers
      <4>3. <<t, u>> \in completed' /\ completed \subseteq completed' /\ u \in Setups
        BY <1>1, <1>2
      <4> QED
        BY <4>1, <4>2, <4>3 DEF Covered
    <3>2. catchUp'[r].date - 1 = t
      <4>1. catchUp'[r].date = t + 1
        BY <1>3, <2>0
      <4>2. t \in Nat
        BY <1>1 DEF Sessions
      <4> QED
        BY <4>1, <4>2
    <3>3. catchUp'[r].pending = c.pending
      BY <1>3, <2>0
    <3> QED
      BY <3>1, <3>2, <3>3 DEF RunCovers, Covered
  <2>3. RunRecords(r)'
    BY <1>3, <2>0 DEF RunRecords, Recording
  <2> QED
    BY <1>3, <1>5, <2>1, <2>2, <2>3 DEF RunOK
<1>9. ASSUME NEW d \in Sessions, NEW s \in Setups PROVE SessionIsFaithful(d, s)'
  <2>1. SessionIsFaithful(d, s) /\ UNCHANGED <<rules, days, runArchive>>
    BY DEF JournalInv, MarkCompleted
  <2>2. c.value # Nothing
    BY <1>1 DEF Filed
  <2> QED
    BY <1>1, <1>2, <2>1, <2>2 DEF SessionIsFaithful, Filed
<1>10. \A d \in 1 .. coverage'.through - 1 : Covered(d, coverage.pending)'
  BY <1>2 DEF JournalInv, Covered, MarkCompleted
<1> QED
  BY <1>3, <1>6, <1>7, <1>8, <1>9, <1>10, OtherJobsStay

\* Time passes.
LEMMA TimeKeeps ==
  ASSUME JournalInv, NextDay \/ SessionCloses
  PROVE  JournalInv'
<1>1. UNCHANGED <<rules, days, runArchive, completed, coverage, catchUp, starts>>
  BY DEF NextDay, SessionCloses, signalObjects
<1>2. today' \in Sessions /\ over' \in {today' - 1, today'} /\ today <= today'
  BY JournalAssumption DEF JournalInv, ObjectsTyped, NextDay, SessionCloses, Sessions
<1>3. ObjectsGrow
  BY <1>1, <1>2 DEF ObjectsGrow, Sessions
<1>4. ObjectsTyped'
  BY <1>1, <1>2 DEF JournalInv, ObjectsTyped, Begun
<1>5. \A r \in JournalRuns : RunOK(r)'
  BY <1>1, <1>3, RunStays
<1>6. ASSUME NEW d \in Sessions, NEW s \in Setups PROVE SessionIsFaithful(d, s)'
  <2>1. SessionIsFaithful(d, s)
    BY DEF JournalInv
  <2> QED
    BY <1>1, <2>1 DEF SessionIsFaithful, Filed
<1>7. \A d \in 1 .. coverage'.through - 1 : Covered(d, coverage.pending)'
  BY <1>1 DEF JournalInv, Covered
<1> QED
  BY <1>4, <1>5, <1>6, <1>7 DEF JournalInv

LEMMA InvStep == JournalInv /\ [JournalNext]_journalVars => JournalInv'
<1> SUFFICES ASSUME JournalInv, [JournalNext]_journalVars
             PROVE  JournalInv'
  OBVIOUS
<1>1. CASE NextDay \/ SessionCloses
  BY <1>1, TimeKeeps
<1>2. ASSUME NEW r \in JournalRuns, NEW setup \in Setups, NEW asOf \in Sessions,
             NEW traded \in SUBSET Sessions, StartCatchUp(r, setup, asOf, traded)
      PROVE  JournalInv'
  BY <1>2, StartKeeps
<1>3. ASSUME NEW r \in JournalRuns, LoadRules(r) PROVE JournalInv'
  BY <1>3, LoadRulesKeeps
<1>4. ASSUME NEW r \in JournalRuns, Activate(r) PROVE JournalInv'
  BY <1>4, ActivateKeeps
<1>5. ASSUME NEW r \in JournalRuns, LoadCompleted(r) PROVE JournalInv'
  BY <1>5, LoadCompletedKeeps
<1>6. ASSUME NEW r \in JournalRuns, AlreadyCompleted(r) PROVE JournalInv'
  BY <1>6, AlreadyCompletedKeeps
<1>7. ASSUME NEW r \in JournalRuns, ReadDay(r) PROVE JournalInv'
  BY <1>7, ReadDayKeeps
<1>8. ASSUME NEW r \in JournalRuns, WriteDay(r) PROVE JournalInv'
  BY <1>8, WriteDayKeeps
<1>9. ASSUME NEW r \in JournalRuns, ArchiveDay(r) PROVE JournalInv'
  BY <1>9, ArchiveDayKeeps
<1>10. ASSUME NEW r \in JournalRuns, MarkCompleted(r) PROVE JournalInv'
  BY <1>10, MarkCompletedKeeps
<1>11. ASSUME NEW r \in JournalRuns, ReconstructionFails(r) PROVE JournalInv'
  BY <1>11, ReconstructionFailsKeeps
<1>12. ASSUME NEW r \in JournalRuns, SaveCoverage(r) PROVE JournalInv'
  BY <1>12, SaveCoverageKeeps
<1>13. ASSUME NEW r \in JournalRuns, JournalFail(r) PROVE JournalInv'
  BY <1>13, EndKeeps
<1>14. CASE UNCHANGED journalVars
  <2>1. UNCHANGED <<over, today, rules, days, runArchive, completed, coverage, catchUp, starts>>
    BY <1>14 DEF journalVars, signalObjects
  <2>2. ObjectsTyped'
    BY <2>1 DEF JournalInv, ObjectsTyped, Begun
  <2>3. ObjectsGrow
    BY <2>1 DEF ObjectsGrow, JournalInv, ObjectsTyped, Sessions
  <2>4. \A r \in JournalRuns : RunOK(r)'
    BY <2>1, <2>3, RunStays
  <2>5. ASSUME NEW d \in Sessions, NEW s \in Setups PROVE SessionIsFaithful(d, s)'
    <3>1. SessionIsFaithful(d, s)
      BY DEF JournalInv
    <3> QED
      BY <2>1, <3>1 DEF SessionIsFaithful, Filed
  <2>6. \A d \in 1 .. coverage'.through - 1 : Covered(d, coverage.pending)'
    BY <2>1 DEF JournalInv, Covered
  <2> QED
    BY <2>2, <2>4, <2>5, <2>6 DEF JournalInv
<1> QED
  BY <1>1, <1>2, <1>3, <1>4, <1>5, <1>6, <1>7, <1>8, <1>9, <1>10, <1>11, <1>12, <1>13, <1>14
  DEF JournalNext

-----------------------------------------------------------------------------
(* Theorems.                                                               *)

\* The signal journal is well typed.
THEOREM JournalTypes == JournalSpec => []JournalTypeOK
  BY InvInit, InvStep, InvImplies, PTL DEF JournalSpec

\* Every recorded session is the work of the rule it is filed under, its
\* archive holds the same first result, and a marker is there only with both.
THEOREM JournalStaysFaithful == JournalSpec => []JournalIsFaithful
  BY InvInit, InvStep, InvImplies, PTL DEF JournalSpec

\* A coverage accounts for all that was over when its run read the calendar.
LEMMA WrittenCoverage ==
  ASSUME JournalInv, [JournalNext]_journalVars, NEW r \in JournalRuns,
         JournalAt(r, "session"), catchUp'[r] # catchUp[r], coverage' # coverage,
         NEW d \in 1 .. catchUp[r].to
  PROVE  Accounted(d)'
<1>1. PICK q \in JournalRuns : SaveCoverage(q)
  BY DEF JournalNext, journalVars, signalObjects, NextDay, SessionCloses, StartCatchUp, LoadRules,
         Activate, LoadCompleted, AlreadyCompleted, ReadDay, WriteDay, ArchiveDay, MarkCompleted,
         ReconstructionFails, JournalFail, ObjectsStay
<1>2. q = r
  BY <1>1 DEF SaveCoverage, CatchUpEnds, JournalInv, ObjectsTyped
<1>3. /\ catchUp[r] \in Runs /\ RunCovers(r) /\ catchUp[r].date > catchUp[r].to
      /\ coverage'.pending = catchUp[r].pending /\ completed' = completed
  BY <1>1, <1>2, RunIsActive DEF SaveCoverage, JournalAt
<1>4. d \in 1 .. catchUp[r].date - 1
  BY <1>3 DEF Runs
<1> QED
  BY <1>3, <1>4 DEF RunCovers, Covered, Accounted

\* However runs overtake each other, the coverage claims no session before its
\* day, and none that was over for its run, that is neither completed nor
\* pending.
THEOREM CoverageIsSupported == JournalSpec => CoverageNeverOverclaims
<1>1. JournalInv /\ [JournalNext]_journalVars =>
        [\A r \in JournalRuns :
           JournalAt(r, "session") /\ catchUp'[r] # catchUp[r] /\ coverage' # coverage
           => \A d \in 1 .. catchUp[r].to : Accounted(d)']_journalVars
  BY WrittenCoverage
<1> QED
  BY <1>1, InvInit, InvStep, InvImplies, PTL DEF JournalSpec, CoverageNeverOverclaims

LEMMA ActivationKeepsOlder ==
  ASSUME JournalInv, [JournalNext]_journalVars,
         NEW r \in JournalRuns, rules' # rules, catchUp'[r] # catchUp[r],
         catchUp[r].known # {}, JournalAt(r, "activate"), NEW d \in 1 .. catchUp[r].on - 1
  PROVE  Latest(rules', d) = Latest(rules, d)
<1>1. PICK q \in JournalRuns : Activate(q)
  BY DEF JournalNext, journalVars, signalObjects, NextDay, SessionCloses, StartCatchUp, LoadRules,
         LoadCompleted, AlreadyCompleted, ReadDay, WriteDay, ArchiveDay, MarkCompleted,
         ReconstructionFails, SaveCoverage, JournalFail, ObjectsStay
<1>2. q = r
  BY <1>1 DEF Activate, JournalInv, ObjectsTyped
<1>3. catchUp[r] \in Runs
  BY RunIsActive DEF JournalAt
<1>4. Activation(r).from = catchUp[r].on /\ catchUp[r].on \in Nat
  BY <1>3 DEF Activation, Runs, Sessions
<1>5. rules' = rules \cup {Activation(r)}
  BY <1>1, <1>2 DEF Activate
<1>6. InForce(rules', d) = InForce(rules, d)
  BY <1>4, <1>5 DEF InForce
<1> QED
  BY <1>6 DEF Latest, RuleAt

\* "Backfill never applies a newly activated rule to older sessions."
THEOREM OlderSessionsAreLeftAlone == JournalSpec => OlderSessionsKeepTheirRule
<1>1. JournalInv /\ [JournalNext]_journalVars =>
        [\A r \in JournalRuns :
           rules' # rules /\ JournalAt(r, "activate") /\ catchUp'[r] # catchUp[r]
             /\ catchUp[r].known # {}
           => \A d \in 1 .. catchUp[r].on - 1 : Latest(rules', d) = Latest(rules, d)]_journalVars
  BY ActivationKeepsOlder
<1> QED
  BY <1>1, InvInit, InvStep, PTL DEF JournalSpec, OlderSessionsKeepTheirRule
=============================================================================
