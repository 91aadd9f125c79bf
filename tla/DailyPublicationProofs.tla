----------------------- MODULE DailyPublicationProofs -----------------------
(***************************************************************************)
(* Proofs about three parts of the daily publication, each under its own   *)
(* specification: the KOSPI series, for any number of sessions, source     *)
(* sets, code versions, browsers and runs; the US screening, for any       *)
(* number of days, revisions, browsers and runs; and the KOSPI model book, *)
(* for any stocks, rows, caps and number of sessions.  The first two       *)
(* implement their abstract specifications.                                *)
(***************************************************************************)
EXTENDS KospiShadowStore, KospiBook, UsScreening, SequenceTheorems, FiniteSetTheorems,
  WellFoundedInduction, TLAPS

-----------------------------------------------------------------------------
(* Numbers and sequences.                                                  *)

LEMMA LeastNat ==
  ASSUME NEW T \in SUBSET Nat, T # {}
  PROVE  \E m \in T : \A x \in T : m <= x
<1>1. PICK m \in T : \A x \in T : ~ (<<x, m>> \in OpToRel(<, Nat))
  BY NatLessThanWellFounded, WFMin
<1>2. \A x \in T : ~ (x < m)
  BY <1>1 DEF OpToRel
<1>3. m \in Nat /\ \A x \in T : x \in Nat
  OBVIOUS
<1> QED
  BY <1>2, <1>3

\* A bounded set of numbers has a largest one: it is N less the least distance.
LEMMA GreatestUpTo ==
  ASSUME NEW N \in Nat, NEW T \in SUBSET (0 .. N), T # {}
  PROVE  \E m \in T : \A x \in T : x <= m
<1>1. {N - x : x \in T} \in SUBSET Nat /\ {N - x : x \in T} # {}
  <2>1. \A x \in T : x \in 0 .. N
    OBVIOUS
  <2>2. \A x \in T : N - x \in Nat
    BY <2>1
  <2> QED
    BY <2>2
<1>2. PICK u \in {N - x : x \in T} : \A y \in {N - x : x \in T} : u <= y
  BY <1>1, LeastNat
<1>3. PICK m \in T : u = N - m
  BY <1>2
<1>4. \A x \in T : N - m <= N - x /\ x \in 0 .. N
  BY <1>2, <1>3
<1> QED
  BY <1>3, <1>4

\* The parts of a sequence, of itself and of one that is an element longer.
LEMMA Parts1 ==
  ASSUME NEW S, NEW s \in Seq(S)
  PROVE  \A k \in 1 .. Len(s) : /\ SubSeq(s, 1, k) \in Seq(S) /\ Len(SubSeq(s, 1, k)) = k
                               /\ SubSeq(s, 1, k) # <<>>
                               /\ \A i \in 1 .. k : SubSeq(s, 1, k)[i] = s[i]
<1> SUFFICES ASSUME NEW k \in 1 .. Len(s)
             PROVE  /\ SubSeq(s, 1, k) \in Seq(S) /\ Len(SubSeq(s, 1, k)) = k
                    /\ SubSeq(s, 1, k) # <<>>
                    /\ \A i \in 1 .. k : SubSeq(s, 1, k)[i] = s[i]
  OBVIOUS
<1>1. \A i \in 1 .. k : s[i] \in S
  BY ElementOfSeq
<1>2. Len(s) \in Nat /\ k \in Int /\ k >= 1
  BY LenProperties
<1>3. /\ SubSeq(s, 1, k) \in Seq(S) /\ Len(SubSeq(s, 1, k)) = k
      /\ \A i \in 1 .. k : SubSeq(s, 1, k)[i] = s[i]
  BY <1>1, <1>2, SubSeqProperties
<1> QED
  BY <1>2, <1>3, EmptySeq

LEMMA PartOfAppend ==
  ASSUME NEW S, NEW s \in Seq(S), NEW x \in S, NEW k \in 1 .. Len(s)
  PROVE  SubSeq(Append(s, x), 1, k) = SubSeq(s, 1, k)
<1>1. Append(s, x) \in Seq(S) /\ Len(Append(s, x)) = Len(s) + 1 /\ Len(s) \in Nat
      /\ \A i \in 1 .. Len(s) : Append(s, x)[i] = s[i]
  BY AppendProperties, LenProperties
<1>2. k \in 1 .. Len(Append(s, x))
  BY <1>1
<1> DEFINE a == SubSeq(Append(s, x), 1, k)
           b == SubSeq(s, 1, k)
<1>3. a \in Seq(S) /\ Len(a) = k /\ \A i \in 1 .. k : a[i] = Append(s, x)[i]
  BY <1>1, <1>2, Parts1
<1>4. b \in Seq(S) /\ Len(b) = k /\ \A i \in 1 .. k : b[i] = s[i]
  BY Parts1
<1>5. \A i \in 1 .. k : a[i] = b[i]
  BY <1>1, <1>3, <1>4
<1> HIDE DEF a, b
<1>6. a = b
  BY <1>3, <1>4, <1>5, SeqEqual
<1> QED
  BY <1>6 DEF a, b

-----------------------------------------------------------------------------
(* The KOSPI series: the inductive invariant.                              *)

Inputs == [date : KospiDays, source : SourceSets, code : CodeVersions]
Snapshot == Seq(Inputs)
Views == [snapshot : Snapshot \ {<<>>}, history : Seq(KospiDays)]
SeriesRecords ==
  [registry : {Absent} \cup (KospiDays \X SourceSets \X CodeVersions),
   sessions : [KospiDays -> Snapshot], latest : {Absent} \cup Views]

\* The snapshot of day d holds one input of each day since the first, and every
\* part of it is the snapshot of its own day.
DayChain(o, d) ==
  LET s == o.sessions[d]
      n == InitializedOn(o) IN
  /\ Stored(o.registry) /\ n <= d /\ Len(s) = d - n + 1
  /\ \A i \in 1 .. Len(s) : s[i].date = n + i - 1 /\ o.sessions[n + i - 1] = SubSeq(s, 1, i)

SeriesInv(o) ==
  /\ o \in SeriesRecords
  /\ \A d \in StoredDays(o) : DayChain(o, d)
  /\ Stored(o.latest) =>
       /\ Projected(o, o.latest)
       /\ \A d \in StoredDays(o) : d <= DayOf(o.latest.snapshot) + 1

\* What a run that appends input to series o relies on: it continues the
\* projection, or repeats the one day of a series without a projection.
Ready(o, input) ==
  /\ Stored(o.latest) => DayOf(o.latest.snapshot) = input.date - 1
  /\ Stored(o.registry) /\ ~Stored(o.latest) => InitializedOn(o) = input.date
  /\ \A d \in StoredDays(o) : d <= input.date

\* The original series ends with the corrected session.
Ended ==
  /\ Stored(original.latest) /\ DayOf(original.latest.snapshot) = Correction
  /\ \A d \in StoredDays(original) : d <= Correction

AppendRuns ==
  [pc : {"registry", "session", "latest"}, series : {"original", "revised"}, input : Inputs,
   snapshot : Snapshot]
CorrectionRuns == [pc : {"correct"}, code : CodeVersions]

AppendRelies ==
  LET input == kospiRun.input
      o == Series(kospiRun.series) IN
  /\ Ready(o, input)
  /\ kospiRun.pc # "registry" => Stored(o.registry)
  /\ kospiRun.pc # "latest" => kospiRun.snapshot = NextSnapshot(o, input)
  /\ kospiRun.pc = "latest" => Stored(kospiRun.snapshot) /\ o.sessions[input.date] = kospiRun.snapshot
  /\ kospiRun.series = "original" => input.date < Correction
  /\ kospiRun.series = "revised" =>
       Stored(descriptor) /\ Stored(revised.registry) /\ Stored(revised.latest)

CorrectionRelies ==
  /\ Ended /\ ~Stored(revised.latest)
  /\ Stored(descriptor) => descriptor = Revision(kospiRun.code)

RunInv ==
  \/ kospiRun = NoKospiRun
  \/ kospiRun \in AppendRuns /\ AppendRelies
  \/ kospiRun \in CorrectionRuns /\ CorrectionRelies

HasCorrection(s) ==
  \E i \in DOMAIN s : s[i].date = Correction /\ s[i].source = CorrectedSources

\* The revised series from its first object on: the order in which its objects
\* appear, and what they share with the original, which no run extends again.
RevisionInv ==
  /\ Stored(descriptor) =>
       /\ Ended /\ descriptor \in Snapshot \X CodeVersions
       /\ descriptor[1] = original.sessions[Correction]
  /\ Stored(revised.registry) => Stored(descriptor) /\ revised.registry = original.registry
  /\ \A d \in StoredDays(revised) :
       IF d < Correction THEN revised.sessions[d] = original.sessions[d]
       ELSE HasCorrection(revised.sessions[d])
  /\ Stored(revised.latest) => DayOf(revised.latest.snapshot) >= Correction
  /\ ~Stored(revised.latest) =>
       \A d \in StoredDays(revised) :
         /\ d <= Correction
         /\ d = Correction => revised.sessions[d] = CorrectedSnapshot(descriptor[2])

\* What a page has read so far of the revision, or shows.
ReaderInv(l) ==
  \/ l = NoKospiReader
  \/ /\ l.pc = "parts" /\ l.since \in BOOLEAN
     /\ l = [pc |-> "parts", got |-> l.got, since |-> l.since]
     /\ DOMAIN l.got \subseteq Parts
     /\ l.since => Stored(descriptor)
     /\ "latest" \in DOMAIN l.got => l.got["latest"] \in {Absent} \cup Views
     /\ l.since /\ "descriptor" \in DOMAIN l.got => Stored(l.got["descriptor"])
  \/ /\ l.pc = "shown" /\ l.since \in BOOLEAN
     /\ l.view \in Views /\ Projected(Series(l.series), l.view)
     /\ l.since => l.series = "revised"

KospiInv ==
  /\ SeriesInv(original) /\ SeriesInv(revised)
  /\ RevisionInv /\ RunInv
  /\ kospiRuns \in 0 .. MaxKospiRuns
  /\ kospiReader = [b \in KospiReaders |-> kospiReader[b]]
  /\ \A b \in KospiReaders : ReaderInv(kospiReader[b])

-----------------------------------------------------------------------------
(* One series.                                                             *)

LEMMA DaysTyped == KospiDays \subseteq Nat /\ Correction \in KospiDays /\ Correction - 1 \in KospiDays
  BY KospiStoreAssumption DEF KospiDays

\* A stored snapshot ends with the input of a day.
LEMMA LastOfSnapshot ==
  ASSUME NEW s \in Snapshot, Stored(s)
  PROVE  /\ Len(s) \in Nat /\ Len(s) >= 1 /\ DOMAIN s = 1 .. Len(s)
         /\ \A i \in 1 .. Len(s) : s[i] \in Inputs
         /\ LastInput(s) \in Inputs /\ DayOf(s) \in KospiDays
<1>1. Len(s) \in Nat /\ Len(s) >= 1 /\ DOMAIN s = 1 .. Len(s)
  BY EmptySeq, LenProperties DEF Snapshot, Stored, Absent
<1>2. \A i \in 1 .. Len(s) : s[i] \in Inputs
  BY ElementOfSeq DEF Snapshot
<1> QED
  BY <1>1, <1>2 DEF LastInput, DayOf, Inputs

LEMMA SeriesParts ==
  ASSUME NEW o \in SeriesRecords
  PROVE  /\ \A d \in KospiDays : o.sessions[d] \in Snapshot
         /\ o.sessions \in [KospiDays -> Snapshot]
         /\ StoredDays(o) \subseteq KospiDays
         /\ Stored(o.registry) => InitializedOn(o) \in KospiDays
         /\ Stored(o.latest) =>
              /\ o.latest \in Views
              /\ o.latest.snapshot \in Snapshot /\ Stored(o.latest.snapshot)
              /\ DayOf(o.latest.snapshot) \in KospiDays
<1>1. o.registry \in {Absent} \cup (KospiDays \X SourceSets \X CodeVersions)
      /\ o.sessions \in [KospiDays -> Snapshot] /\ o.latest \in {Absent} \cup Views
  BY DEF SeriesRecords
<1>2. Stored(o.registry) => InitializedOn(o) \in KospiDays
  BY <1>1 DEF Stored, InitializedOn
<1>3. ASSUME Stored(o.latest)
      PROVE  /\ o.latest \in Views
             /\ o.latest.snapshot \in Snapshot /\ Stored(o.latest.snapshot)
  BY <1>1, <1>3 DEF Stored, Views, Absent
<1>4. StoredDays(o) \subseteq KospiDays
  BY DEF StoredDays
<1>5. \A d \in KospiDays : o.sessions[d] \in Snapshot
  BY <1>1
<1>6. Stored(o.latest) => DayOf(o.latest.snapshot) \in KospiDays
  BY <1>3, LastOfSnapshot
<1> QED
  BY <1>1, <1>2, <1>3, <1>4, <1>5, <1>6

LEMMA ChainEnds ==
  ASSUME NEW o \in SeriesRecords, NEW d \in StoredDays(o), DayChain(o, d)
  PROVE  /\ DayOf(o.sessions[d]) = d /\ ChainOf(o, d)
         /\ HistoryOf(o.sessions[d]) = [i \in 1 .. d - InitializedOn(o) + 1 |-> InitializedOn(o) + i - 1]
         /\ \A e \in InitializedOn(o) .. d : e \in StoredDays(o)
<1> DEFINE s == o.sessions[d]
           n == InitializedOn(o)
<1>1. s \in Snapshot /\ Stored(s) /\ d \in KospiDays /\ n \in KospiDays /\ n \in Nat /\ d \in Nat
  BY SeriesParts, DaysTyped DEF StoredDays, DayChain
<1>2. n <= d /\ Len(s) = d - n + 1
      /\ \A i \in 1 .. Len(s) : s[i].date = n + i - 1 /\ o.sessions[n + i - 1] = SubSeq(s, 1, i)
  BY DEF DayChain
<1>3. DOMAIN s = 1 .. Len(s)
  BY <1>1, LastOfSnapshot
<1>4. DayOf(s) = d
  <2>1. Len(s) \in 1 .. Len(s) /\ n + Len(s) - 1 = d
    BY <1>1, <1>2
  <2>2. s[Len(s)].date = d
    BY <1>2, <2>1
  <2> QED
    BY <2>2 DEF DayOf, LastInput
<1>5. ChainOf(o, d)
  BY <1>2, <1>3 DEF ChainOf
<1>6. HistoryOf(s) = [i \in 1 .. d - n + 1 |-> n + i - 1]
  BY <1>2, <1>3 DEF HistoryOf
<1>7. ASSUME NEW e \in n .. d
      PROVE  e \in StoredDays(o)
  <2>1. e - n + 1 \in 1 .. Len(s) /\ n + (e - n + 1) - 1 = e
    BY <1>1, <1>2
  <2>2. o.sessions[e] = SubSeq(s, 1, e - n + 1)
    BY <1>2, <2>1
  <2>3. SubSeq(s, 1, e - n + 1) # <<>>
    BY <1>1, <2>1, Parts1 DEF Snapshot
  <2>4. e \in KospiDays
    BY <1>1, KospiStoreAssumption DEF KospiDays
  <2> QED
    BY <2>2, <2>3, <2>4 DEF StoredDays, Stored, Absent
<1> QED
  BY <1>4, <1>5, <1>6, <1>7

LEMMA NewestStored ==
  ASSUME NEW o, StoredDays(o) # {}
  PROVE  NewestDay(o) \in StoredDays(o) /\ \A e \in StoredDays(o) : e <= NewestDay(o)
<1>1. StoredDays(o) \in SUBSET (0 .. LastKospiDay) /\ LastKospiDay \in Nat
  BY KospiStoreAssumption DEF StoredDays, KospiDays
<1>2. \E m \in StoredDays(o) : \A e \in StoredDays(o) : e <= m
  BY <1>1, GreatestUpTo
<1> QED
  BY <1>2 DEF NewestDay

LEMMA SeriesReplays ==
  ASSUME NEW o, SeriesInv(o)
  PROVE  Replays(o)
<1>1. o \in SeriesRecords /\ \A d \in StoredDays(o) : DayChain(o, d)
  BY DEF SeriesInv
<1>2. ASSUME NEW d \in StoredDays(o)
      PROVE  /\ Stored(o.registry) /\ ChainOf(o, d)
             /\ HistoryOf(o.sessions[d]) = [i \in 1 .. d - InitializedOn(o) + 1 |-> InitializedOn(o) + i - 1]
  BY <1>1, ChainEnds DEF DayChain
<1>3. ASSUME Stored(o.latest)
      PROVE  Projected(o, o.latest) /\ NewestDay(o) <= DayOf(o.latest.snapshot) + 1
  <2>1. Projected(o, o.latest) /\ \A d \in StoredDays(o) : d <= DayOf(o.latest.snapshot) + 1
    BY <1>3 DEF SeriesInv
  <2>2. DayOf(o.latest.snapshot) \in StoredDays(o)
    BY <1>1, <1>3, <2>1, SeriesParts DEF Projected, StoredDays
  <2> QED
    BY <2>1, <2>2, NewestStored
<1> QED
  BY <1>2, <1>3 DEF Replays

\* Series p is series o with snapshot s put for day d, which continues the
\* days before it.
AddsDay(o, p, d, s) ==
  LET n == InitializedOn(o) IN
  /\ o \in SeriesRecords /\ \A e \in StoredDays(o) : DayChain(o, e)
  /\ d \in KospiDays /\ ~Stored(o.sessions[d]) /\ Stored(o.registry)
  /\ n <= d /\ s \in Snapshot /\ Len(s) = d - n + 1
  /\ \A i \in 1 .. Len(s) : s[i].date = n + i - 1
  /\ \A i \in 1 .. Len(s) - 1 : o.sessions[n + i - 1] = SubSeq(s, 1, i)
  /\ p \in SeriesRecords /\ p.registry = o.registry /\ p.sessions[d] = s
  /\ \A e \in KospiDays \ {d} : p.sessions[e] = o.sessions[e]

LEMMA DayPut ==
  ASSUME NEW o, NEW p, NEW d, NEW s, AddsDay(o, p, d, s)
  PROVE  /\ \A e \in StoredDays(p) : DayChain(p, e)
         /\ StoredDays(p) = StoredDays(o) \cup {d} /\ Stored(s)
<1> DEFINE n == InitializedOn(o)
<1>0. /\ o \in SeriesRecords /\ \A e \in StoredDays(o) : DayChain(o, e)
      /\ d \in KospiDays /\ ~Stored(o.sessions[d]) /\ Stored(o.registry)
      /\ n <= d /\ s \in Snapshot /\ Len(s) = d - n + 1
      /\ \A i \in 1 .. Len(s) : s[i].date = n + i - 1
      /\ \A i \in 1 .. Len(s) - 1 : o.sessions[n + i - 1] = SubSeq(s, 1, i)
      /\ p \in SeriesRecords /\ p.registry = o.registry /\ p.sessions[d] = s
      /\ \A e \in KospiDays \ {d} : p.sessions[e] = o.sessions[e]
  BY DEF AddsDay
<1>1. n \in KospiDays /\ n \in Nat /\ d \in Nat /\ o.sessions \in [KospiDays -> Snapshot]
  BY <1>0, SeriesParts, DaysTyped
<1>3. p.sessions[d] = s /\ \A e \in KospiDays \ {d} : p.sessions[e] = o.sessions[e]
  BY <1>0
<1>4. Len(s) >= 1 /\ Stored(s)
  BY <1>0, <1>1, EmptySeq DEF Stored, Absent
<1>5. StoredDays(p) = StoredDays(o) \cup {d}
  BY <1>0, <1>3, <1>4 DEF StoredDays
<1>6. InitializedOn(p) = n /\ Stored(p.registry)
  BY <1>0 DEF InitializedOn
<1>7. DayChain(p, d)
  <2>0. n <= d /\ Len(s) = d - n + 1 /\ \A i \in 1 .. Len(s) : s[i].date = n + i - 1
    BY <1>0
  <2> SUFFICES ASSUME NEW i \in 1 .. Len(s)
               PROVE  p.sessions[n + i - 1] = SubSeq(s, 1, i)
    BY <1>3, <1>6, <2>0 DEF DayChain
  <2>1. CASE i = Len(s)
    <3>1. n + i - 1 = d
      BY <1>0, <1>1, <2>1
    <3> QED
      BY <1>0, <1>3, <2>1, <3>1, SubSeqFull DEF Snapshot
  <2>2. CASE i # Len(s)
    <3>1. i \in 1 .. Len(s) - 1 /\ n + i - 1 \in KospiDays \ {d}
      BY <1>0, <1>1, <2>0, <2>2, KospiStoreAssumption DEF KospiDays
    <3> QED
      BY <1>0, <1>3, <3>1
  <2> QED
    BY <2>1, <2>2
<1>8. ASSUME NEW e \in StoredDays(o)
      PROVE  DayChain(p, e)
  <2> DEFINE t == o.sessions[e]
  <2>1. e # d /\ e \in KospiDays /\ DayChain(o, e) /\ t \in Snapshot
    BY <1>0, <1>1 DEF StoredDays
  <2>2. p.sessions[e] = t
    BY <1>3, <2>1
  <2>3. ASSUME NEW i \in 1 .. Len(t)
        PROVE  p.sessions[n + i - 1] = SubSeq(t, 1, i)
    <3>1. o.sessions[n + i - 1] = SubSeq(t, 1, i) /\ Len(t) = e - n + 1 /\ n <= e
      BY <2>1 DEF DayChain
    <3>2. SubSeq(t, 1, i) # <<>>
      BY <2>1, Parts1 DEF Snapshot
    <3>3. n + i - 1 \in KospiDays
      <4>1. n \in 1 .. LastKospiDay /\ e \in 1 .. LastKospiDay /\ LastKospiDay \in Nat
        BY <1>1, <2>1, KospiStoreAssumption DEF KospiDays
      <4>2. i \in 1 .. e - n + 1
        BY <3>1
      <4> HIDE DEF n, t
      <4> QED
        BY <4>1, <4>2 DEF KospiDays
    <3>4. n + i - 1 # d
      BY <1>0, <3>1, <3>2 DEF Stored, Absent
    <3> QED
      BY <1>3, <3>1, <3>3, <3>4
  <2> QED
    BY <1>6, <2>1, <2>2, <2>3 DEF DayChain
<1> QED
  BY <1>4, <1>5, <1>7, <1>8

-----------------------------------------------------------------------------
(* What a run appends to a series.                                         *)

\* A stored day is never replaced.
DaysKept(o, p) == \A d \in StoredDays(o) : p.sessions[d] = o.sessions[d]

LEMMA ProjectedStays ==
  ASSUME NEW o \in SeriesRecords, NEW p, DaysKept(o, p), NEW view \in Views, Projected(o, view)
  PROVE  Projected(p, view)
<1> DEFINE s == view.snapshot
           d == DayOf(s)
<1>1. s \in Snapshot /\ Stored(s) /\ d \in KospiDays /\ DOMAIN s = 1 .. Len(s)
      /\ \A i \in 1 .. Len(s) : s[i] \in Inputs
  <2>1. s \in Snapshot /\ Stored(s)
    BY DEF Views, Stored, Absent
  <2> QED
    BY <2>1, LastOfSnapshot
<1>2. o.sessions[d] = s /\ ChainOf(o, d) /\ view.history = HistoryOf(s)
  BY DEF Projected
<1>3. p.sessions[d] = s
  BY <1>1, <1>2 DEF DaysKept, StoredDays
<1>4. ASSUME NEW i \in 1 .. Len(s)
      PROVE  p.sessions[s[i].date] = SubSeq(s, 1, i)
  <2>1. s[i].date \in KospiDays
    BY <1>1 DEF Inputs
  <2>2. o.sessions[s[i].date] = SubSeq(s, 1, i)
    BY <1>1, <1>2 DEF ChainOf
  <2>3. SubSeq(s, 1, i) # <<>>
    BY <1>1, Parts1 DEF Snapshot
  <2> QED
    BY <2>1, <2>2, <2>3 DEF DaysKept, StoredDays, Stored, Absent
<1> QED
  BY <1>1, <1>2, <1>3, <1>4 DEF Projected, ChainOf

\* Without a registry a series is empty.
LEMMA Unregistered ==
  ASSUME NEW o, SeriesInv(o), ~Stored(o.registry)
  PROVE  StoredDays(o) = {} /\ ~Stored(o.latest)
<1>1. o \in SeriesRecords
  BY DEF SeriesInv
<1>2. StoredDays(o) = {}
  BY DEF SeriesInv, DayChain
<1>3. Stored(o.latest) => DayOf(o.latest.snapshot) \in StoredDays(o)
  BY <1>1, SeriesParts DEF SeriesInv, Projected, StoredDays
<1> QED
  BY <1>2, <1>3

\* The newest day of the projection is stored, with the projection's snapshot.
LEMMA ProjectedDay ==
  ASSUME NEW o, SeriesInv(o), Stored(o.latest)
  PROVE  LET d == DayOf(o.latest.snapshot) IN
         /\ d \in StoredDays(o) /\ o.sessions[d] = o.latest.snapshot /\ DayChain(o, d)
         /\ Stored(o.registry) /\ o.latest.history = HistoryOf(o.latest.snapshot)
<1>1. o \in SeriesRecords
  BY DEF SeriesInv
<1>2. DayOf(o.latest.snapshot) \in StoredDays(o)
  BY <1>1, SeriesParts DEF SeriesInv, Projected, StoredDays
<1> QED
  BY <1>2 DEF SeriesInv, Projected, DayChain

LEMMA SameSessions ==
  ASSUME NEW o, NEW p, p.sessions = o.sessions
  PROVE  /\ StoredDays(p) = StoredDays(o) /\ DaysKept(o, p)
         /\ \A view : Projected(o, view) => Projected(p, view)
         /\ p.registry = o.registry => \A d : DayChain(o, d) => DayChain(p, d)
  BY DEF StoredDays, DaysKept, Projected, ChainOf, DayChain, InitializedOn

\* The series as a run leaves it after each of its three writes.
WithRegistry(o, input) ==
  IF Stored(o.registry) THEN o ELSE [o EXCEPT !.registry = Registry(input)]
WithSession(o, input, s) ==
  [o EXCEPT !.sessions[input.date] = IF Stored(@) THEN @ ELSE s]
WithLatest(o, input, s) ==
  [o EXCEPT !.latest =
    Projection(s, Append(IF Stored(o.latest) THEN o.latest.history ELSE <<>>, input.date))]

LEMMA RegistryPut ==
  ASSUME NEW o, SeriesInv(o), NEW input \in Inputs, Ready(o, input),
         NEW p, p = WithRegistry(o, input)
  PROVE  /\ SeriesInv(p) /\ Ready(p, input) /\ Stored(p.registry) /\ DaysKept(o, p)
         /\ NextSnapshot(p, input) = NextSnapshot(o, input)
         /\ Stored(o.registry) => p = o
<1>1. CASE Stored(o.registry)
  BY <1>1 DEF DaysKept, WithRegistry
<1>2. CASE ~Stored(o.registry)
  <2>1. StoredDays(o) = {} /\ ~Stored(o.latest) /\ o \in SeriesRecords
    BY <1>2, Unregistered DEF SeriesInv
  <2>2. Registry(input) \in KospiDays \X SourceSets \X CodeVersions /\ Stored(Registry(input))
    BY DEF Registry, Inputs, Stored, Absent
  <2>3. /\ p \in SeriesRecords /\ p.registry = Registry(input)
        /\ p.sessions = o.sessions /\ p.latest = o.latest
    BY <1>2, <2>1, <2>2 DEF SeriesRecords, WithRegistry
  <2>4. StoredDays(p) = {} /\ DaysKept(o, p)
    BY <2>1, <2>3, SameSessions
  <2>5. SeriesInv(p)
    BY <2>1, <2>3, <2>4 DEF SeriesInv
  <2>6. InitializedOn(p) = input.date
    BY <2>3 DEF InitializedOn, Registry
  <2>7. Ready(p, input)
    BY <2>1, <2>3, <2>4, <2>6 DEF Ready
  <2>8. NextSnapshot(p, input) = NextSnapshot(o, input)
    BY <2>3 DEF NextSnapshot
  <2> QED
    BY <1>2, <2>2, <2>3, <2>4, <2>5, <2>7, <2>8
<1> QED
  BY <1>1, <1>2

LEMMA NextContinues ==
  ASSUME NEW o, SeriesInv(o), NEW input \in Inputs, Ready(o, input), Stored(o.registry),
         ~Stored(o.sessions[input.date])
  PROVE  LET s == NextSnapshot(o, input)
             n == InitializedOn(o) IN
         /\ n <= input.date /\ s \in Snapshot /\ Len(s) = input.date - n + 1
         /\ \A i \in 1 .. Len(s) : s[i].date = n + i - 1
         /\ \A i \in 1 .. Len(s) - 1 : o.sessions[n + i - 1] = SubSeq(s, 1, i)
<1> DEFINE s == NextSnapshot(o, input)
           n == InitializedOn(o)
<1>1. o \in SeriesRecords /\ n \in Nat /\ input.date \in Nat
  BY SeriesParts, DaysTyped DEF SeriesInv, Inputs
<1>2. CASE Stored(o.latest)
  <2> DEFINE v == o.latest.snapshot
  <2>1. s = Append(v, input)
    BY <1>2 DEF NextSnapshot
  <2>2. DayOf(v) = input.date - 1 /\ o.sessions[DayOf(v)] = v /\ DayChain(o, DayOf(v))
    BY <1>2, ProjectedDay DEF Ready
  <2>3. v \in Snapshot
    BY <1>1, <1>2, SeriesParts
  <2>4. /\ n <= input.date - 1 /\ Len(v) = input.date - n
        /\ \A i \in 1 .. Len(v) : v[i].date = n + i - 1 /\ o.sessions[n + i - 1] = SubSeq(v, 1, i)
    <3> HIDE DEF v, n
    <3> QED
      BY <1>1, <2>2 DEF DayChain, n
  <2>5. /\ s \in Snapshot /\ Len(s) = Len(v) + 1 /\ s[Len(v) + 1] = input
        /\ \A i \in 1 .. Len(v) : s[i] = v[i]
    BY <2>1, <2>3, AppendProperties DEF Snapshot
  <2>6. \A i \in 1 .. Len(v) : SubSeq(s, 1, i) = SubSeq(v, 1, i)
    BY <2>1, <2>3, PartOfAppend DEF Snapshot
  <2>7. \A i \in 1 .. Len(s) : s[i].date = n + i - 1
    <3>1. Len(v) \in Nat
      BY <2>3, LenProperties DEF Snapshot
    <3> HIDE DEF s, v, n
    <3>2. \A i \in 1 .. Len(v) : s[i].date = n + i - 1
      BY <2>4, <2>5
    <3>3. s[Len(v) + 1].date = n + (Len(v) + 1) - 1
      BY <1>1, <2>4, <2>5
    <3> QED
      BY <2>5, <3>1, <3>2, <3>3
  <2> HIDE DEF s, v, n
  <2>8. n <= input.date /\ Len(s) = input.date - n + 1 /\ Len(s) - 1 = Len(v)
    BY <1>1, <2>4, <2>5
  <2> QED
    BY <2>4, <2>5, <2>6, <2>7, <2>8 DEF s, n
<1>3. CASE ~Stored(o.latest)
  <2>1. s = <<input>> /\ n = input.date
    BY <1>3 DEF NextSnapshot, Ready
  <2>2. s \in Snapshot /\ Len(s) = 1 /\ s[1] = input
    BY <2>1 DEF Snapshot
  <2> HIDE DEF s, n
  <2> QED
    BY <1>1, <2>1, <2>2 DEF s, n
<1> QED
  BY <1>2, <1>3

LEMMA SessionPut ==
  ASSUME NEW o, SeriesInv(o), NEW input \in Inputs, Ready(o, input), Stored(o.registry),
         NEW p, p = WithSession(o, input, NextSnapshot(o, input))
  PROVE  /\ SeriesInv(p) /\ Ready(p, input) /\ DaysKept(o, p)
         /\ p.registry = o.registry /\ p.latest = o.latest
         /\ Stored(NextSnapshot(o, input)) /\ p.sessions[input.date] = NextSnapshot(o, input)
         /\ StoredDays(p) = StoredDays(o) \cup {input.date}
         /\ \A d \in StoredDays(p) : d # input.date => p.sessions[d] = o.sessions[d]
<1> DEFINE d == input.date
           s == NextSnapshot(o, input)
<1>1. o \in SeriesRecords /\ d \in KospiDays /\ o.sessions \in [KospiDays -> Snapshot]
  BY SeriesParts DEF SeriesInv, Inputs
<1>2. CASE Stored(o.sessions[d])
  <2>1. p = o /\ s = o.sessions[d]
    BY <1>1, <1>2 DEF NextSnapshot, SeriesRecords, WithSession
  <2> QED
    BY <1>1, <1>2, <2>1 DEF DaysKept, StoredDays
<1>3. CASE ~Stored(o.sessions[d])
  <2>1. p = [o EXCEPT !.sessions[d] = s]
    BY <1>3 DEF WithSession
  <2>2. /\ InitializedOn(o) <= d /\ s \in Snapshot /\ Len(s) = d - InitializedOn(o) + 1
        /\ \A i \in 1 .. Len(s) : s[i].date = InitializedOn(o) + i - 1
        /\ \A i \in 1 .. Len(s) - 1 : o.sessions[InitializedOn(o) + i - 1] = SubSeq(s, 1, i)
    BY <1>3, NextContinues
  <2>3. \A e \in StoredDays(o) : DayChain(o, e)
    BY DEF SeriesInv
  <2> HIDE DEF d, s
  <2>10. /\ p \in SeriesRecords /\ p.registry = o.registry /\ p.latest = o.latest
         /\ p.sessions[d] = s /\ \A e \in KospiDays \ {d} : p.sessions[e] = o.sessions[e]
    <3>1. [o.sessions EXCEPT ![d] = s] \in [KospiDays -> Snapshot]
      BY <1>1, <2>2
    <3> QED
      BY <1>1, <2>1, <3>1 DEF SeriesRecords
  <2>11. AddsDay(o, p, d, s)
    BY <1>1, <1>3, <2>2, <2>3, <2>10 DEF AddsDay
  <2>4. /\ p \in SeriesRecords /\ \A e \in StoredDays(p) : DayChain(p, e)
        /\ p.registry = o.registry /\ p.latest = o.latest /\ p.sessions[d] = s /\ Stored(s)
        /\ \A e \in KospiDays \ {d} : p.sessions[e] = o.sessions[e]
        /\ StoredDays(p) = StoredDays(o) \cup {d}
    BY <2>10, <2>11, DayPut
  <2>5. DaysKept(o, p)
    BY <1>3, <2>4 DEF DaysKept, StoredDays
  <2>6. ASSUME Stored(p.latest)
        PROVE  Projected(p, p.latest) /\ \A e \in StoredDays(p) : e <= DayOf(p.latest.snapshot) + 1
    <3>1. p.latest \in Views /\ Projected(o, p.latest)
      BY <1>1, <2>4, <2>6, SeriesParts DEF SeriesInv
    <3>2. DayOf(p.latest.snapshot) = d - 1 /\ d \in Nat
      BY <1>1, <2>4, <2>6, DaysTyped DEF Ready, d
    <3>3. \A e \in StoredDays(p) : e <= DayOf(p.latest.snapshot) + 1
      BY <2>4, <2>6, <3>2 DEF SeriesInv
    <3> QED
      BY <1>1, <2>5, <3>1, <3>3, ProjectedStays
  <2>7. SeriesInv(p)
    BY <2>4, <2>6 DEF SeriesInv
  <2>8. Ready(p, input)
    <3>1. \A e \in StoredDays(o) : e <= d
      BY DEF Ready, d
    <3>2. d \in Nat
      BY <1>1, DaysTyped
    <3>3. \A e \in StoredDays(p) : e <= d
      BY <2>4, <3>1, <3>2
    <3> QED
      BY <2>4, <3>3 DEF Ready, InitializedOn, d
  <2>9. \A e \in StoredDays(p) : e # d => p.sessions[e] = o.sessions[e]
    BY <2>4 DEF StoredDays
  <2> QED
    BY <2>4, <2>5, <2>7, <2>8, <2>9 DEF d, s
<1> QED
  BY <1>2, <1>3

LEMMA FunctionIsSeq ==
  ASSUME NEW S, NEW n \in Nat, NEW f \in [1 .. n -> S]
  PROVE  f \in Seq(S) /\ Len(f) = n
<1>1. f \in Seq(S)
  BY SeqDef
<1>2. Len(f) \in Nat /\ 1 .. Len(f) = 1 .. n
  BY <1>1, LenProperties
<1>3. \A k \in Nat : k \in 1 .. Len(f) <=> k \in 1 .. n
  BY <1>2
<1>4. Len(f) <= n
  BY <1>2, <1>3
<1>5. n <= Len(f)
  BY <1>2, <1>3
<1> QED
  BY <1>1, <1>2, <1>4, <1>5

LEMMA LatestPut ==
  ASSUME NEW o, SeriesInv(o), NEW input \in Inputs, Ready(o, input), Stored(o.registry),
         NEW s, o.sessions[input.date] = s, Stored(s),
         NEW p, p = WithLatest(o, input, s)
  PROVE  /\ SeriesInv(p) /\ DaysKept(o, p) /\ p.registry = o.registry /\ p.sessions = o.sessions
         /\ Stored(p.latest) /\ DayOf(p.latest.snapshot) = input.date
<1> DEFINE d == input.date
           n == InitializedOn(o)
           history == IF Stored(o.latest) THEN o.latest.history ELSE <<>>
           h == Append(history, d)
<1>1. /\ o \in SeriesRecords /\ d \in StoredDays(o) /\ d \in KospiDays /\ n \in KospiDays
      /\ n \in Nat /\ d \in Nat /\ s \in Snapshot /\ DayChain(o, d)
  BY SeriesParts, DaysTyped DEF SeriesInv, Inputs, StoredDays
<1>2. DayOf(s) = d /\ ChainOf(o, d) /\ HistoryOf(s) = [i \in 1 .. d - n + 1 |-> n + i - 1] /\ n <= d
  BY <1>1, ChainEnds DEF DayChain
<1>3. history \in Seq(KospiDays) /\ Len(history) = d - n
      /\ \A i \in 1 .. d - n : history[i] = n + i - 1
  <2>1. CASE Stored(o.latest)
    <3> DEFINE v == o.latest.snapshot
    <3>1. v \in Snapshot /\ o.latest \in Views
      BY <1>1, <2>1, SeriesParts
    <3>2. DayOf(v) = d - 1 /\ DayOf(v) \in StoredDays(o) /\ o.sessions[DayOf(v)] = v
          /\ DayChain(o, DayOf(v)) /\ o.latest.history = HistoryOf(v)
      BY <2>1, ProjectedDay DEF Ready
    <3>3. HistoryOf(v) = [i \in 1 .. (d - 1) - n + 1 |-> n + i - 1] /\ n <= d - 1
      BY <1>1, <3>2, ChainEnds DEF DayChain
    <3>4. history = [i \in 1 .. d - n |-> n + i - 1] /\ d - n \in Nat
      BY <1>1, <2>1, <3>2, <3>3
    <3>5. history \in [1 .. d - n -> KospiDays]
      <4>1. \A i \in 1 .. d - n : n + i - 1 \in KospiDays
        BY <1>1, KospiStoreAssumption DEF KospiDays
      <4> QED
        BY <3>4, <4>1
    <3> HIDE DEF history
    <3> QED
      BY <3>4, <3>5, FunctionIsSeq
  <2>2. CASE ~Stored(o.latest)
    <3>1. n = d /\ history = <<>>
      BY <2>2 DEF Ready
    <3>2. d - n = 0 /\ <<>> \in Seq(KospiDays) /\ Len(<<>>) = 0
      BY <1>1, <3>1, EmptySeq
    <3>3. 1 .. d - n = {}
      BY <3>2
    <3> QED
      BY <3>1, <3>2, <3>3
  <2> QED
    BY <2>1, <2>2
<1>4. h = HistoryOf(s) /\ h \in Seq(KospiDays)
  <2> DEFINE g == [i \in 1 .. d - n + 1 |-> n + i - 1]
  <2>1. d - n + 1 \in Nat /\ \A i \in 1 .. d - n + 1 : n + i - 1 \in KospiDays
    BY <1>1, <1>2, KospiStoreAssumption DEF KospiDays
  <2>2. g \in [1 .. d - n + 1 -> KospiDays]
    BY <2>1
  <2>3. g \in Seq(KospiDays) /\ Len(g) = d - n + 1 /\ \A i \in 1 .. d - n + 1 : g[i] = n + i - 1
    <3>1. \A i \in 1 .. d - n + 1 : g[i] = n + i - 1
      OBVIOUS
    <3> HIDE DEF g
    <3> QED
      BY <2>1, <2>2, <3>1, FunctionIsSeq
  <2>4. /\ h \in Seq(KospiDays) /\ Len(h) = Len(history) + 1 /\ h[Len(history) + 1] = d
        /\ \A i \in 1 .. Len(history) : h[i] = history[i]
    BY <1>1, <1>3, AppendProperties
  <2> HIDE DEF g, h, history, n, d
  <2>5. \A i \in 1 .. d - n + 1 : h[i] = g[i]
    <3>1. \A i \in 1 .. d - n : h[i] = n + i - 1
      BY <1>3, <2>4
    <3>2. h[d - n + 1] = n + (d - n + 1) - 1
      BY <1>1, <1>3, <2>4
    <3>3. \A i \in 1 .. d - n + 1 : h[i] = n + i - 1
      BY <1>1, <1>2, <3>1, <3>2
    <3> QED
      BY <2>3, <3>3
  <2>6. Len(h) = Len(g)
    BY <1>1, <1>3, <2>3, <2>4
  <2>7. h = g
    BY <2>3, <2>4, <2>5, <2>6, SeqEqual
  <2> QED
    BY <1>2, <2>4, <2>7 DEF g
<1>5. Projection(s, h) \in Views
  BY <1>1, <1>4 DEF Projection, Views, Stored, Absent
<1>6. /\ p \in SeriesRecords /\ p.registry = o.registry /\ p.sessions = o.sessions
      /\ p.latest = Projection(s, h)
  <2> HIDE DEF h
  <2>1. p = [o EXCEPT !.latest = Projection(s, h)]
    BY DEF h, WithLatest
  <2> QED
    BY <1>1, <1>5, <2>1 DEF SeriesRecords
<1>7. p.latest.snapshot = s /\ p.latest.history = h /\ Stored(p.latest)
  BY <1>5, <1>6 DEF Projection, Stored, Absent, Views
<1> HIDE DEF h
<1>8. Projected(o, p.latest)
  BY <1>2, <1>4, <1>7 DEF Projected
<1>9. Projected(p, p.latest) /\ DaysKept(o, p) /\ StoredDays(p) = StoredDays(o)
      /\ \A e \in StoredDays(p) : DayChain(p, e)
  BY <1>6, <1>8, SameSessions DEF SeriesInv
<1>10. \A e \in StoredDays(p) : e <= DayOf(p.latest.snapshot) + 1
  <2>1. \A e \in StoredDays(p) : e \in Nat /\ e <= d
    BY <1>9, DaysTyped DEF Ready, StoredDays
  <2> QED
    BY <1>1, <1>2, <1>7, <2>1
<1> QED
  BY <1>2, <1>6, <1>7, <1>9, <1>10 DEF SeriesInv

-----------------------------------------------------------------------------
(* The runs that write.                                                    *)

\* What a step of a run leaves as it was.
StoresKept ==
  /\ DaysKept(original, original') /\ DaysKept(revised, revised')
  /\ Stored(descriptor) => Stored(descriptor')

LEMMA ReaderStays ==
  ASSUME KospiInv, StoresKept, NEW l, ReaderInv(l)
  PROVE  ReaderInv(l)'
<1>1. original \in SeriesRecords /\ revised \in SeriesRecords
  BY DEF KospiInv, SeriesInv
<1>2. ASSUME l.pc = "shown", l.view \in Views, Projected(Series(l.series), l.view)
      PROVE  Projected(Series(l.series)', l.view)
  <2>1. CASE l.series = "original"
    BY <1>1, <1>2, <2>1, ProjectedStays DEF Series, StoresKept
  <2>2. CASE l.series # "original"
    BY <1>1, <1>2, <2>2, ProjectedStays DEF Series, StoresKept
  <2> QED
    BY <2>1, <2>2
<1>3. CASE l = NoKospiReader
  BY <1>3 DEF ReaderInv
<1>4. CASE l # NoKospiReader
  BY <1>2, <1>4 DEF ReaderInv, StoresKept
<1> QED
  BY <1>3, <1>4

LEMMA ReadersStay ==
  ASSUME KospiInv, StoresKept, kospiReader' = kospiReader
  PROVE  /\ kospiReader' = [b \in KospiReaders |-> kospiReader'[b]]
         /\ \A b \in KospiReaders : ReaderInv(kospiReader[b])'
<1>1. ASSUME NEW b \in KospiReaders
      PROVE  ReaderInv(kospiReader[b])'
  <2> DEFINE l == kospiReader[b]
  <2>1. ReaderInv(l) /\ kospiReader'[b] = l
    BY DEF KospiInv
  <2>2. ASSUME NEW m, ReaderInv(m) PROVE ReaderInv(m)'
    BY <2>2, ReaderStays
  <2> QED
    BY <2>1, <2>2 DEF ReaderInv
<1> QED
  BY <1>1 DEF KospiInv

\* What every step of a run leaves to be shown.
LEMMA RunStep ==
  ASSUME KospiInv, StoresKept, kospiReader' = kospiReader, kospiRuns' \in 0 .. MaxKospiRuns,
         SeriesInv(original)', SeriesInv(revised)', RevisionInv', RunInv'
  PROVE  KospiInv'
  BY ReadersStay DEF KospiInv

LEMMA KeptItself == \A o : DaysKept(o, o)
  BY DEF DaysKept

LEMMA NoRevision ==
  ASSUME KospiInv, ~Stored(descriptor)
  PROVE  ~Stored(revised.registry) /\ StoredDays(revised) = {} /\ ~Stored(revised.latest)
  BY Unregistered DEF KospiInv, RevisionInv

LEMMA RevisionUnstarted ==
  ASSUME KospiInv, ~Stored(descriptor), UNCHANGED <<revised, descriptor>>
  PROVE  RevisionInv'
<1>1. ~Stored(revised'.registry) /\ StoredDays(revised') = {} /\ ~Stored(revised'.latest)
      /\ ~Stored(descriptor')
  BY NoRevision
<1> QED
  BY <1>1 DEF RevisionInv

LEMMA RunAtAppend ==
  ASSUME KospiInv, kospiRun.pc \in {"registry", "session", "latest"}
  PROVE  /\ kospiRun \in AppendRuns /\ AppendRelies
         /\ kospiRun.input \in Inputs /\ kospiRun.series \in {"original", "revised"}
         /\ SeriesInv(Series(kospiRun.series))
<1>1. kospiRun \in AppendRuns /\ AppendRelies
  BY DEF KospiInv, RunInv, NoKospiRun, CorrectionRuns
<1>2. kospiRun.input \in Inputs /\ kospiRun.series \in {"original", "revised"}
  BY <1>1 DEF AppendRuns
<1> QED
  BY <1>1, <1>2 DEF KospiInv, Series

LEMMA RunAtCorrection ==
  ASSUME KospiInv, kospiRun.pc = "correct"
  PROVE  kospiRun \in CorrectionRuns /\ CorrectionRelies /\ kospiRun.code \in CodeVersions
  BY DEF KospiInv, RunInv, NoKospiRun, AppendRuns, CorrectionRuns

\* A run that extends the original series is over when the correction begins.
LEMMA OriginalRun ==
  ASSUME KospiInv, kospiRun.pc \in {"registry", "session", "latest"},
         kospiRun.series = "original"
  PROVE  ~Stored(descriptor)
<1>1. Ready(original, kospiRun.input) /\ kospiRun.input.date < Correction
  BY RunAtAppend DEF AppendRelies, Series
<1>2. kospiRun.input.date \in Nat /\ Correction \in Nat
  BY RunAtAppend, DaysTyped DEF Inputs
<1> QED
  BY <1>1, <1>2 DEF Ready, Ended, KospiInv, RevisionInv

LEMMA RunNext ==
  ASSUME KospiInv, kospiRun \in AppendRuns, NEW pc \in {"registry", "session", "latest"}, KospiRunTo(pc)
  PROVE  /\ kospiRun' \in AppendRuns /\ kospiRun'.pc = pc /\ kospiRun'.input = kospiRun.input
         /\ kospiRun'.series = kospiRun.series /\ kospiRun'.snapshot = kospiRun.snapshot
  BY DEF AppendRuns, KospiRunTo

LEMMA AppendMay ==
  ASSUME NEW o, SeriesInv(o), NEW input \in Inputs, MayAppend(o, input)
  PROVE  Ready(o, input) /\ NextSnapshot(o, input) \in Snapshot
<1>1. o \in SeriesRecords
  BY DEF SeriesInv
<1>2. \A d \in StoredDays(o) : d <= input.date
  <2>1. CASE StoredDays(o) = {}
    BY <2>1
  <2>2. CASE StoredDays(o) # {}
    <3>1. NewestDay(o) <= input.date
      BY <2>2 DEF MayAppend
    <3>2. \A d \in StoredDays(o) : d \in Nat /\ NewestDay(o) \in Nat /\ d <= NewestDay(o)
      BY <2>2, NewestStored, DaysTyped DEF StoredDays
    <3>3. input.date \in Nat
      BY DaysTyped DEF Inputs
    <3> QED
      BY <3>1, <3>2, <3>3
  <2> QED
    BY <2>1, <2>2
<1>3. Ready(o, input)
  BY <1>2 DEF MayAppend, Continues, ResumesInitialization, Ready
<1>4. NextSnapshot(o, input) \in Snapshot
  <2>1. input.date \in KospiDays /\ o.sessions[input.date] \in Snapshot
    BY <1>1, SeriesParts DEF Inputs
  <2>2. Stored(o.latest) => Append(o.latest.snapshot, input) \in Snapshot
    BY <1>1, SeriesParts, AppendProperties DEF Snapshot
  <2>3. <<input>> \in Snapshot
    BY DEF Snapshot
  <2> QED
    BY <2>1, <2>2, <2>3 DEF NextSnapshot
<1> QED
  BY <1>3, <1>4

LEMMA AppendBegins ==
  ASSUME KospiInv, KospiRunStarts, NEW series \in {"original", "revised"}, NEW input \in Inputs,
         BeginAppend(series, Series(series), input),
         series = "original" => input.date < Correction,
         series = "revised" => RevisionOpens
  PROVE  KospiInv'
<1> DEFINE o == Series(series)
<1>1. SeriesInv(o) /\ MayAppend(o, input)
  BY DEF KospiInv, Series, BeginAppend
<1>2. Ready(o, input) /\ NextSnapshot(o, input) \in Snapshot
  BY <1>1, AppendMay
<1>3. UNCHANGED <<original, revised, descriptor, kospiReader>> /\ Series(series)' = o
  BY DEF BeginAppend, Series
<1>4. kospiRun' = [pc |-> "registry", series |-> series, input |-> input,
                   snapshot |-> NextSnapshot(o, input)]
  BY DEF BeginAppend
<1>5. kospiRun' \in AppendRuns /\ AppendRelies'
  <2>1. kospiRun' \in AppendRuns
    BY <1>2, <1>4 DEF AppendRuns
  <2>2. Series(kospiRun.series)' = o
    BY <1>3, <1>4
  <2>3. AppendRelies'
    BY <1>2, <1>3, <1>4, <2>2 DEF AppendRelies, RevisionOpens, Series, Ready, NextSnapshot, InitializedOn,
      StoredDays
  <2> QED
    BY <2>1, <2>3
<1>6. StoresKept
  BY <1>3, KeptItself DEF StoresKept
<1>7. SeriesInv(original)' /\ SeriesInv(revised)' /\ RevisionInv'
  <2>1. SeriesInv(original) /\ SeriesInv(revised) /\ RevisionInv
    BY DEF KospiInv
  <2> QED
    BY <1>3, <2>1 DEF RevisionInv, Ended, CorrectedSnapshot
<1>8. kospiRuns' \in 0 .. MaxKospiRuns
  BY KospiStoreAssumption DEF KospiInv, KospiRunStarts
<1> QED
  BY <1>3, <1>5, <1>6, <1>7, <1>8, RunStep DEF RunInv

LEMMA PutRegistryKeeps ==
  ASSUME KospiInv, PutRegistry
  PROVE  KospiInv'
<1> DEFINE o == Series(kospiRun.series)
           input == kospiRun.input
           p == WithRegistry(o, input)
<1>1. /\ kospiRun.pc = "registry" /\ StoreIn(kospiRun.series, p) /\ KospiRunTo("session")
      /\ UNCHANGED <<descriptor, kospiRuns, kospiReader>>
  BY DEF PutRegistry, KospiRunAt, WithRegistry
<1>2. /\ kospiRun \in AppendRuns /\ AppendRelies /\ input \in Inputs
      /\ kospiRun.series \in {"original", "revised"} /\ SeriesInv(o) /\ Ready(o, input)
      /\ kospiRun.snapshot = NextSnapshot(o, input)
  BY <1>1, RunAtAppend DEF AppendRelies
<1>0. p = WithRegistry(o, input)
  OBVIOUS
<1> HIDE DEF p, o
<1>3. /\ SeriesInv(p) /\ Ready(p, input) /\ Stored(p.registry) /\ DaysKept(o, p)
      /\ NextSnapshot(p, input) = NextSnapshot(o, input)
      /\ Stored(o.registry) => p = o
  BY <1>0, <1>2, RegistryPut
<1>4. /\ kospiRun' \in AppendRuns /\ kospiRun'.pc = "session" /\ kospiRun'.input = input
      /\ kospiRun'.series = kospiRun.series /\ kospiRun'.snapshot = kospiRun.snapshot
  BY <1>1, <1>2, RunNext
<1>5. CASE kospiRun.series = "original"
  <2>1. original' = p /\ revised' = revised /\ o = original /\ Series(kospiRun.series)' = p
    BY <1>1, <1>4, <1>5 DEF StoreIn, Series, o
  <2>2. ~Stored(descriptor) /\ RevisionInv'
    BY <1>1, <1>5, <2>1, OriginalRun, RevisionUnstarted
  <2>3. StoresKept
    BY <1>1, <1>3, <2>1, KeptItself DEF StoresKept
  <2>4. AppendRelies'
    BY <1>2, <1>3, <1>4, <1>5, <2>1 DEF AppendRelies, o
  <2> QED
    BY <1>1, <1>3, <1>4, <2>1, <2>2, <2>3, <2>4, RunStep DEF KospiInv, RunInv
<1>6. CASE kospiRun.series = "revised"
  <2>1. o = revised /\ Stored(descriptor) /\ Stored(revised.registry) /\ Stored(revised.latest)
    BY <1>2, <1>6 DEF AppendRelies, Series, o
  <2>2. original' = original /\ revised' = revised /\ Series(kospiRun.series)' = p /\ p = o
    BY <1>1, <1>3, <1>4, <1>6, <2>1 DEF StoreIn, Series, o
  <2>3. StoresKept
    BY <1>1, <2>2, KeptItself DEF StoresKept
  <2>4. AppendRelies'
    BY <1>1, <1>2, <1>3, <1>4, <1>6, <2>1, <2>2 DEF AppendRelies
  <2>5. RevisionInv'
    <3>1. RevisionInv
      BY DEF KospiInv
    <3> QED
      BY <1>1, <2>2, <3>1 DEF RevisionInv, Ended, CorrectedSnapshot
  <2> QED
    BY <1>1, <1>4, <2>2, <2>3, <2>4, <2>5, RunStep DEF KospiInv, RunInv
<1> QED
  BY <1>2, <1>5, <1>6

LEMMA PutSessionKeeps ==
  ASSUME KospiInv, PutSession
  PROVE  KospiInv'
<1> DEFINE o == Series(kospiRun.series)
           input == kospiRun.input
           s == kospiRun.snapshot
           p == WithSession(o, input, s)
<1>1. /\ kospiRun.pc = "session" /\ StoreIn(kospiRun.series, p) /\ KospiRunTo("latest")
      /\ UNCHANGED <<descriptor, kospiRuns, kospiReader>>
  BY DEF PutSession, KospiRunAt, WithSession
<1>2. /\ kospiRun \in AppendRuns /\ AppendRelies /\ input \in Inputs
      /\ kospiRun.series \in {"original", "revised"} /\ SeriesInv(o) /\ Ready(o, input)
      /\ s = NextSnapshot(o, input) /\ Stored(o.registry)
  BY <1>1, RunAtAppend DEF AppendRelies
<1>0. p = WithSession(o, input, NextSnapshot(o, input))
  BY <1>2
<1> HIDE DEF p, o, s
<1>3. /\ SeriesInv(p) /\ Ready(p, input) /\ DaysKept(o, p)
      /\ p.registry = o.registry /\ p.latest = o.latest
      /\ Stored(s) /\ p.sessions[input.date] = s
      /\ StoredDays(p) = StoredDays(o) \cup {input.date}
      /\ \A d \in StoredDays(p) : d # input.date => p.sessions[d] = o.sessions[d]
  BY <1>0, <1>2, SessionPut
<1>4. /\ kospiRun' \in AppendRuns /\ kospiRun'.pc = "latest" /\ kospiRun'.input = input
      /\ kospiRun'.series = kospiRun.series /\ kospiRun'.snapshot = s
  BY <1>1, <1>2, RunNext DEF s
<1>5. CASE kospiRun.series = "original"
  <2>1. original' = p /\ revised' = revised /\ o = original /\ Series(kospiRun.series)' = p
    BY <1>1, <1>4, <1>5 DEF StoreIn, Series, o
  <2>2. ~Stored(descriptor) /\ RevisionInv'
    BY <1>1, <1>5, <2>1, OriginalRun, RevisionUnstarted
  <2>3. StoresKept
    BY <1>1, <1>3, <2>1, KeptItself DEF StoresKept
  <2>4. AppendRelies'
    BY <1>2, <1>3, <1>4, <1>5, <2>1 DEF AppendRelies, o
  <2> QED
    BY <1>1, <1>3, <1>4, <2>1, <2>2, <2>3, <2>4, RunStep DEF KospiInv, RunInv
<1>6. CASE kospiRun.series = "revised"
  <2>1. o = revised /\ Stored(descriptor) /\ Stored(revised.registry) /\ Stored(revised.latest)
    BY <1>2, <1>6 DEF AppendRelies, Series, o
  <2>2. original' = original /\ revised' = p /\ Series(kospiRun.series)' = p
    BY <1>1, <1>4, <1>6, <2>1 DEF StoreIn, Series, o
  <2>3. StoresKept
    BY <1>1, <1>3, <2>1, <2>2, KeptItself DEF StoresKept
  <2>4. AppendRelies'
    BY <1>1, <1>2, <1>3, <1>4, <1>6, <2>1, <2>2 DEF AppendRelies
  <2>5. input.date > Correction /\ HasCorrection(s)
    <3> DEFINE v == revised.latest.snapshot
               e == DayOf(v)
    <3>1. e \in StoredDays(revised) /\ revised.sessions[e] = v
      BY <2>1, ProjectedDay DEF KospiInv
    <3>2. e = input.date - 1 /\ e >= Correction
      BY <1>2, <2>1 DEF Ready, KospiInv, RevisionInv
    <3>3. e \in Nat /\ input.date \in Nat /\ Correction \in Nat
      BY <1>2, <3>1, DaysTyped DEF Inputs, StoredDays
    <3>4. CASE Stored(revised.sessions[input.date])
      <4>1. input.date \in StoredDays(revised) /\ s = revised.sessions[input.date]
        BY <1>2, <2>1, <3>4 DEF Inputs, StoredDays, NextSnapshot
      <4> QED
        BY <3>2, <3>3, <4>1 DEF KospiInv, RevisionInv
    <3>5. CASE ~Stored(revised.sessions[input.date])
      <4>1. s = Append(v, input)
        BY <1>2, <2>1, <3>5 DEF NextSnapshot
      <4>2. HasCorrection(v)
        BY <3>1, <3>2, <3>3 DEF KospiInv, RevisionInv
      <4>3. v \in Seq(Inputs)
        BY <2>1, SeriesParts DEF KospiInv, SeriesInv, Snapshot
      <4>4. /\ DOMAIN v = 1 .. Len(v) /\ DOMAIN s = 1 .. Len(v) + 1 /\ Len(v) \in Nat
            /\ \A i \in 1 .. Len(v) : s[i] = v[i]
        BY <1>2, <4>1, <4>3, AppendProperties, LenProperties
      <4> HIDE DEF v, e
      <4> QED
        BY <3>2, <3>3, <4>2, <4>4 DEF HasCorrection
    <3> QED
      BY <3>2, <3>3, <3>4, <3>5
  <2>6. RevisionInv'
    <3>1. RevisionInv
      BY DEF KospiInv
    <3>2. input.date \in Nat /\ Correction \in Nat
      BY <1>2, DaysTyped DEF Inputs
    <3>3. ASSUME NEW d \in StoredDays(p)
          PROVE  IF d < Correction THEN p.sessions[d] = original.sessions[d]
                 ELSE HasCorrection(p.sessions[d])
      <4>1. CASE d = input.date
        BY <1>3, <2>5, <3>2, <4>1
      <4>2. CASE d # input.date
        BY <1>3, <2>1, <3>1, <4>2 DEF RevisionInv
      <4> QED
        BY <4>1, <4>2
    <3> QED
      BY <1>1, <1>3, <2>1, <2>2, <3>1, <3>3 DEF RevisionInv, Ended
  <2> QED
    BY <1>1, <1>3, <1>4, <2>2, <2>3, <2>4, <2>6, RunStep DEF KospiInv, RunInv
<1> QED
  BY <1>2, <1>5, <1>6

LEMMA PutLatestKeeps ==
  ASSUME KospiInv, PutLatest
  PROVE  KospiInv'
<1> DEFINE o == Series(kospiRun.series)
           input == kospiRun.input
           s == kospiRun.snapshot
           p == WithLatest(o, input, s)
<1>1. /\ kospiRun.pc = "latest" /\ StoreIn(kospiRun.series, p) /\ kospiRun' = NoKospiRun
      /\ UNCHANGED <<descriptor, kospiRuns, kospiReader>>
  BY DEF PutLatest, KospiRunAt, WithLatest
<1>2. /\ AppendRelies /\ input \in Inputs
      /\ kospiRun.series \in {"original", "revised"} /\ SeriesInv(o) /\ Ready(o, input)
      /\ o.sessions[input.date] = s /\ Stored(s) /\ Stored(o.registry)
  BY <1>1, RunAtAppend DEF AppendRelies
<1>0. p = WithLatest(o, input, s)
  OBVIOUS
<1> HIDE DEF p, o, s
<1>3. /\ SeriesInv(p) /\ DaysKept(o, p) /\ p.registry = o.registry /\ p.sessions = o.sessions
      /\ Stored(p.latest) /\ DayOf(p.latest.snapshot) = input.date
  BY <1>0, <1>2, LatestPut
<1>4. RunInv' /\ kospiRuns' \in 0 .. MaxKospiRuns
  BY <1>1 DEF RunInv, KospiInv
<1>5. CASE kospiRun.series = "original"
  <2>1. original' = p /\ revised' = revised /\ o = original
    BY <1>1, <1>5 DEF StoreIn, Series, o
  <2>2. RevisionInv'
    BY <1>1, <1>5, <2>1, OriginalRun, RevisionUnstarted
  <2>3. StoresKept
    BY <1>1, <1>3, <2>1, KeptItself DEF StoresKept
  <2> QED
    BY <1>1, <1>3, <1>4, <2>1, <2>2, <2>3, RunStep DEF KospiInv
<1>6. CASE kospiRun.series = "revised"
  <2>1. o = revised /\ Stored(descriptor) /\ Stored(revised.registry) /\ Stored(revised.latest)
    BY <1>2, <1>6 DEF AppendRelies, Series, o
  <2>2. original' = original /\ revised' = p
    BY <1>1, <1>6 DEF StoreIn
  <2>3. StoresKept
    BY <1>1, <1>3, <2>1, <2>2, KeptItself DEF StoresKept
  <2>4. input.date >= Correction
    <3>1. DayOf(revised.latest.snapshot) = input.date - 1 /\ DayOf(revised.latest.snapshot) >= Correction
      BY <1>2, <2>1 DEF Ready, KospiInv, RevisionInv
    <3>2. input.date \in Nat /\ Correction \in Nat
      BY <1>2, DaysTyped DEF Inputs
    <3> QED
      BY <3>1, <3>2
  <2>5. StoredDays(p) = StoredDays(revised) /\ RevisionInv
    BY <1>3, <2>1, SameSessions DEF KospiInv
  <2>6. RevisionInv'
    BY <1>1, <1>3, <2>1, <2>2, <2>4, <2>5 DEF RevisionInv, Ended
  <2> QED
    BY <1>1, <1>3, <1>4, <2>2, <2>3, <2>6, RunStep DEF KospiInv
<1> QED
  BY <1>2, <1>5, <1>6

-----------------------------------------------------------------------------
(* The correction.                                                         *)

LEMMA OriginalAtCorrection ==
  ASSUME KospiInv, Ended
  PROVE  /\ Correction \in StoredDays(original) /\ DayChain(original, Correction)
         /\ Stored(original.registry) /\ InitializedOn(original) \in KospiDays
         /\ \A d \in InitializedOn(original) .. Correction : d \in StoredDays(original)
         /\ original.sessions[Correction] \in Snapshot
<1>1. SeriesInv(original) /\ original \in SeriesRecords
  BY DEF KospiInv, SeriesInv
<1>2. Correction \in StoredDays(original) /\ DayChain(original, Correction) /\ Stored(original.registry)
  BY <1>1, ProjectedDay DEF Ended
<1> QED
  BY <1>1, <1>2, ChainEnds, SeriesParts DEF StoredDays

LEMMA StartCorrectionKeeps ==
  ASSUME KospiInv, NEW code \in CodeVersions, StartCorrection(code)
  PROVE  KospiInv'
<1>1. /\ Anchored /\ ~Stored(revised.latest) /\ descriptor \in {Absent, Revision(code)}
      /\ kospiRun' = [pc |-> "correct", code |-> code]
      /\ UNCHANGED <<original, revised, descriptor, kospiReader>>
      /\ kospiRuns < MaxKospiRuns /\ kospiRuns' = kospiRuns + 1
  BY DEF StartCorrection, KospiRunStarts
<1>2. Ended
  BY <1>1, NewestStored DEF Anchored, Ended
<1>3. RunInv'
  BY <1>1, <1>2 DEF RunInv, CorrectionRuns, CorrectionRelies, Ended, Stored, Revision
<1>4. StoresKept
  BY <1>1, KeptItself DEF StoresKept
<1>5. SeriesInv(original)' /\ SeriesInv(revised)' /\ RevisionInv'
  <2>1. SeriesInv(original) /\ SeriesInv(revised) /\ RevisionInv
    BY DEF KospiInv
  <2> QED
    BY <1>1, <2>1 DEF RevisionInv, Ended, CorrectedSnapshot
<1>6. kospiRuns' \in 0 .. MaxKospiRuns
  BY <1>1, KospiStoreAssumption DEF KospiInv
<1> QED
  BY <1>1, <1>3, <1>4, <1>5, <1>6, RunStep

LEMMA PutDescriptorKeeps ==
  ASSUME KospiInv, PutDescriptor
  PROVE  KospiInv'
<1>1. /\ kospiRun.pc = "correct" /\ ~Stored(descriptor) /\ descriptor' = Revision(kospiRun.code)
      /\ UNCHANGED <<original, revised, kospiRun, kospiRuns, kospiReader>>
  BY DEF PutDescriptor, KospiRunAt
<1>2. /\ kospiRun \in CorrectionRuns /\ Ended /\ ~Stored(revised.latest)
      /\ kospiRun.code \in CodeVersions
  BY <1>1, RunAtCorrection DEF CorrectionRelies
<1>3. ~Stored(revised.registry) /\ StoredDays(revised) = {}
  BY <1>1, NoRevision
<1>4. descriptor' \in Snapshot \X CodeVersions /\ descriptor'[1] = original.sessions[Correction]
  BY <1>1, <1>2, OriginalAtCorrection DEF Revision
<1>5. RevisionInv'
  BY <1>1, <1>2, <1>3, <1>4 DEF RevisionInv, Ended
<1>6. RunInv'
  BY <1>1, <1>2 DEF RunInv, CorrectionRelies, Ended, Revision
<1>7. StoresKept
  BY <1>1, KeptItself DEF StoresKept
<1> QED
  BY <1>1, <1>5, <1>6, <1>7, RunStep DEF KospiInv

LEMMA PutRevisedRegistryKeeps ==
  ASSUME KospiInv, PutRevisedRegistry
  PROVE  KospiInv'
<1> DEFINE p == [revised EXCEPT !.registry = original.registry]
<1>1. /\ kospiRun.pc = "correct" /\ Stored(descriptor) /\ ~Stored(revised.registry)
      /\ revised' = p
      /\ UNCHANGED <<original, descriptor, kospiRun, kospiRuns, kospiReader>>
  BY DEF PutRevisedRegistry, KospiRunAt
<1>2. /\ kospiRun \in CorrectionRuns /\ CorrectionRelies /\ Ended
  BY <1>1, RunAtCorrection DEF CorrectionRelies
<1>3. StoredDays(revised) = {} /\ ~Stored(revised.latest) /\ revised \in SeriesRecords
  BY <1>1, Unregistered DEF KospiInv, SeriesInv
<1>4. original \in SeriesRecords
  BY DEF KospiInv, SeriesInv
<1>5. /\ p \in SeriesRecords /\ p.registry = original.registry
      /\ p.sessions = revised.sessions /\ p.latest = revised.latest
  BY <1>3, <1>4 DEF SeriesRecords
<1> HIDE DEF p
<1>6. StoredDays(p) = {} /\ DaysKept(revised, p)
  BY <1>3, <1>5, SameSessions
<1>7. SeriesInv(p)
  BY <1>3, <1>5, <1>6 DEF SeriesInv
<1>8. RevisionInv'
  <2>1. RevisionInv
    BY DEF KospiInv
  <2> QED
    BY <1>1, <1>3, <1>5, <1>6, <2>1 DEF RevisionInv, Ended
<1>9. RunInv'
  BY <1>1, <1>2, <1>3, <1>5 DEF RunInv, CorrectionRelies, Ended, Revision
<1>10. StoresKept
  BY <1>1, <1>6, KeptItself DEF StoresKept
<1> QED
  BY <1>1, <1>7, <1>8, <1>9, <1>10, RunStep DEF KospiInv

LEMMA PutRevisedDayKeeps ==
  ASSUME KospiInv, NEW d \in KospiDays, PutRevisedDay(d)
  PROVE  KospiInv'
<1> DEFINE code == kospiRun.code
           s == InheritedOrCorrected(d, code)
           p == [revised EXCEPT !.sessions[d] = s]
           n == InitializedOn(revised)
<1>1. /\ kospiRun.pc = "correct" /\ Stored(descriptor) /\ Stored(revised.registry)
      /\ d \in MissingDays /\ \A e \in MissingDays : d <= e
      /\ revised' = p
      /\ UNCHANGED <<original, descriptor, kospiRun, kospiRuns, kospiReader>>
  BY DEF PutRevisedDay, KospiRunAt
<1>2. /\ kospiRun \in CorrectionRuns /\ CorrectionRelies /\ Ended /\ ~Stored(revised.latest)
      /\ descriptor = Revision(code) /\ code \in CodeVersions
  BY <1>1, RunAtCorrection DEF CorrectionRelies
<1>3. revised.registry = original.registry /\ InitializedOn(original) = n
  BY <1>1 DEF KospiInv, RevisionInv, InitializedOn
<1>4. /\ DayChain(original, Correction) /\ n \in KospiDays
      /\ \A e \in n .. Correction : e \in StoredDays(original)
  BY <1>2, <1>3, OriginalAtCorrection
<1>5. /\ n \in Nat /\ d \in Nat /\ Correction \in Nat /\ n <= d /\ d <= Correction
      /\ ~Stored(revised.sessions[d])
  BY <1>1, <1>3, <1>4, DaysTyped DEF MissingDays
<1>6. /\ revised \in SeriesRecords /\ \A e \in StoredDays(revised) : DayChain(revised, e)
      /\ original \in SeriesRecords /\ \A e \in StoredDays(original) : DayChain(original, e)
  BY DEF KospiInv, SeriesInv
<1> HIDE DEF s, n, code
<1>7. \A e \in n .. d - 1 : e \in StoredDays(revised) /\ revised.sessions[e] = original.sessions[e]
  <2> SUFFICES ASSUME NEW e \in n .. d - 1
               PROVE  e \in StoredDays(revised) /\ revised.sessions[e] = original.sessions[e]
    OBVIOUS
  <2>1. e \in n .. Correction /\ e < d /\ e < Correction /\ e \in KospiDays
    BY <1>4, <1>5, KospiStoreAssumption DEF KospiDays
  <2>2. e \notin MissingDays
    BY <1>1, <1>5, <2>1
  <2>3. e \in StoredDays(revised)
    BY <1>3, <2>1, <2>2 DEF MissingDays, StoredDays
  <2> QED
    BY <2>1, <2>3 DEF KospiInv, RevisionInv
<1>8. /\ s \in Snapshot /\ Len(s) = d - n + 1
      /\ \A i \in 1 .. Len(s) : s[i].date = n + i - 1
      /\ \A i \in 1 .. Len(s) - 1 : original.sessions[n + i - 1] = SubSeq(s, 1, i)
      /\ d = Correction => HasCorrection(s)
  <2>1. CASE d # Correction
    <3>1. s = original.sessions[d] /\ d \in StoredDays(original)
      BY <1>4, <1>5, <2>1 DEF InheritedOrCorrected, s
    <3>2. DayChain(original, d) /\ s \in Snapshot
      BY <1>6, <3>1, SeriesParts
    <3>3. /\ Len(s) = d - n + 1
          /\ \A i \in 1 .. Len(s) : s[i].date = n + i - 1 /\ original.sessions[n + i - 1] = SubSeq(s, 1, i)
      BY <1>3, <3>1, <3>2 DEF DayChain
    <3>4. 1 .. Len(s) - 1 \subseteq 1 .. Len(s)
      BY <1>5, <3>3
    <3> QED
      BY <2>1, <3>2, <3>3, <3>4
  <2>2. CASE d = Correction
    <3> DEFINE t == original.sessions[Correction - 1]
               input == Input(Correction, CorrectedSources, code)
    <3>1. s = Append(t, input) /\ input \in Inputs /\ t \in Snapshot
      BY <1>2, <1>6, <2>2, DaysTyped, SeriesParts, KospiStoreAssumption
      DEF InheritedOrCorrected, CorrectedSnapshot, s, Input, Inputs
    <3>2. /\ Len(t) = Correction - n
          /\ \A i \in 1 .. Len(t) : t[i].date = n + i - 1 /\ original.sessions[n + i - 1] = SubSeq(t, 1, i)
      <4>1. CASE n = Correction
        <5>1. Correction - 1 \notin StoredDays(original)
          BY <1>3, <1>5, <1>6, <4>1 DEF DayChain
        <5>2. t = <<>>
          BY <5>1, DaysTyped DEF StoredDays, Stored, Absent
        <5> QED
          BY <1>5, <4>1, <5>2
      <4>2. CASE n # Correction
        <5>1. Correction - 1 \in StoredDays(original)
          BY <1>4, <1>5, <2>2, <4>2
        <5>2. DayChain(original, Correction - 1)
          BY <1>6, <5>1
        <5>3. /\ Len(t) = (Correction - 1) - n + 1
              /\ \A i \in 1 .. Len(t) : t[i].date = n + i - 1 /\ original.sessions[n + i - 1] = SubSeq(t, 1, i)
          BY <1>3, <5>2 DEF DayChain
        <5>4. (Correction - 1) - n + 1 = Correction - n
          BY <1>5
        <5> QED
          BY <5>3, <5>4
      <4> QED
        BY <4>1, <4>2
    <3>3. /\ s \in Snapshot /\ Len(s) = Len(t) + 1 /\ s[Len(t) + 1] = input
          /\ \A i \in 1 .. Len(t) : s[i] = t[i]
          /\ Len(t) \in Nat /\ DOMAIN s = 1 .. Len(s)
      BY <3>1, AppendProperties, LenProperties DEF Snapshot
    <3>4. \A i \in 1 .. Len(t) : SubSeq(s, 1, i) = SubSeq(t, 1, i)
      BY <3>1, PartOfAppend DEF Snapshot
    <3>5. input.date = Correction /\ input.source = CorrectedSources
      BY DEF Input
    <3> HIDE DEF t, input
    <3>6. HasCorrection(s)
      <4>1. Len(t) + 1 \in DOMAIN s
        BY <3>3
      <4> QED
        BY <3>3, <3>5, <4>1 DEF HasCorrection
    <3>7. Len(s) = d - n + 1 /\ Len(s) - 1 = Len(t)
      BY <1>5, <2>2, <3>2, <3>3
    <3>8. ASSUME NEW i \in 1 .. Len(s)
          PROVE  s[i].date = n + i - 1
      <4>1. CASE i = Len(t) + 1
        BY <1>5, <3>2, <3>3, <3>5, <4>1
      <4>2. CASE i # Len(t) + 1
        <5>1. i \in 1 .. Len(t)
          BY <3>3, <4>2
        <5> QED
          BY <3>2, <3>3, <5>1
      <4> QED
        BY <4>1, <4>2
    <3> QED
      BY <3>2, <3>3, <3>4, <3>6, <3>7, <3>8
  <2> QED
    BY <2>1, <2>2
<1>9. \A i \in 1 .. Len(s) - 1 : revised.sessions[n + i - 1] = SubSeq(s, 1, i)
  <2>1. \A i \in 1 .. Len(s) - 1 : n + i - 1 \in n .. d - 1
    BY <1>5, <1>8
  <2> QED
    BY <1>7, <1>8, <2>1
<1>10. /\ p \in SeriesRecords /\ p.registry = revised.registry /\ p.latest = revised.latest
       /\ p.sessions[d] = s /\ \A e \in KospiDays \ {d} : p.sessions[e] = revised.sessions[e]
  <2>1. revised.sessions \in [KospiDays -> Snapshot]
    BY <1>6, SeriesParts
  <2>2. [revised.sessions EXCEPT ![d] = s] \in [KospiDays -> Snapshot]
    BY <1>8, <2>1
  <2> QED
    BY <1>6, <2>1, <2>2 DEF SeriesRecords
<1> HIDE DEF p
<1>11. AddsDay(revised, p, d, s)
  BY <1>1, <1>5, <1>6, <1>8, <1>9, <1>10 DEF AddsDay, n
<1>12. /\ \A e \in StoredDays(p) : DayChain(p, e)
       /\ StoredDays(p) = StoredDays(revised) \cup {d} /\ Stored(s)
  BY <1>11, DayPut
<1>13. SeriesInv(p) /\ DaysKept(revised, p)
  BY <1>2, <1>5, <1>10, <1>12 DEF SeriesInv, DaysKept, StoredDays
<1>14. RevisionInv'
  <2>1. RevisionInv
    BY DEF KospiInv
  <2>2. descriptor[2] = code
    BY <1>2 DEF Revision
  <2>3. \A e \in StoredDays(p) : e = d \/ (e \in StoredDays(revised) /\ p.sessions[e] = revised.sessions[e])
    BY <1>10, <1>12 DEF StoredDays
  <2>4. d # Correction => s = original.sessions[d] /\ d < Correction
    BY <1>5 DEF s, InheritedOrCorrected
  <2>5. d = Correction => s = CorrectedSnapshot(code)
    BY DEF s, InheritedOrCorrected
  <2>6. \A e \in StoredDays(p) :
          IF e < Correction THEN p.sessions[e] = original.sessions[e]
          ELSE HasCorrection(p.sessions[e])
    BY <1>5, <1>8, <1>10, <2>1, <2>3, <2>4 DEF RevisionInv
  <2>7. \A e \in StoredDays(p) :
          e <= Correction /\ (e = Correction => p.sessions[e] = CorrectedSnapshot(code))
    BY <1>2, <1>5, <1>10, <2>1, <2>2, <2>3, <2>5 DEF RevisionInv
  <2>8. CorrectedSnapshot(code)' = CorrectedSnapshot(code)
    BY <1>1 DEF CorrectedSnapshot, code
  <2>9. Ended' /\ descriptor' = descriptor /\ original' = original /\ code' = code
    BY <1>1, <1>2 DEF Ended, code
  <2>10. CorrectedSnapshot(descriptor[2])' = CorrectedSnapshot(code)
    BY <2>2, <2>9 DEF CorrectedSnapshot
  <2> QED
    BY <1>1, <1>2, <1>10, <2>1, <2>6, <2>7, <2>9, <2>10 DEF RevisionInv
<1>15. RunInv'
  BY <1>1, <1>2, <1>10 DEF RunInv, CorrectionRelies, Ended, Revision, code
<1>16. StoresKept
  BY <1>1, <1>13, KeptItself DEF StoresKept
<1> QED
  BY <1>1, <1>13, <1>14, <1>15, <1>16, RunStep DEF KospiInv

LEMMA HistoryTyped ==
  ASSUME NEW s \in Snapshot, Stored(s)
  PROVE  HistoryOf(s) \in Seq(KospiDays)
<1>1. /\ Len(s) \in Nat /\ DOMAIN s = 1 .. Len(s)
      /\ \A i \in 1 .. Len(s) : s[i].date \in KospiDays
  BY LastOfSnapshot DEF Inputs
<1>2. HistoryOf(s) \in [1 .. Len(s) -> KospiDays]
  BY <1>1 DEF HistoryOf
<1> QED
  BY <1>1, <1>2, FunctionIsSeq

LEMMA PutRevisedLatestKeeps ==
  ASSUME KospiInv, PutRevisedLatest
  PROVE  KospiInv'
<1> DEFINE s == CorrectedSnapshot(kospiRun.code)
           p == [revised EXCEPT !.latest = Projection(s, HistoryOf(s))]
<1>1. /\ kospiRun.pc = "correct" /\ Stored(descriptor) /\ Stored(revised.registry)
      /\ MissingDays = {} /\ revised' = p /\ kospiRun' = NoKospiRun
      /\ UNCHANGED <<original, descriptor, kospiRuns, kospiReader>>
  BY DEF PutRevisedLatest, KospiRunAt
<1>2. Ended /\ ~Stored(revised.latest) /\ descriptor = Revision(kospiRun.code)
  BY <1>1, RunAtCorrection DEF CorrectionRelies
<1>3. /\ revised \in SeriesRecords /\ \A e \in StoredDays(revised) : DayChain(revised, e)
      /\ RevisionInv
  BY DEF KospiInv, SeriesInv
<1>4. Correction \in StoredDays(revised)
  <2>1. InitializedOn(original) <= Correction /\ InitializedOn(original) \in Nat /\ Correction \in Nat
    BY <1>2, OriginalAtCorrection, DaysTyped DEF DayChain
  <2> QED
    BY <1>1, <2>1, DaysTyped DEF MissingDays, StoredDays
<1>5. revised.sessions[Correction] = s
  BY <1>2, <1>3, <1>4 DEF RevisionInv, Revision
<1> HIDE DEF s
<1>6. DayOf(s) = Correction /\ ChainOf(revised, Correction)
  BY <1>3, <1>4, <1>5, ChainEnds
<1>7. s \in Snapshot /\ Stored(s)
  BY <1>3, <1>4, <1>5, SeriesParts DEF StoredDays
<1>8. Projection(s, HistoryOf(s)) \in Views
  BY <1>7, HistoryTyped DEF Projection, Views, Stored, Absent
<1>9. /\ p \in SeriesRecords /\ p.registry = revised.registry /\ p.sessions = revised.sessions
      /\ p.latest = Projection(s, HistoryOf(s))
  BY <1>3, <1>8 DEF SeriesRecords
<1>10. p.latest.snapshot = s /\ p.latest.history = HistoryOf(s) /\ Stored(p.latest)
  BY <1>8, <1>9 DEF Projection, Stored, Absent, Views
<1> HIDE DEF p
<1>11. Projected(p, p.latest) /\ DaysKept(revised, p) /\ StoredDays(p) = StoredDays(revised)
       /\ \A e \in StoredDays(p) : DayChain(p, e)
  <2>1. Projected(revised, p.latest)
    BY <1>5, <1>6, <1>10 DEF Projected
  <2> QED
    BY <1>3, <1>9, <2>1, SameSessions
<1>12. SeriesInv(p)
  <2>1. \A e \in StoredDays(p) : e <= DayOf(p.latest.snapshot) + 1
    <3>1. \A e \in StoredDays(p) : e \in Nat /\ e <= Correction /\ Correction \in Nat
      BY <1>2, <1>3, <1>11, DaysTyped DEF RevisionInv, StoredDays
    <3> QED
      BY <1>6, <1>10, <3>1
  <2> QED
    BY <1>9, <1>11, <2>1 DEF SeriesInv
<1>13. RevisionInv'
  <2>1. DayOf(p.latest.snapshot) >= Correction
    BY <1>6, <1>10, DaysTyped
  <2> QED
    BY <1>1, <1>3, <1>9, <1>10, <1>11, <2>1 DEF RevisionInv, Ended
<1>14. RunInv'
  BY <1>1 DEF RunInv
<1>15. StoresKept
  BY <1>1, <1>11, KeptItself DEF StoresKept
<1> QED
  BY <1>1, <1>12, <1>13, <1>14, <1>15, RunStep DEF KospiInv

LEMMA KospiRunFailsKeeps ==
  ASSUME KospiInv, KospiRunFails
  PROVE  KospiInv'
<1>1. /\ kospiRun' = NoKospiRun
      /\ UNCHANGED <<original, revised, descriptor, kospiRuns, kospiReader>>
  BY DEF KospiRunFails
<1>2. RunInv' /\ StoresKept
  BY <1>1, KeptItself DEF RunInv, StoresKept
<1>3. RevisionInv'
  BY <1>1 DEF KospiInv, RevisionInv, Ended, CorrectedSnapshot
<1> QED
  BY <1>1, <1>2, <1>3, RunStep DEF KospiInv

-----------------------------------------------------------------------------
(* The browsers.                                                           *)

\* A step of browser b changes only what browser b has.
LEMMA ReaderStep ==
  ASSUME KospiInv, NEW b \in KospiReaders, NEW l, ReaderTo(b, l), KospiStays, ReaderInv(l)
  PROVE  KospiInv'
<1>1. UNCHANGED <<original, revised, descriptor, kospiRun, kospiRuns>>
  BY DEF KospiStays
<1>2. StoresKept
  BY <1>1, KeptItself DEF StoresKept
<1>3. SeriesInv(original)' /\ SeriesInv(revised)' /\ kospiRuns' \in 0 .. MaxKospiRuns
  BY <1>1 DEF KospiInv
<1>4. RevisionInv'
  BY <1>1 DEF KospiInv, RevisionInv, Ended, CorrectedSnapshot
<1>5. RunInv'
  <2>1. CASE kospiRun = NoKospiRun
    BY <1>1, <2>1 DEF RunInv
  <2>2. CASE kospiRun \in AppendRuns /\ AppendRelies
    <3>1. Series(kospiRun.series)' = Series(kospiRun.series)
      BY <1>1 DEF Series
    <3> QED
      BY <1>1, <2>2, <3>1 DEF RunInv, AppendRelies
  <2>3. CASE kospiRun \in CorrectionRuns /\ CorrectionRelies
    BY <1>1, <2>3 DEF RunInv, CorrectionRelies, Ended, Revision
  <2> QED
    BY <2>1, <2>2, <2>3 DEF KospiInv, RunInv
<1>6. kospiReader' = [c \in KospiReaders |-> IF c = b THEN l ELSE kospiReader[c]]
  BY DEF ReaderTo, KospiInv
<1>7. ASSUME NEW c \in KospiReaders
      PROVE  ReaderInv(kospiReader[c])'
  <2>1. ReaderInv(kospiReader[c])
    BY DEF KospiInv
  <2>2. kospiReader'[c] = IF c = b THEN l ELSE kospiReader[c]
    BY <1>6
  <2>3. \A m : ReaderInv(m) => ReaderInv(m)'
    BY <1>2, ReaderStays
  <2>4. ReaderInv(l)' /\ ReaderInv(kospiReader[c])
    BY <2>1, <2>3
  <2> QED
    BY <2>1, <2>2, <2>3 DEF ReaderInv
<1> QED
  BY <1>3, <1>4, <1>5, <1>6, <1>7 DEF KospiInv

LEMMA PartsRead ==
  ASSUME KospiInv, NEW b \in KospiReaders, kospiReader[b].pc = "parts"
  PROVE  LET l == kospiReader[b] IN
         /\ l.since \in BOOLEAN /\ l = [pc |-> "parts", got |-> l.got, since |-> l.since]
         /\ DOMAIN l.got \subseteq Parts
         /\ l.since => Stored(descriptor)
         /\ "latest" \in DOMAIN l.got => l.got["latest"] \in {Absent} \cup Views
         /\ l.since /\ "descriptor" \in DOMAIN l.got => Stored(l.got["descriptor"])
<1>1. ReaderInv(kospiReader[b])
  BY DEF KospiInv
<1>2. kospiReader[b] # NoKospiReader
  BY DEF NoKospiReader
<1> QED
  BY <1>1, <1>2 DEF ReaderInv

LEMMA OpenKospiKeeps ==
  ASSUME KospiInv, NEW b \in KospiReaders, OpenKospi(b)
  PROVE  KospiInv'
<1> DEFINE l == [pc |-> "parts", got |-> <<>>, since |-> Stored(descriptor)]
<1>1. ReaderTo(b, l) /\ KospiStays
  BY DEF OpenKospi
<1>2. DOMAIN (<<>>) = {}
  OBVIOUS
<1>3. l.pc = "parts" /\ l.got = <<>> /\ l.since = Stored(descriptor) /\ Stored(descriptor) \in BOOLEAN
      /\ l = [pc |-> "parts", got |-> l.got, since |-> l.since]
  BY DEF Stored
<1> HIDE DEF l
<1>4. ReaderInv(l)
  BY <1>2, <1>3 DEF ReaderInv
<1> QED
  BY <1>1, <1>4, ReaderStep

LEMMA ReadPartKeeps ==
  ASSUME KospiInv, NEW b \in KospiReaders, NEW p \in Parts, ReadPart(b, p)
  PROVE  KospiInv'
<1> DEFINE k == kospiReader[b]
           got == [q \in DOMAIN k.got \cup {p} |-> IF q = p THEN Part(p) ELSE k.got[q]]
           l == [k EXCEPT !.got = got]
<1>1. k.pc = "parts" /\ ReaderTo(b, l) /\ KospiStays
  BY DEF ReadPart
<1>2. /\ k.since \in BOOLEAN /\ k = [pc |-> "parts", got |-> k.got, since |-> k.since]
      /\ DOMAIN k.got \subseteq Parts
      /\ k.since => Stored(descriptor)
      /\ "latest" \in DOMAIN k.got => k.got["latest"] \in {Absent} \cup Views
      /\ k.since /\ "descriptor" \in DOMAIN k.got => Stored(k.got["descriptor"])
  BY <1>1, PartsRead
<1> HIDE DEF k
<1>3. l = [pc |-> "parts", got |-> got, since |-> k.since]
  BY <1>2
<1>4. DOMAIN got = DOMAIN k.got \cup {p} /\ \A q \in DOMAIN got : got[q] = IF q = p THEN Part(p) ELSE k.got[q]
  OBVIOUS
<1> HIDE DEF got, l
<1>5. l.pc = "parts" /\ l.got = got /\ l.since = k.since
  BY <1>3
<1>6. revised.latest \in {Absent} \cup Views
  BY DEF KospiInv, SeriesInv, SeriesRecords
<1>7. DOMAIN got \subseteq Parts
  BY <1>2, <1>4
<1>8. "latest" \in DOMAIN got => got["latest"] \in {Absent} \cup Views
  BY <1>2, <1>4, <1>6 DEF Part
<1>9. k.since /\ "descriptor" \in DOMAIN got => Stored(got["descriptor"])
  BY <1>2, <1>4 DEF Part
<1>10. ReaderInv(l)
  BY <1>2, <1>3, <1>5, <1>7, <1>8, <1>9 DEF ReaderInv
<1> QED
  BY <1>1, <1>10, ReaderStep

LEMMA NoReaderInv == ReaderInv(NoKospiReader)
  BY DEF ReaderInv

LEMMA ShownInv ==
  ASSUME NEW view \in Views, NEW series, NEW since \in BOOLEAN,
         Projected(Series(series), view), since => series = "revised"
  PROVE  ReaderInv([pc |-> "shown", series |-> series, view |-> view, since |-> since])
<1> DEFINE l == [pc |-> "shown", series |-> series, view |-> view, since |-> since]
<1>1. l.pc = "shown" /\ l.series = series /\ l.view = view /\ l.since = since
  OBVIOUS
<1> HIDE DEF l
<1>2. ReaderInv(l)
  BY <1>1 DEF ReaderInv
<1> QED
  BY <1>2 DEF l

LEMMA ShowRevisedKeeps ==
  ASSUME KospiInv, NEW b \in KospiReaders, ShowRevised(b)
  PROVE  KospiInv'
<1> DEFINE k == kospiReader[b]
           view == k.got["latest"]
<1>1. /\ k.pc = "parts" /\ DOMAIN k.got = Parts /\ Stored(view) /\ KospiStays
      /\ IF Projected(revised, view) /\ k.got["descriptor"][1] = original.sessions[Correction]
         THEN ShowKospi(b, "revised", view) ELSE ReaderTo(b, NoKospiReader)
  BY DEF ShowRevised, AllRead, Found, Parts
<1>2. k.since \in BOOLEAN /\ view \in Views
  BY <1>1, PartsRead DEF Parts, Stored
<1> HIDE DEF view
<1>3. CASE Projected(revised, view) /\ k.got["descriptor"][1] = original.sessions[Correction]
  <2>1. ReaderTo(b, [pc |-> "shown", series |-> "revised", view |-> view, since |-> k.since])
    BY <1>1, <1>3 DEF ShowKospi
  <2>2. Projected(Series("revised"), view)
    BY <1>3 DEF Series
  <2>3. ReaderInv([pc |-> "shown", series |-> "revised", view |-> view, since |-> k.since])
    BY <1>2, <2>2, ShownInv
  <2> QED
    BY <1>1, <2>1, <2>3, ReaderStep
<1>4. CASE ~(Projected(revised, view) /\ k.got["descriptor"][1] = original.sessions[Correction])
  <2>1. ReaderTo(b, NoKospiReader)
    BY <1>1, <1>4
  <2> QED
    BY <1>1, <2>1, NoReaderInv, ReaderStep
<1> QED
  BY <1>3, <1>4

LEMMA ShowOriginalKeeps ==
  ASSUME KospiInv, NEW b \in KospiReaders, ShowOriginal(b)
  PROVE  KospiInv'
<1> DEFINE k == kospiReader[b]
           view == original.latest
<1>1. /\ k.pc = "parts" /\ DOMAIN k.got = Parts /\ Found(b) = {} /\ KospiStays
      /\ IF Stored(view) THEN ShowKospi(b, "original", view) ELSE ReaderTo(b, NoKospiReader)
  BY DEF ShowOriginal, AllRead, NotRevised
<1>2. k.since \in BOOLEAN /\ ~k.since
  BY <1>1, PartsRead DEF Parts, Found
<1>3. CASE Stored(view)
  <2>1. ReaderTo(b, [pc |-> "shown", series |-> "original", view |-> view, since |-> k.since])
    BY <1>1, <1>3 DEF ShowKospi
  <2>2. view \in Views /\ Projected(Series("original"), view)
    BY <1>3, SeriesParts DEF Series, KospiInv, SeriesInv
  <2>3. ReaderInv([pc |-> "shown", series |-> "original", view |-> view, since |-> k.since])
    BY <1>2, <2>2, ShownInv
  <2> QED
    BY <1>1, <2>1, <2>3, ReaderStep
<1>4. CASE ~Stored(view)
  <2>1. ReaderTo(b, NoKospiReader)
    BY <1>1, <1>4
  <2> QED
    BY <1>1, <2>1, NoReaderInv, ReaderStep
<1> QED
  BY <1>3, <1>4

-----------------------------------------------------------------------------
(* The series.                                                             *)

LEMMA PartOfPart ==
  ASSUME NEW S, NEW s \in Seq(S), NEW k \in 1 .. Len(s), NEW i \in 1 .. k
  PROVE  SubSeq(SubSeq(s, 1, k), 1, i) = SubSeq(s, 1, i)
<1> DEFINE t == SubSeq(s, 1, k)
           a == SubSeq(t, 1, i)
           b == SubSeq(s, 1, i)
<1>1. t \in Seq(S) /\ Len(t) = k /\ \A j \in 1 .. k : t[j] = s[j]
  BY Parts1
<1>2. Len(s) \in Nat /\ i \in 1 .. Len(s) /\ i \in 1 .. Len(t)
  BY <1>1, LenProperties
<1> HIDE DEF t
<1>3. a \in Seq(S) /\ Len(a) = i /\ \A j \in 1 .. i : a[j] = t[j]
  BY <1>1, <1>2, Parts1
<1>4. b \in Seq(S) /\ Len(b) = i /\ \A j \in 1 .. i : b[j] = s[j]
  BY <1>2, Parts1
<1>5. \A j \in 1 .. i : a[j] = b[j]
  BY <1>1, <1>3, <1>4
<1> HIDE DEF a, b
<1>6. a = b
  BY <1>3, <1>4, <1>5, SeqEqual
<1> QED
  BY <1>6 DEF a, b, t

LEMMA EmptySeriesInv ==
  SeriesInv(EmptySeries) /\ StoredDays(EmptySeries) = {}
  /\ ~Stored(EmptySeries.registry) /\ ~Stored(EmptySeries.latest)
<1>1. /\ EmptySeries.registry = Absent /\ EmptySeries.latest = Absent
      /\ EmptySeries.sessions = [d \in KospiDays |-> Absent]
  BY DEF EmptySeries
<1>2. StoredDays(EmptySeries) = {} /\ ~Stored(EmptySeries.registry) /\ ~Stored(EmptySeries.latest)
  BY <1>1 DEF StoredDays, Stored
<1>3. EmptySeries \in SeriesRecords
  <2>1. [d \in KospiDays |-> Absent] \in [KospiDays -> Snapshot]
    BY EmptySeq DEF Snapshot, Absent
  <2> QED
    BY <2>1 DEF EmptySeries, SeriesRecords
<1> QED
  BY <1>2, <1>3 DEF SeriesInv

\* The original series when it was published up to the corrected day.
PublishedInputs(source, code) == [d \in 1 .. Correction |-> Input(d, source, code)]
Published(inputs) ==
  [registry |-> Registry(inputs[1]),
   sessions |-> [d \in KospiDays |-> IF d <= Correction THEN SubSeq(inputs, 1, d) ELSE Absent],
   latest |-> Projection(inputs, HistoryOf(inputs))]

LEMMA PublishedSeriesInv ==
  ASSUME NEW source \in SourceSets, NEW code \in CodeVersions,
         NEW inputs, inputs = PublishedInputs(source, code), NEW o, o = Published(inputs)
  PROVE  SeriesInv(o)
<1>1. Correction \in Nat /\ Correction >= 2 /\ KospiDays = 1 .. LastKospiDay /\ LastKospiDay \in Nat
      /\ Correction <= LastKospiDay
  BY KospiStoreAssumption DEF KospiDays
<1>2. inputs \in [1 .. Correction -> Inputs] /\ \A i \in 1 .. Correction : inputs[i].date = i
  BY <1>1 DEF Input, Inputs, PublishedInputs
<1>3. inputs \in Snapshot /\ Len(inputs) = Correction
  BY <1>1, <1>2, FunctionIsSeq DEF Snapshot
<1>4. Stored(inputs)
  BY <1>1, <1>3, EmptySeq DEF Stored, Absent
<1>5. \A d \in 1 .. Correction :
        /\ SubSeq(inputs, 1, d) \in Snapshot /\ Len(SubSeq(inputs, 1, d)) = d
        /\ SubSeq(inputs, 1, d) # <<>>
        /\ \A i \in 1 .. d : SubSeq(inputs, 1, d)[i] = inputs[i]
  BY <1>3, Parts1 DEF Snapshot
<1>6. \A d \in 1 .. Correction : \A i \in 1 .. d : SubSeq(SubSeq(inputs, 1, d), 1, i) = SubSeq(inputs, 1, i)
  BY <1>3, PartOfPart DEF Snapshot
<1>7. /\ o.registry = Registry(inputs[1]) /\ o.latest = Projection(inputs, HistoryOf(inputs))
      /\ o.sessions = [d \in KospiDays |->
                        IF d <= Correction THEN SubSeq(inputs, 1, d) ELSE Absent]
  BY DEF Published
<1> DEFINE part(d) == SubSeq(inputs, 1, d)
<1>8. /\ \A d \in 1 .. Correction : o.sessions[d] = part(d)
      /\ \A d \in KospiDays : ~(d <= Correction) => o.sessions[d] = Absent
  <2>1. \A d \in KospiDays : o.sessions[d] = IF d <= Correction THEN part(d) ELSE Absent
    BY <1>7
  <2>2. \A d \in 1 .. Correction : d \in KospiDays /\ d <= Correction
    BY <1>1
  <2> HIDE DEF part
  <2> QED
    BY <2>1, <2>2
<1>19. \A d \in 1 .. Correction : part(d) \in Snapshot /\ Len(part(d)) = d /\ Stored(part(d))
  BY <1>5 DEF Stored, Absent
<1>20. \A d \in 1 .. Correction : \A i \in 1 .. d : part(d)[i] = inputs[i] /\ SubSeq(part(d), 1, i) = part(i)
  BY <1>5, <1>6
<1>21. part(Correction) = inputs
  BY <1>3, SubSeqFull DEF Snapshot
<1> HIDE DEF part
<1>9. StoredDays(o) = 1 .. Correction
  <2>1. \A d \in 1 .. Correction : d \in KospiDays /\ d \in StoredDays(o)
    BY <1>1, <1>8, <1>19 DEF StoredDays
  <2>2. \A d \in StoredDays(o) : d \in KospiDays /\ d <= Correction
    BY <1>1, <1>8 DEF StoredDays, Stored
  <2>3. \A d \in StoredDays(o) : d \in 1 .. Correction
    BY <1>1, <2>2
  <2> QED
    BY <2>1, <2>3
<1>10. InitializedOn(o) = 1 /\ Stored(o.registry) /\ o.registry \in KospiDays \X SourceSets \X CodeVersions
  <2>1. 1 \in 1 .. Correction /\ 1 \in KospiDays
    BY <1>1
  <2>2. inputs[1] \in Inputs /\ inputs[1].date = 1
    BY <1>2, <2>1
  <2> QED
    BY <1>7, <2>2 DEF InitializedOn, Registry, Stored, Absent, Inputs
<1>11. Projection(inputs, HistoryOf(inputs)) \in Views
  BY <1>3, <1>4, HistoryTyped DEF Projection, Views, Stored, Absent
<1>12. o \in SeriesRecords
  <2> DEFINE f == [d \in KospiDays |-> IF d <= Correction THEN SubSeq(inputs, 1, d) ELSE Absent]
  <2>1. f \in [KospiDays -> Snapshot]
    <3>1. Absent \in Snapshot
      BY EmptySeq DEF Snapshot, Absent
    <3>2. \A d \in KospiDays : d <= Correction => SubSeq(inputs, 1, d) \in Snapshot
      BY <1>1, <1>19 DEF part
    <3> QED
      BY <3>1, <3>2
  <2>2. o = [registry |-> Registry(inputs[1]), sessions |-> f, latest |-> Projection(inputs, HistoryOf(inputs))]
    BY DEF Published
  <2>3. Registry(inputs[1]) \in KospiDays \X SourceSets \X CodeVersions
    BY <1>7, <1>10
  <2> HIDE DEF f
  <2> QED
    BY <1>11, <2>1, <2>2, <2>3 DEF SeriesRecords
<1>13. ASSUME NEW d \in StoredDays(o)
       PROVE  DayChain(o, d)
  <2>1. d \in 1 .. Correction /\ o.sessions[d] = part(d)
    BY <1>8, <1>9
  <2>2. Len(o.sessions[d]) = d
    BY <1>19, <2>1
  <2>3. ASSUME NEW i \in 1 .. d
        PROVE  o.sessions[d][i].date = i /\ o.sessions[i] = SubSeq(o.sessions[d], 1, i)
    <3>1. i \in 1 .. Correction
      BY <1>1, <2>1
    <3> QED
      BY <1>2, <1>8, <1>20, <2>1, <3>1
  <2>4. d \in Nat /\ 1 <= d /\ Len(o.sessions[d]) = d - 1 + 1 /\ \A i \in 1 .. d : 1 + i - 1 = i
    BY <2>1, <2>2
  <2> QED
    BY <1>10, <2>2, <2>3, <2>4 DEF DayChain
<1>14. o.latest.snapshot = inputs /\ o.latest.history = HistoryOf(inputs)
  BY <1>7 DEF Projection
<1>15. Correction \in StoredDays(o) /\ o.sessions[Correction] = inputs
  BY <1>1, <1>8, <1>9, <1>21
<1>16. DayOf(inputs) = Correction /\ ChainOf(o, Correction)
  BY <1>12, <1>13, <1>15, ChainEnds
<1>17. Projected(o, o.latest)
  BY <1>14, <1>15, <1>16 DEF Projected
<1>18. \A d \in StoredDays(o) : d <= DayOf(o.latest.snapshot) + 1
  BY <1>1, <1>9, <1>14, <1>16
<1> QED
  BY <1>12, <1>13, <1>17, <1>18 DEF SeriesInv

LEMMA KospiInitial ==
  ASSUME KospiInit
  PROVE  KospiInv
<1>1. SeriesInv(original)
  <2>1. CASE original = EmptySeries
    BY <2>1, EmptySeriesInv
  <2>2. CASE original # EmptySeries
    <3>1. PICK source \in SourceSets, code \in CodeVersions :
            original = Published(PublishedInputs(source, code))
      BY <2>2 DEF KospiInit, Published, PublishedInputs
    <3> QED
      BY <3>1, PublishedSeriesInv
  <2> QED
    BY <2>1, <2>2
<1>2. revised = EmptySeries /\ ~Stored(descriptor)
  BY DEF KospiInit, Stored
<1>3. SeriesInv(revised) /\ RevisionInv
  BY <1>2, EmptySeriesInv DEF RevisionInv
<1>4. RunInv /\ kospiRuns \in 0 .. MaxKospiRuns
  BY KospiStoreAssumption DEF KospiInit, RunInv
<1>5. /\ kospiReader = [b \in KospiReaders |-> kospiReader[b]]
      /\ \A b \in KospiReaders : ReaderInv(kospiReader[b])
  BY NoReaderInv DEF KospiInit
<1> QED
  BY <1>1, <1>3, <1>4, <1>5 DEF KospiInv

LEMMA KospiStep ==
  ASSUME KospiInv, [KospiNext]_kospiVars
  PROVE  KospiInv'
<1>1. ASSUME NEW d \in KospiDays, NEW source \in SourceSets, NEW code \in CodeVersions,
             PublishOriginal(Input(d, source, code)) \/ PublishRevised(Input(d, source, code))
      PROVE  KospiInv'
  <2> DEFINE input == Input(d, source, code)
  <2>1. input \in Inputs /\ Series("original") = original /\ Series("revised") = revised
    BY DEF Input, Inputs, Series
  <2> HIDE DEF input
  <2>2. CASE PublishOriginal(input)
    BY <2>1, <2>2, AppendBegins DEF PublishOriginal
  <2>3. CASE PublishRevised(input)
    BY <2>1, <2>3, AppendBegins DEF PublishRevised
  <2> QED
    BY <1>1, <2>2, <2>3 DEF input
<1>2. ASSUME NEW code \in CodeVersions, StartCorrection(code) PROVE KospiInv'
  BY <1>2, StartCorrectionKeeps
<1>3. CASE PutRegistry \/ PutSession \/ PutLatest
  BY <1>3, PutRegistryKeeps, PutSessionKeeps, PutLatestKeeps
<1>4. CASE PutDescriptor \/ PutRevisedRegistry \/ PutRevisedLatest \/ KospiRunFails
  BY <1>4, PutDescriptorKeeps, PutRevisedRegistryKeeps, PutRevisedLatestKeeps, KospiRunFailsKeeps
<1>5. ASSUME NEW d \in KospiDays, PutRevisedDay(d) PROVE KospiInv'
  BY <1>5, PutRevisedDayKeeps
<1>6. ASSUME NEW b \in KospiReaders,
             \/ OpenKospi(b) \/ \E p \in Parts : ReadPart(b, p)
             \/ ShowRevised(b) \/ PartialIsError(b) \/ ShowOriginal(b)
      PROVE  KospiInv'
  <2>1. CASE OpenKospi(b)
    BY <2>1, OpenKospiKeeps
  <2>2. ASSUME NEW p \in Parts, ReadPart(b, p) PROVE KospiInv'
    BY <2>2, ReadPartKeeps
  <2>3. CASE ShowRevised(b)
    BY <2>3, ShowRevisedKeeps
  <2>4. CASE PartialIsError(b)
    BY <2>4, NoReaderInv, ReaderStep DEF PartialIsError
  <2>5. CASE ShowOriginal(b)
    BY <2>5, ShowOriginalKeeps
  <2> QED
    BY <1>6, <2>1, <2>2, <2>3, <2>4, <2>5
<1>7. CASE UNCHANGED kospiVars
  <2>1. UNCHANGED <<original, revised, descriptor, kospiRun, kospiRuns, kospiReader>>
    BY <1>7 DEF kospiVars
  <2>2. StoresKept
    BY <2>1, KeptItself DEF StoresKept
  <2>3. RevisionInv'
    BY <2>1 DEF KospiInv, RevisionInv, Ended, CorrectedSnapshot
  <2>4. RunInv'
    <3>1. Series(kospiRun.series)' = Series(kospiRun.series)
      BY <2>1 DEF Series
    <3> QED
      BY <2>1, <3>1 DEF KospiInv, RunInv, AppendRelies, CorrectionRelies, Ended, Revision
  <2> QED
    BY <2>1, <2>2, <2>3, <2>4, RunStep DEF KospiInv
<1> QED
  BY <1>1, <1>2, <1>3, <1>4, <1>5, <1>6, <1>7 DEF KospiNext

\* The invariant the other theorems rest on: the two series continue session
\* by session, the revision shares the days before the correction with the
\* original series, and every run and browser is still right in what it relies on.
THEOREM KospiInvariant == KospiSpec => []KospiInv
<1>1. KospiInit => KospiInv
  BY KospiInitial
<1>2. KospiInv /\ [KospiNext]_kospiVars => KospiInv'
  BY KospiStep
<1> QED
  BY <1>1, <1>2, PTL DEF KospiSpec

LEMMA SnapshotsTyped ==
  ASSUME NEW s \in Snapshot
  PROVE  Snapshots(s)
  BY ElementOfSeq, LenProperties DEF Snapshot, Snapshots, Inputs

LEMMA SeriesTyped ==
  ASSUME NEW o \in SeriesRecords
  PROVE  SeriesTypeOK(o)
<1>1. \A d \in KospiDays : Snapshots(o.sessions[d])
  BY SeriesParts, SnapshotsTyped
<1>2. Stored(o.registry) => o.registry \in KospiDays \X SourceSets \X CodeVersions
  BY DEF SeriesRecords, Stored
<1>3. ASSUME Stored(o.latest)
      PROVE  Snapshots(o.latest.snapshot) /\ \A i \in DOMAIN o.latest.history : o.latest.history[i] \in KospiDays
  <2>1. o.latest.snapshot \in Snapshot /\ o.latest.history \in Seq(KospiDays)
    BY <1>3, SeriesParts DEF Views
  <2> QED
    BY <2>1, SnapshotsTyped, ElementOfSeq, LenProperties
<1> QED
  BY <1>1, <1>2, <1>3 DEF SeriesTypeOK

\* Registries, snapshots, projections, the descriptor and the states of runs
\* and browsers have their types, whatever dies and whatever is read meanwhile.
THEOREM KospiTypes == KospiSpec => []KospiTypeOK
<1>1. KospiInv => KospiTypeOK
  <2> SUFFICES ASSUME KospiInv PROVE KospiTypeOK
    OBVIOUS
  <2>1. SeriesTypeOK(original) /\ SeriesTypeOK(revised)
    BY SeriesTyped DEF KospiInv, SeriesInv
  <2>2. Stored(descriptor) => Snapshots(descriptor[1]) /\ descriptor[2] \in CodeVersions
    BY SnapshotsTyped DEF KospiInv, RevisionInv
  <2>3. kospiRun.pc \in {"idle", "registry", "session", "latest", "correct"}
    BY DEF KospiInv, RunInv, AppendRuns, CorrectionRuns, NoKospiRun
  <2>4. \A b \in KospiReaders : kospiReader[b].pc \in {"idle", "parts", "shown"}
    BY DEF KospiInv, ReaderInv, NoKospiReader
  <2> QED
    BY <2>1, <2>2, <2>3, <2>4 DEF KospiTypeOK, KospiInv
<1> QED
  BY <1>1, KospiInvariant, PTL

\* persistKospiShadow and initializeKospiShadowRevision: both books are
\* computed once from each session since they were initialized, after any
\* number of interrupted, repeated and late runs with other sources and code,
\* and the revised one differs from the original only from the correction on.
THEOREM KospiReplays == KospiSpec => []KospiSeriesReplay
<1>1. KospiInv => KospiSeriesReplay
  <2> SUFFICES ASSUME KospiInv PROVE KospiSeriesReplay
    OBVIOUS
  <2>1. Replays(original) /\ Replays(revised)
    BY SeriesReplays DEF KospiInv
  <2>2. ASSUME NEW d \in StoredDays(revised), ~(d < Correction)
        PROVE  \E i \in DOMAIN revised.sessions[d] :
                 LET input == revised.sessions[d][i] IN
                 input.date = Correction /\ input.source = CorrectedSources
    BY <2>2 DEF KospiInv, RevisionInv, HasCorrection
  <2>3. ASSUME NEW d \in StoredDays(revised), d < Correction
        PROVE  revised.sessions[d] = original.sessions[d]
    BY <2>3 DEF KospiInv, RevisionInv
  <2> QED
    BY <2>1, <2>2, <2>3 DEF KospiSeriesReplay
<1> QED
  BY <1>1, KospiInvariant, PTL

\* loadKospiShadowFromReader: any number of browsers, whose three reads mix
\* with the writes of any run, show a whole series, and never the original one
\* if the correction had begun before the page was opened.
THEOREM KospiReadersSeeWhole == KospiSpec => []ReaderSeesWholeSeries
<1>1. KospiInv => ReaderSeesWholeSeries
  BY DEF KospiInv, ReaderInv, NoKospiReader, ReaderSeesWholeSeries
<1> QED
  BY <1>1, KospiInvariant, PTL

-----------------------------------------------------------------------------
(* The KOSPI series implement the corrected series.                        *)

LEMMA WholeDay ==
  ASSUME NEW o, SeriesInv(o), NEW d \in StoredDays(o), \A e \in StoredDays(o) : e <= d
  PROVE  /\ WholeSeries(o) = o.sessions[d] /\ WholeSeries(o) \in Snapshot /\ Stored(WholeSeries(o))
         /\ Corrections!Ends(WholeSeries(o)) = d
         /\ Len(WholeSeries(o)) = d - InitializedOn(o) + 1
<1>1. o \in SeriesRecords /\ DayChain(o, d)
  BY DEF SeriesInv
<1>2. NewestDay(o) = d
  <2>1. NewestDay(o) \in StoredDays(o) /\ d <= NewestDay(o)
    BY NewestStored
  <2>2. NewestDay(o) <= d /\ NewestDay(o) \in Nat /\ d \in Nat
    BY <2>1, DaysTyped DEF StoredDays
  <2> QED
    BY <2>1, <2>2
<1>3. WholeSeries(o) = o.sessions[d]
  BY <1>2 DEF WholeSeries
<1>4. o.sessions[d] \in Snapshot /\ Stored(o.sessions[d])
  BY <1>1, SeriesParts DEF StoredDays
<1>5. DayOf(o.sessions[d]) = d /\ Len(o.sessions[d]) = d - InitializedOn(o) + 1
  BY <1>1, ChainEnds DEF DayChain
<1> QED
  BY <1>3, <1>4, <1>5 DEF Corrections!Ends, DayOf, LastInput

LEMMA WholeStays ==
  ASSUME NEW o, NEW p, p.sessions = o.sessions
  PROVE  WholeSeries(p) = WholeSeries(o)
  BY DEF WholeSeries, NewestDay, StoredDays

\* A run that finds its day missing appends to the newest stored day.
LEMMA NextAppends ==
  ASSUME NEW o, SeriesInv(o), NEW input \in Inputs, Ready(o, input), Stored(o.registry),
         ~Stored(o.sessions[input.date])
  PROVE  /\ NextSnapshot(o, input) = Append(WholeSeries(o), input)
         /\ Corrections!Follows(input, WholeSeries(o))
         /\ Stored(o.latest) =>
              Stored(WholeSeries(o)) /\ Corrections!Ends(WholeSeries(o)) = input.date - 1
<1>1. \A e \in StoredDays(o) : e \in Nat /\ e <= input.date /\ e # input.date
  BY DaysTyped DEF Ready, StoredDays
<1>2. input.date \in Nat
  BY DaysTyped DEF Inputs
<1>3. CASE Stored(o.latest)
  <2> DEFINE d == DayOf(o.latest.snapshot)
  <2>1. d \in StoredDays(o) /\ o.sessions[d] = o.latest.snapshot /\ d = input.date - 1
    BY <1>3, ProjectedDay DEF Ready
  <2> HIDE DEF d
  <2>2. \A e \in StoredDays(o) : e <= d
    BY <1>1, <1>2, <2>1
  <2>3. /\ WholeSeries(o) = o.latest.snapshot /\ Stored(WholeSeries(o))
        /\ Corrections!Ends(WholeSeries(o)) = d
    BY <2>1, <2>2, WholeDay
  <2> QED
    BY <1>2, <1>3, <2>1, <2>3 DEF NextSnapshot, Corrections!Follows
<1>4. CASE ~Stored(o.latest)
  <2>1. StoredDays(o) = {}
    <3>1. InitializedOn(o) = input.date
      BY <1>4 DEF Ready
    <3>2. \A e \in StoredDays(o) : input.date <= e
      BY <3>1 DEF SeriesInv, DayChain
    <3> QED
      BY <1>1, <1>2, <3>2
  <2>2. WholeSeries(o) = <<>>
    BY <2>1 DEF WholeSeries
  <2>3. NextSnapshot(o, input) = <<input>>
    BY <1>4 DEF NextSnapshot
  <2>4. Append(<<>>, input) = <<input>>
    OBVIOUS
  <2> QED
    BY <1>4, <2>2, <2>3, <2>4 DEF Corrections!Follows
<1> QED
  BY <1>3, <1>4

\* Both series start on the same day; the original one ends with the correction.
LEMMA WholeOriginal ==
  ASSUME KospiInv, Ended
  PROVE  LET n == InitializedOn(original) IN
         /\ WholeSeries(original) = original.sessions[Correction]
         /\ WholeSeries(original) \in Snapshot /\ Stored(WholeSeries(original))
         /\ Corrections!Ends(WholeSeries(original)) = Correction
         /\ Len(WholeSeries(original)) = Correction - n + 1 /\ n \in Nat /\ n <= Correction
<1>1. SeriesInv(original) /\ Correction \in StoredDays(original)
  BY OriginalAtCorrection DEF KospiInv
<1>2. \A e \in StoredDays(original) : e <= Correction
  BY DEF Ended
<1>3. InitializedOn(original) \in Nat /\ InitializedOn(original) <= Correction
  BY OriginalAtCorrection, DaysTyped DEF DayChain
<1> QED
  BY <1>1, <1>2, <1>3, WholeDay

\* The revised series is as long as the original one when it is published.
LEMMA RevisedCovers ==
  ASSUME KospiInv, Stored(revised.registry), NEW d \in StoredDays(revised), d >= Correction,
         \A e \in StoredDays(revised) : e <= d
  PROVE  /\ WholeSeries(revised) = revised.sessions[d]
         /\ Len(WholeSeries(revised)) >= Len(WholeSeries(original))
<1>1. Ended /\ revised.registry = original.registry /\ SeriesInv(revised)
  BY DEF KospiInv, RevisionInv
<1>2. InitializedOn(revised) = InitializedOn(original)
  BY <1>1 DEF InitializedOn
<1>3. PICK n \in Nat : n = InitializedOn(original)
  BY <1>1, WholeOriginal
<1>4. Len(WholeSeries(original)) = Correction - n + 1
  BY <1>1, <1>3, WholeOriginal
<1>5. WholeSeries(revised) = revised.sessions[d] /\ Len(WholeSeries(revised)) = d - n + 1
  BY <1>1, <1>2, <1>3, WholeDay
<1>6. d \in Nat /\ Correction \in Nat
  BY DaysTyped DEF StoredDays
<1> QED
  BY <1>3, <1>4, <1>5, <1>6

LEMMA SessionTakes ==
  ASSUME KospiInv, PutSession
  PROVE  Corrections!Next
<1> DEFINE o == Series(kospiRun.series)
           s == kospiRun.snapshot
<1>1. PICK input : input = kospiRun.input
  OBVIOUS
<1>2. /\ kospiRun.pc = "session" /\ StoreIn(kospiRun.series, WithSession(o, input, s))
  BY <1>1 DEF PutSession, KospiRunAt, WithSession
<1>3. /\ AppendRelies /\ input \in Inputs
      /\ kospiRun.series \in {"original", "revised"} /\ SeriesInv(o) /\ Ready(o, input)
      /\ s = NextSnapshot(o, input) /\ Stored(o.registry)
  BY <1>1, <1>2, RunAtAppend DEF AppendRelies
<1>4. PICK p : p = WithSession(o, input, NextSnapshot(o, input))
  OBVIOUS
<1>5. StoreIn(kospiRun.series, p)
  BY <1>2, <1>3, <1>4
<1> HIDE DEF o, s
<1>6. /\ SeriesInv(p) /\ p.latest = o.latest /\ Page(p) = Page(o)
      /\ p.sessions[input.date] = NextSnapshot(o, input) /\ Stored(NextSnapshot(o, input))
      /\ StoredDays(p) = StoredDays(o) \cup {input.date}
  BY <1>3, <1>4, SessionPut DEF Page
<1>7. input.date \in StoredDays(p) /\ \A e \in StoredDays(p) : e <= input.date
  <2>1. input.date \in Nat
    BY <1>3, DaysTyped DEF Inputs
  <2> QED
    BY <1>3, <1>6, <2>1 DEF Ready
<1>8. WholeSeries(p) = NextSnapshot(o, input)
  BY <1>6, <1>7, WholeDay
<1>9. /\ kospiRun.series = "original" => o = original /\ original' = p /\ revised' = revised
                                         /\ input.date < Correction
      /\ kospiRun.series = "revised" => o = revised /\ original' = original /\ revised' = p
                                         /\ Stored(revised.latest)
  BY <1>1, <1>3, <1>5 DEF StoreIn, Series, o, AppendRelies
<1>10. CASE Stored(o.sessions[input.date])
  <2>1. input.date \in StoredDays(o) /\ \A e \in StoredDays(o) : e <= input.date
    BY <1>3, <1>10 DEF StoredDays, Inputs, Ready
  <2>2. WholeSeries(o) = o.sessions[input.date]
    BY <1>3, <2>1, WholeDay
  <2>3. WholeSeries(p) = WholeSeries(o)
    BY <1>8, <1>10, <2>2 DEF NextSnapshot
  <2>4. Corrections!Idle
    BY <1>3, <1>6, <1>9, <2>3 DEF Corrections!Idle
  <2> QED
    BY <2>4 DEF Corrections!Next
<1>11. CASE ~Stored(o.sessions[input.date])
  <2>1. /\ WholeSeries(p) = Append(WholeSeries(o), input)
        /\ Corrections!Follows(input, WholeSeries(o))
        /\ Stored(o.latest) =>
             Stored(WholeSeries(o)) /\ Corrections!Ends(WholeSeries(o)) = input.date - 1
    BY <1>3, <1>8, <1>11, NextAppends
  <2>2. input \in KospiInputs
    BY <1>3 DEF Inputs, KospiInputs
  <2>3. CASE kospiRun.series = "original"
    <3>1. Corrections!TakeOriginal(input)
      BY <1>6, <1>9, <2>1, <2>3 DEF Corrections!TakeOriginal
    <3> QED
      BY <2>2, <3>1 DEF Corrections!Next
  <2>4. CASE kospiRun.series = "revised"
    <3>1. Corrections!Ends(WholeSeries(revised)) >= Correction
      <4>1. DayOf(revised.latest.snapshot) = input.date - 1
        BY <1>3, <1>9, <2>4 DEF Ready
      <4>2. DayOf(revised.latest.snapshot) >= Correction
        BY <1>9, <2>4 DEF KospiInv, RevisionInv
      <4> QED
        BY <1>9, <2>1, <2>4, <4>1, <4>2
    <3>2. Corrections!TakeRevised(input)
      BY <1>6, <1>9, <2>1, <2>4, <3>1 DEF Corrections!TakeRevised, Stored, Absent
    <3> QED
      BY <2>2, <3>2 DEF Corrections!Next
  <2> QED
    BY <1>3, <2>3, <2>4
<1> QED
  BY <1>10, <1>11

LEMMA LatestPublishes ==
  ASSUME KospiInv, PutLatest
  PROVE  Corrections!Next
<1> DEFINE o == Series(kospiRun.series)
           s == kospiRun.snapshot
<1>1. PICK input : input = kospiRun.input
  OBVIOUS
<1>2. kospiRun.pc = "latest" /\ StoreIn(kospiRun.series, WithLatest(o, input, s))
  BY <1>1 DEF PutLatest, KospiRunAt, WithLatest
<1>3. /\ AppendRelies /\ input \in Inputs
      /\ kospiRun.series \in {"original", "revised"} /\ SeriesInv(o) /\ Ready(o, input)
      /\ o.sessions[input.date] = s /\ Stored(s) /\ Stored(o.registry)
  BY <1>1, <1>2, RunAtAppend DEF AppendRelies
<1>4. PICK p : p = WithLatest(o, input, s)
  OBVIOUS
<1>5. StoreIn(kospiRun.series, p)
  BY <1>2, <1>4
<1> HIDE DEF o, s
<1>6. SeriesInv(p) /\ p.sessions = o.sessions /\ Stored(p.latest) /\ DayOf(p.latest.snapshot) = input.date
  BY <1>3, <1>4, LatestPut
<1>7. input.date \in StoredDays(o) /\ \A e \in StoredDays(o) : e <= input.date
  BY <1>3 DEF StoredDays, Inputs, Ready
<1>8. WholeSeries(p) = WholeSeries(o) /\ WholeSeries(o) = s
  BY <1>3, <1>6, <1>7, WholeDay, WholeStays
<1>9. Page(p) = s
  <2>1. p.sessions[input.date] = p.latest.snapshot
    BY <1>6, ProjectedDay
  <2> QED
    BY <1>3, <1>6, <2>1 DEF Page
<1>10. CASE kospiRun.series = "original"
  <2>1. o = original /\ original' = p /\ revised' = revised
    BY <1>5, <1>10 DEF StoreIn, Series, o
  <2>2. Corrections!PublishOriginal
    BY <1>8, <1>9, <2>1 DEF Corrections!PublishOriginal
  <2> QED
    BY <2>2 DEF Corrections!Next
<1>11. CASE kospiRun.series = "revised"
  <2>1. /\ o = revised /\ revised' = p /\ original' = original
        /\ Stored(revised.registry) /\ Stored(revised.latest)
    BY <1>3, <1>5, <1>11 DEF StoreIn, Series, o, AppendRelies
  <2>2. input.date >= Correction
    <3>1. DayOf(revised.latest.snapshot) = input.date - 1 /\ DayOf(revised.latest.snapshot) >= Correction
      BY <1>3, <2>1 DEF Ready, KospiInv, RevisionInv
    <3>2. input.date \in Nat /\ Correction \in Nat
      BY <1>3, DaysTyped DEF Inputs
    <3> QED
      BY <3>1, <3>2
  <2>3. Len(WholeSeries(revised)) >= Len(WholeSeries(original))
    BY <1>7, <2>1, <2>2, RevisedCovers
  <2>4. Corrections!PublishRevised
    BY <1>8, <1>9, <2>1, <2>3 DEF Corrections!PublishRevised
  <2> QED
    BY <2>4 DEF Corrections!Next
<1> QED
  BY <1>3, <1>10, <1>11

LEMMA PartGrows ==
  ASSUME NEW S, NEW s \in Seq(S), NEW k \in Nat, k + 1 <= Len(s),
         NEW t, t = IF k = 0 THEN <<>> ELSE SubSeq(s, 1, k)
  PROVE  SubSeq(s, 1, k + 1) = Append(t, s[k + 1])
<1>1. k + 1 \in 1 .. Len(s) /\ s[k + 1] \in S
  BY ElementOfSeq, LenProperties
<1>2. PICK a : a = SubSeq(s, 1, k + 1)
  OBVIOUS
<1>3. a \in Seq(S) /\ Len(a) = k + 1 /\ \A i \in 1 .. k + 1 : a[i] = s[i]
  BY <1>1, <1>2, Parts1
<1>4. t \in Seq(S) /\ Len(t) = k /\ \A i \in 1 .. k : t[i] = s[i]
  <2>1. CASE k = 0
    BY <2>1, EmptySeq
  <2>2. CASE k # 0
    <3>1. k \in 1 .. Len(s)
      BY <1>1, <2>2, LenProperties
    <3> QED
      BY <2>2, <3>1, Parts1
  <2> QED
    BY <2>1, <2>2
<1>5. PICK b : b = Append(t, s[k + 1])
  OBVIOUS
<1>6. b \in Seq(S) /\ Len(b) = k + 1 /\ b[k + 1] = s[k + 1] /\ \A i \in 1 .. k : b[i] = t[i]
  BY <1>1, <1>4, <1>5, AppendProperties
<1>7. \A i \in 1 .. k + 1 : a[i] = b[i]
  BY <1>3, <1>4, <1>6
<1>8. a = b
  BY <1>3, <1>6, <1>7, SeqEqual
<1> QED
  BY <1>2, <1>5, <1>8

LEMMA RevisedDayCorrects ==
  ASSUME KospiInv, NEW d \in KospiDays, PutRevisedDay(d)
  PROVE  Corrections!Next
<1>1. PICK code, n : code = kospiRun.code /\ n = InitializedOn(original)
  OBVIOUS
<1>2. /\ kospiRun.pc = "correct" /\ Stored(descriptor) /\ Stored(revised.registry)
      /\ d \in n .. Correction /\ ~Stored(revised.sessions[d])
      /\ \A e \in MissingDays : d <= e
      /\ revised' = [revised EXCEPT !.sessions[d] = InheritedOrCorrected(d, code)]
      /\ original' = original
  BY <1>1 DEF PutRevisedDay, KospiRunAt, MissingDays
<1>3. Ended /\ code \in CodeVersions /\ revised.registry = original.registry
  BY <1>1, <1>2, RunAtCorrection DEF CorrectionRelies, KospiInv, RevisionInv
<1>4. PICK whole : whole = WholeSeries(original)
  OBVIOUS
<1>5. /\ whole = original.sessions[Correction] /\ whole \in Snapshot /\ whole # <<>>
      /\ Corrections!Ends(whole) = Correction
      /\ Len(whole) = Correction - n + 1 /\ n \in Nat /\ n <= Correction
  BY <1>1, <1>3, <1>4, WholeOriginal DEF Stored, Absent
<1>6. d \in Nat /\ Correction \in Nat /\ n <= d /\ d <= Correction /\ n \in KospiDays
  BY <1>1, <1>2, <1>3, DaysTyped, OriginalAtCorrection
<1>7. /\ SeriesInv(revised) /\ revised \in SeriesRecords /\ SeriesInv(revised)'
      /\ InitializedOn(revised) = n
  BY <1>1, <1>3, PutRevisedDayKeeps DEF KospiInv, SeriesInv, InitializedOn
<1>8. \A e \in StoredDays(revised) : e \in Nat /\ e < d
  <2> SUFFICES ASSUME NEW e \in StoredDays(revised), ~(e < d)
               PROVE  FALSE
    BY DaysTyped DEF StoredDays
  <2>1. \A f \in n .. e : f \in StoredDays(revised)
    BY <1>7, ChainEnds DEF SeriesInv
  <2>2. e \in Nat
    BY DaysTyped DEF StoredDays
  <2>3. d \in n .. e
    BY <1>5, <1>6, <2>2
  <2> QED
    BY <1>2, <2>1, <2>3 DEF StoredDays
<1>9. \A i \in 1 .. Correction - n + 1 : original.sessions[n + i - 1] = SubSeq(whole, 1, i)
  <2>1. DayChain(original, Correction)
    BY <1>3, OriginalAtCorrection
  <2> QED
    BY <1>1, <1>5, <2>1 DEF DayChain
<1>10. PICK k \in Nat : k = d - n
  BY <1>5, <1>6
<1>11. PICK t : t = WholeSeries(revised)
  OBVIOUS
<1>12. /\ t = IF k = 0 THEN <<>> ELSE SubSeq(whole, 1, k)
       /\ Len(t) = k
       /\ k # 0 => t = original.sessions[d - 1]
  <2>1. CASE k = 0
    <3>1. \A e \in StoredDays(revised) : n <= e
      BY <1>7 DEF SeriesInv, DayChain
    <3>2. StoredDays(revised) = {}
      BY <1>5, <1>6, <1>8, <1>10, <2>1, <3>1
    <3>3. t = <<>>
      BY <1>11, <3>2 DEF WholeSeries
    <3> QED
      BY <2>1, <3>3, EmptySeq
  <2>2. CASE k # 0
    <3>1. d - 1 \in n .. Correction /\ d - 1 \in Nat /\ d - 1 < Correction /\ ~(d <= d - 1)
      BY <1>5, <1>6, <1>10, <2>2
    <3>2. d - 1 \in KospiDays
      BY <1>6, <3>1, KospiStoreAssumption DEF KospiDays
    <3>3. d - 1 \in StoredDays(revised)
      BY <1>1, <1>2, <3>1, <3>2 DEF MissingDays, StoredDays
    <3>4. \A e \in StoredDays(revised) : e <= d - 1
      BY <1>6, <1>8
    <3>5. t = revised.sessions[d - 1] /\ Len(t) = (d - 1) - n + 1
      BY <1>7, <1>11, <3>3, <3>4, WholeDay
    <3>6. revised.sessions[d - 1] = original.sessions[d - 1]
      BY <3>1, <3>3 DEF KospiInv, RevisionInv
    <3>7. k \in 1 .. Correction - n + 1 /\ n + k - 1 = d - 1 /\ (d - 1) - n + 1 = k
      BY <1>5, <1>6, <1>10, <2>2
    <3>8. original.sessions[d - 1] = SubSeq(whole, 1, k)
      BY <1>9, <3>7
    <3> QED
      BY <2>2, <3>5, <3>6, <3>7, <3>8
  <2> QED
    BY <2>1, <2>2
<1>13. PICK s : s = InheritedOrCorrected(d, code)
  OBVIOUS
<1>15. /\ revised'.sessions[d] = s /\ revised'.latest = revised.latest
       /\ \A e \in KospiDays \ {d} : revised'.sessions[e] = revised.sessions[e]
  <2>1. revised.sessions \in [KospiDays -> Snapshot]
    BY <1>7, SeriesParts
  <2> QED
    BY <1>2, <1>7, <1>13, <2>1 DEF SeriesRecords
<1>16. (d # Correction => s = Append(t, whole[k + 1]))
       /\ (d = Correction => s = Append(t, Input(Correction, CorrectedSources, code)))
  <2>1. CASE d # Correction
    <3>1. k + 1 \in 1 .. Correction - n + 1 /\ n + (k + 1) - 1 = d /\ k + 1 <= Len(whole)
      BY <1>5, <1>6, <1>10
    <3>2. s = SubSeq(whole, 1, k + 1)
      BY <1>9, <1>13, <2>1, <3>1 DEF InheritedOrCorrected
    <3> QED
      BY <1>5, <1>12, <2>1, <3>1, <3>2, PartGrows DEF Snapshot
  <2>2. CASE d = Correction
    <3>1. s = Append(original.sessions[Correction - 1], Input(Correction, CorrectedSources, code))
      BY <1>13, <2>2 DEF InheritedOrCorrected, CorrectedSnapshot
    <3>2. t = original.sessions[Correction - 1]
      <4>1. CASE k # 0
        BY <1>12, <2>2, <4>1
      <4>2. CASE k = 0
        <5>1. \A e \in StoredDays(original) : n <= e
          BY <1>1 DEF KospiInv, SeriesInv, DayChain
        <5>2. ~(n <= Correction - 1)
          BY <1>5, <1>6, <1>10, <2>2, <4>2
        <5>3. Correction - 1 \notin StoredDays(original) /\ Correction - 1 \in KospiDays
          BY <5>1, <5>2, DaysTyped
        <5> QED
          BY <1>12, <4>2, <5>3 DEF StoredDays, Stored, Absent
      <4> QED
        BY <4>1, <4>2
    <3> QED
      BY <2>2, <3>1, <3>2
  <2> QED
    BY <2>1, <2>2
<1>17. Stored(s)
  <2>1. t \in Snapshot
    <3>1. CASE k = 0
      BY <1>12, <3>1, EmptySeq DEF Snapshot
    <3>2. CASE k # 0
      <4>1. k \in 1 .. Len(whole)
        BY <1>5, <1>6, <1>10, <3>2
      <4> QED
        BY <1>5, <1>12, <3>2, <4>1, Parts1 DEF Snapshot
    <3> QED
      BY <3>1, <3>2
  <2>2. \A x \in Inputs : Append(t, x) # <<>>
    BY <2>1, AppendProperties DEF Snapshot
  <2>3. Input(Correction, CorrectedSources, code) \in Inputs
    BY <1>3, DaysTyped, KospiStoreAssumption DEF Input, Inputs
  <2>4. whole[k + 1] \in Inputs
    <3>1. k + 1 \in 1 .. Len(whole)
      BY <1>5, <1>6, <1>10
    <3> QED
      BY <1>5, <3>1, ElementOfSeq DEF Snapshot
  <2> QED
    BY <1>16, <2>2, <2>3, <2>4 DEF Stored, Absent
<1>18. WholeSeries(revised') = s
  <2>1. d \in StoredDays(revised')
    BY <1>15, <1>17 DEF StoredDays
  <2>2. \A e \in StoredDays(revised') : e <= d
    <3>1. \A e \in StoredDays(revised') : e = d \/ e \in StoredDays(revised)
      BY <1>15 DEF StoredDays
    <3> QED
      BY <1>6, <1>8, <3>1
  <2>3. SeriesInv(revised')
    BY <1>7
  <2> QED
    BY <1>15, <2>1, <2>2, <2>3, WholeDay
<1>19. UNCHANGED <<WholeSeries(original), Page(original), Page(revised)>>
  BY <1>2, <1>15 DEF Page
<1>20. CASE d # Correction
  <2>1. Len(t) + 1 < Len(whole)
    BY <1>5, <1>6, <1>10, <1>12, <1>20
  <2>2. WholeSeries(revised)' = Append(t, whole[Len(t) + 1])
    BY <1>12, <1>16, <1>18, <1>20
  <2>3. Corrections!Inherit
    BY <1>4, <1>5, <1>11, <1>19, <2>1, <2>2 DEF Corrections!Inherit
  <2> QED
    BY <2>3 DEF Corrections!Next
<1>21. CASE d = Correction
  <2>1. PICK input : input = Input(Correction, CorrectedSources, code)
    OBVIOUS
  <2>2. input \in KospiInputs /\ input.date = Correction /\ input.source = CorrectedSources
    BY <1>3, <2>1, DaysTyped, KospiStoreAssumption DEF Input, KospiInputs
  <2>3. Len(t) + 1 = Len(whole)
    BY <1>5, <1>6, <1>10, <1>12, <1>21
  <2>4. WholeSeries(revised)' = Append(t, input)
    BY <1>16, <1>18, <1>21, <2>1
  <2>5. Corrections!Correct(input)
    BY <1>4, <1>5, <1>11, <1>19, <2>2, <2>3, <2>4 DEF Corrections!Correct
  <2> QED
    BY <2>2, <2>5 DEF Corrections!Next
<1> QED
  BY <1>20, <1>21

LEMMA RevisedLatestPublishes ==
  ASSUME KospiInv, PutRevisedLatest
  PROVE  Corrections!Next
<1>1. PICK s : s = CorrectedSnapshot(kospiRun.code)
  OBVIOUS
<1>2. /\ kospiRun.pc = "correct" /\ Stored(descriptor) /\ Stored(revised.registry)
      /\ MissingDays = {} /\ original' = original
      /\ revised' = [revised EXCEPT !.latest = Projection(s, HistoryOf(s))]
  BY <1>1 DEF PutRevisedLatest, KospiRunAt
<1>3. Ended /\ ~Stored(revised.latest) /\ descriptor = Revision(kospiRun.code)
  BY <1>2, RunAtCorrection DEF CorrectionRelies
<1>4. Correction \in StoredDays(revised)
  <2>1. InitializedOn(original) <= Correction /\ InitializedOn(original) \in Nat /\ Correction \in Nat
    BY <1>3, OriginalAtCorrection, DaysTyped DEF DayChain
  <2> QED
    BY <1>2, <2>1, DaysTyped DEF MissingDays, StoredDays
<1>5. revised.sessions[Correction] = s /\ \A e \in StoredDays(revised) : e <= Correction
  BY <1>1, <1>3, <1>4 DEF KospiInv, RevisionInv, Revision
<1>6. WholeSeries(revised) = s /\ Len(WholeSeries(revised)) >= Len(WholeSeries(original))
  BY <1>2, <1>4, <1>5, RevisedCovers, DaysTyped
<1>7. revised \in SeriesRecords
  BY DEF KospiInv, SeriesInv
<1>8. revised'.sessions = revised.sessions /\ revised'.latest = Projection(s, HistoryOf(s))
  BY <1>2, <1>7 DEF SeriesRecords
<1>9. WholeSeries(revised') = WholeSeries(revised)
  BY <1>8, WholeStays
<1>10. Page(revised') = s
  BY <1>8 DEF Page, Projection, Stored, Absent
<1>11. Corrections!PublishRevised
  BY <1>2, <1>6, <1>9, <1>10 DEF Corrections!PublishRevised
<1> QED
  BY <1>11 DEF Corrections!Next

\* Registries and descriptors are not shown.
LEMMA RegistryIdles ==
  ASSUME KospiInv, PutRegistry \/ PutRevisedRegistry
  PROVE  Corrections!Next
<1>1. original \in SeriesRecords /\ revised \in SeriesRecords
  BY DEF KospiInv, SeriesInv
<1>2. UNCHANGED <<original.sessions, original.latest, revised.sessions, revised.latest>>
  <2>1. CASE PutRegistry
    <3>1. kospiRun.series \in {"original", "revised"}
      BY <2>1, RunAtAppend DEF PutRegistry, KospiRunAt
    <3> QED
      BY <1>1, <2>1, <3>1 DEF PutRegistry, StoreIn, Series, SeriesRecords
  <2>2. CASE PutRevisedRegistry
    BY <1>1, <2>2 DEF PutRevisedRegistry, SeriesRecords
  <2> QED
    BY <2>1, <2>2
<1>3. WholeSeries(original') = WholeSeries(original) /\ WholeSeries(revised') = WholeSeries(revised)
  BY <1>2, WholeStays
<1>4. Corrections!Idle
  BY <1>2, <1>3 DEF Corrections!Idle, Page
<1> QED
  BY <1>4 DEF Corrections!Next

LEMMA KospiStarts ==
  ASSUME KospiInit
  PROVE  Corrections!Init
<1>1. revised = EmptySeries /\ KospiInv
  BY KospiInitial DEF KospiInit
<1>2. \A o : o = EmptySeries => WholeSeries(o) = <<>> /\ Page(o) = <<>>
  BY EmptySeriesInv DEF WholeSeries, Page
<1>3. CASE original = EmptySeries
  BY <1>1, <1>2, <1>3 DEF Corrections!Init
<1>4. CASE original # EmptySeries
  <2>1. PICK source \in SourceSets, code \in CodeVersions :
          original = Published(PublishedInputs(source, code))
    BY <1>4 DEF KospiInit, Published, PublishedInputs
  <2>2. PICK inputs : inputs = PublishedInputs(source, code)
    OBVIOUS
  <2>3. /\ original.latest = Projection(inputs, HistoryOf(inputs))
        /\ \A d \in KospiDays : ~(d <= Correction) => original.sessions[d] = Absent
    BY <2>1, <2>2 DEF Published
  <2>4. Page(original) = inputs /\ Stored(original.latest) /\ original.latest.snapshot = inputs
    BY <2>3 DEF Page, Projection, Stored, Absent
  <2>5. /\ Correction \in Nat /\ 1 \in 1 .. Correction
        /\ inputs \in [1 .. Correction -> Inputs] /\ \A i \in 1 .. Correction : inputs[i].date = i
    BY <2>2, KospiStoreAssumption DEF KospiDays, Input, Inputs, PublishedInputs
  <2>6. Len(inputs) = Correction /\ DOMAIN inputs = 1 .. Correction
    BY <2>5, FunctionIsSeq
  <2>7. DayOf(inputs) = Correction
    BY <2>5, <2>6 DEF DayOf, LastInput
  <2>8. /\ Correction \in StoredDays(original) /\ original.sessions[Correction] = inputs
        /\ \A e \in StoredDays(original) : e <= Correction
    <3>1. Correction \in StoredDays(original) /\ original.sessions[Correction] = inputs
      BY <1>1, <2>4, <2>7, ProjectedDay DEF KospiInv
    <3> QED
      BY <2>3, <3>1 DEF StoredDays, Stored
  <2>9. /\ WholeSeries(original) = inputs /\ inputs # <<>> /\ Corrections!Ends(inputs) = Correction
    BY <1>1, <2>8, WholeDay DEF KospiInv, Stored, Absent
  <2>10. Corrections!IsRun(inputs)
    <3>1. \A i \in 1 .. Correction : inputs[i] \in KospiInputs /\ inputs[i].date = inputs[1].date + i - 1
      BY <2>5 DEF Inputs, KospiInputs
    <3> QED
      BY <2>6, <3>1 DEF Corrections!IsRun
  <2> QED
    BY <1>1, <1>2, <2>4, <2>9, <2>10 DEF Corrections!Init
<1> QED
  BY <1>3, <1>4

LEMMA KospiImplements ==
  ASSUME KospiInv, [KospiNext]_kospiVars
  PROVE  Corrections!Next
<1>1. CASE UNCHANGED <<original, revised>>
  BY <1>1 DEF Corrections!Next, Corrections!Idle
<1>2. CASE PutSession \/ PutLatest \/ PutRevisedLatest
  BY <1>2, SessionTakes, LatestPublishes, RevisedLatestPublishes
<1>3. CASE PutRegistry \/ PutRevisedRegistry
  BY <1>3, RegistryIdles
<1>4. ASSUME NEW d \in KospiDays, PutRevisedDay(d) PROVE Corrections!Next
  BY <1>4, RevisedDayCorrects
<1>5. CASE ~(\/ PutSession \/ PutLatest \/ PutRevisedLatest \/ PutRegistry \/ PutRevisedRegistry
            \/ \E d \in KospiDays : PutRevisedDay(d))
  <2>1. UNCHANGED <<original, revised>>
    BY <1>5 DEF KospiNext, PublishOriginal, PublishRevised, BeginAppend, StartCorrection, PutDescriptor,
         KospiRunFails, OpenKospi, ReadPart, ShowRevised, PartialIsError, ShowOriginal, KospiStays, kospiVars
  <2> QED
    BY <1>1, <2>1
<1> QED
  BY <1>2, <1>3, <1>4, <1>5

\* Runs that put their objects one by one, die after any of them and come back
\* with other sources and code, append each session once and publish all of it,
\* and start the revised series with the days before the correction and the
\* approved sources: they implement the corrected series, for any number of
\* sessions, source sets, code versions, browsers and runs.
THEOREM KospiImplementsCorrectedSeries == KospiSpec => ImplementsCorrectedSeries
<1>1. KospiInit => Corrections!Init
  BY KospiStarts
<1>2. KospiInv /\ [KospiNext]_kospiVars
        => [Corrections!Next]_<<WholeSeries(original), WholeSeries(revised), Page(original), Page(revised)>>
  BY KospiImplements
<1> QED
  BY <1>1, <1>2, KospiInvariant, PTL DEF KospiSpec, ImplementsCorrectedSeries, Corrections!Spec

-----------------------------------------------------------------------------
(* The US screening: the inductive invariant.                              *)

UsResultSeqs == Seq(UsSources)
MaybeHashes == [UsDays -> {Blank} \cup Hashes]

\* A result went through each session since the last gap once, as recorded.
Continued(r) ==
  LET d == OwnSource(r).date IN
  /\ r \in UsResultSeqs /\ r # Blank
  /\ \A i \in 1 .. Len(r) - 1 : r[i].date = d - (Len(r) - i) /\ Recorded(SubSeq(r, 1, i))
  /\ d > Len(r) => usHistory[d - Len(r)] = Blank

\* A stored result comes from the input of its day, and a recorded day has one.
RecordsInv ==
  /\ usManifest \in MaybeHashes /\ usHistory \in MaybeHashes /\ usResult \in [UsDays -> UsResultSeqs]
  /\ \A d \in UsDays : usResult[d] # Blank =>
       /\ Continued(usResult[d]) /\ usManifest[d] # Blank
       /\ OwnSource(usResult[d]) = Source(d, usManifest[d])
  /\ \A d \in RecordedDays : usResult[d] # Blank /\ usHistory[d] = usManifest[d]

\* No day after d has been begun.
NothingAfter(d) == \A e \in UsDays : usResult[e] # Blank => e <= d

IngestInv ==
  IF ingest = Blank THEN \A d \in UsDays : usResult[d] = Blank
  ELSE ingest \in UsSources /\ NothingAfter(ingest.date)

PageInv(page) == page \in UsResultSeqs /\ (page # Blank => Recorded(page))
PagesInv ==
  /\ PageInv(usLatest) /\ PageInv(usView)
  /\ bundles \subseteq UsCorrections /\ (pointer # Blank => pointer \in bundles)

ScreeningRuns ==
  [pc : {"manifest", "result", "history", "latest", "view"}, source : UsSources, result : UsResultSeqs]
RevisionRuns ==
  [pc : {"bundle", "recheck", "pointer"}, source : UsSources, revision : Revisions,
   prior : {Blank} \cup UsCorrections]

ScreeningRelies ==
  LET r == usRun.result
      d == usRun.source.date IN
  /\ r # Blank /\ OwnSource(r) = usRun.source /\ NothingAfter(d)
  /\ ingest # Blank /\ d <= ingest.date
  /\ usRun.pc \in {"manifest", "result"} => Continued(r) /\ usHistory[d] = Blank
  /\ usRun.pc = "result" => usManifest[d] = usRun.source.hash
  /\ usRun.pc = "history" => usResult[d] = r
  /\ usRun.pc \in {"latest", "view"} => Recorded(r)

UsRunInv ==
  \/ usRun = NoUsRun
  \/ usRun \in ScreeningRuns /\ ScreeningRelies
  \/ /\ usRun \in RevisionRuns
     /\ usRun.pc # "bundle" => RevisionPointer(usRun.source, usRun.revision) \in bundles

UsReaderInv(l) ==
  \/ l = NoUsReader
  \/ /\ l.pc \in {"pointer", "bundle", "shown"}
     /\ l.canonical \in UsResultSeqs /\ l.canonical # Blank /\ Recorded(l.canonical)
     /\ l.pc = "bundle" => Corrects(l.correction, l.canonical)
     /\ l.pc = "shown" /\ l.correction # Blank => Corrects(l.correction, l.canonical)

UsInv ==
  /\ RecordsInv /\ IngestInv /\ PagesInv /\ UsRunInv
  /\ usRuns \in 0 .. MaxUsRuns
  /\ usReader = [b \in UsReaders |-> usReader[b]]
  /\ \A b \in UsReaders : UsReaderInv(usReader[b])

\* Nothing that is stored of a day changes.
RecordsKept ==
  \A d \in UsDays :
    /\ usResult[d] # Blank => usResult'[d] = usResult[d]
    /\ usHistory[d] # Blank => usHistory'[d] = usHistory[d]

LEMMA UsDaysTyped == UsDays \subseteq Nat /\ \A d \in UsDays : d >= 1
  BY UsScreeningAssumption DEF UsDays

LEMMA ResultTyped ==
  ASSUME NEW r \in UsResultSeqs, r # Blank
  PROVE  /\ Len(r) \in Nat /\ Len(r) >= 1 /\ \A i \in 1 .. Len(r) : r[i] \in UsSources
         /\ OwnSource(r) \in UsSources /\ OwnSource(r).date \in UsDays
         /\ OwnSource(r).hash \in Hashes /\ OwnSource(r).hash # Blank
<1>1. Len(r) \in Nat /\ Len(r) >= 1
  BY EmptySeq, LenProperties DEF UsResultSeqs, Blank
<1>2. \A i \in 1 .. Len(r) : r[i] \in UsSources
  BY ElementOfSeq DEF UsResultSeqs
<1> QED
  BY <1>1, <1>2, UsScreeningAssumption DEF OwnSource, UsSources

LEMMA RecordedStays ==
  ASSUME NEW page \in UsResultSeqs, page # Blank, RecordsKept, Recorded(page)
  PROVE  Recorded(page)'
<1>1. OwnSource(page).date \in UsDays /\ OwnSource(page).hash # Blank
  BY ResultTyped
<1> QED
  BY <1>1 DEF Recorded, RecordsKept

\* The parts of a result are results.
LEMMA ResultParts ==
  ASSUME NEW r \in UsResultSeqs, NEW i \in 1 .. Len(r) - 1
  PROVE  SubSeq(r, 1, i) \in UsResultSeqs /\ SubSeq(r, 1, i) # Blank
<1>1. i \in 1 .. Len(r)
  BY LenProperties DEF UsResultSeqs
<1> QED
  BY <1>1, Parts1 DEF UsResultSeqs, Blank

\* A result stays one when days are recorded that are not before its own.
LEMMA ContinuedStays ==
  ASSUME NEW r, Continued(r), RecordsKept,
         \A d \in UsDays : usHistory'[d] # usHistory[d] => OwnSource(r).date <= d
  PROVE  Continued(r)'
<1> DEFINE d == OwnSource(r).date
<1>1. r \in UsResultSeqs /\ r # Blank
  BY DEF Continued
<1>2. Len(r) \in Nat /\ Len(r) >= 1 /\ d \in UsDays /\ d \in Nat
  BY <1>1, ResultTyped, UsDaysTyped
<1>3. \A i \in 1 .. Len(r) - 1 : r[i].date = d - (Len(r) - i) /\ Recorded(SubSeq(r, 1, i))'
  BY <1>1, ResultParts, RecordedStays DEF Continued
<1>4. d > Len(r) => usHistory'[d - Len(r)] = Blank
  <2> SUFFICES ASSUME d > Len(r) PROVE usHistory'[d - Len(r)] = Blank
    OBVIOUS
  <2>1. d - Len(r) \in UsDays /\ ~(d <= d - Len(r))
    BY <1>2, UsScreeningAssumption DEF UsDays
  <2>2. usHistory[d - Len(r)] = Blank
    BY DEF Continued
  <2> QED
    BY <2>1, <2>2
<1> HIDE DEF d
<1> QED
  BY <1>1, <1>3, <1>4 DEF Continued, d

LEMMA LastRecordedDay ==
  ASSUME RecordedDays # {}
  PROVE  LastRecorded \in RecordedDays /\ \A e \in RecordedDays : e <= LastRecorded
<1>1. RecordedDays \in SUBSET (0 .. LastUsDay) /\ LastUsDay \in Nat
  BY UsScreeningAssumption DEF RecordedDays, UsDays
<1>2. \E m \in RecordedDays : \A e \in RecordedDays : e <= m
  BY <1>1, GreatestUpTo
<1> QED
  BY <1>2 DEF LastRecorded

\* What a step that changes no record leaves to be shown.
LEMMA RecordsUntouched ==
  ASSUME UsInv, UNCHANGED usRecords
  PROVE  /\ RecordsInv' /\ RecordsKept
         /\ \A r : Recorded(r) => Recorded(r)'
         /\ \A r : Continued(r) => Continued(r)'
         /\ \A d : NothingAfter(d) => NothingAfter(d)'
  BY DEF UsInv, usRecords, RecordsInv, RecordsKept, Recorded, Continued, NothingAfter, RecordedDays

LEMMA PagesStay ==
  ASSUME UsInv, RecordsKept, UNCHANGED usPages
  PROVE  PagesInv'
<1>1. UNCHANGED <<usLatest, usView, bundles, pointer>>
  BY DEF usPages
<1> QED
  BY <1>1, RecordedStays DEF UsInv, PagesInv, PageInv

LEMMA UsReadersStay ==
  ASSUME UsInv, RecordsKept, usReader' = usReader
  PROVE  /\ usReader' = [b \in UsReaders |-> usReader'[b]]
         /\ \A b \in UsReaders : UsReaderInv(usReader[b])'
<1>1. ASSUME NEW b \in UsReaders
      PROVE  UsReaderInv(usReader[b])'
  <2>1. UsReaderInv(usReader[b])
    BY DEF UsInv
  <2>2. CASE usReader[b] = NoUsReader
    BY <2>2 DEF UsReaderInv
  <2>3. CASE usReader[b] # NoUsReader
    <3>1. usReader[b].canonical \in UsResultSeqs /\ usReader[b].canonical # Blank /\ Recorded(usReader[b].canonical)
      BY <2>1, <2>3 DEF UsReaderInv
    <3>2. \A page \in UsResultSeqs : page # Blank /\ Recorded(page) => Recorded(page)'
      BY RecordedStays
    <3>3. Recorded(usReader[b].canonical)'
      BY <3>1, <3>2 DEF Recorded
    <3> QED
      BY <2>1, <2>3, <3>1, <3>3 DEF UsReaderInv
  <2> QED
    BY <2>2, <2>3
<1> QED
  BY <1>1 DEF UsInv

\* The registered session only moves on.
IngestMoves == ingest # Blank => ingest' \in UsSources /\ ingest' # Blank /\ ingest.date <= ingest'.date

LEMMA UsRunStays ==
  ASSUME UsInv, UNCHANGED <<usRecords, usRun, bundles>>, IngestMoves
  PROVE  UsRunInv'
<1>1. CASE usRun \in ScreeningRuns /\ ScreeningRelies
  <2>1. usRun.source.date \in Nat /\ ingest.date \in Nat /\ ingest'.date \in Nat
    BY <1>1, UsDaysTyped DEF ScreeningRuns, ScreeningRelies, IngestMoves, UsSources, UsInv, IngestInv
  <2>2. ingest' # Blank /\ usRun.source.date <= ingest'.date
    BY <1>1, <2>1 DEF ScreeningRelies, IngestMoves
  <2> QED
    BY <1>1, <2>2 DEF usRecords, UsRunInv, ScreeningRelies, Continued, Recorded, NothingAfter
<1>2. CASE ~(usRun \in ScreeningRuns /\ ScreeningRelies)
  BY <1>2 DEF UsInv, UsRunInv
<1> QED
  BY <1>1, <1>2

LEMMA CollectKeeps ==
  ASSUME UsInv, NEW d \in UsDays, NEW h \in Hashes, Collect(d, h)
  PROVE  UsInv'
<1>1. /\ ingest # Blank => ingest.date < d
      /\ ingest' = Source(d, h) /\ UNCHANGED <<usRecords, usPages, usRun, usRuns, usReader>>
  BY DEF Collect
<1>6. ingest' \in UsSources /\ ingest'.date = d /\ ingest' # Blank
  BY <1>1 DEF Source, UsSources, Blank
<1>7. IngestMoves
  BY <1>1, <1>6, UsDaysTyped DEF IngestMoves, UsInv, IngestInv, UsSources
<1>2. RecordsInv' /\ RecordsKept /\ UsRunInv'
  BY <1>1, <1>7, RecordsUntouched, UsRunStays DEF usPages
<1>3. PagesInv'
  BY <1>1, <1>2, PagesStay
<1>4. /\ usReader' = [b \in UsReaders |-> usReader'[b]]
      /\ \A b \in UsReaders : UsReaderInv(usReader[b])'
  BY <1>1, <1>2, UsReadersStay
<1>5. IngestInv'
  <2>1. usResult' = usResult /\ ingest' \in UsSources /\ ingest'.date = d /\ ingest' # Blank
    BY <1>1, <1>6 DEF usRecords
  <2>2. \A e \in UsDays : usResult[e] # Blank => e <= d
    <3>1. CASE ingest = Blank
      BY <3>1 DEF UsInv, IngestInv
    <3>2. CASE ingest # Blank
      <4>1. NothingAfter(ingest.date) /\ ingest.date \in Nat /\ d \in Nat /\ ingest.date < d
        BY <1>1, <3>2, UsDaysTyped DEF UsInv, IngestInv, UsSources
      <4> QED
        BY <4>1, UsDaysTyped DEF NothingAfter
    <3> QED
      BY <3>1, <3>2
  <2> QED
    BY <2>1, <2>2 DEF IngestInv, NothingAfter
<1> QED
  BY <1>1, <1>2, <1>3, <1>4, <1>5 DEF UsInv

LEMMA IngestStays ==
  ASSUME UsInv, UNCHANGED <<usRecords, ingest>>
  PROVE  IngestInv'
  BY DEF UsInv, IngestInv, NothingAfter, usRecords

\* A run that computes a result of a new day continues what is recorded.
LEMMA AnalysisContinues ==
  ASSUME UsInv, NEW source \in UsSources, NothingAfter(source.date),
         usHistory[source.date] = Blank
  PROVE  LET r == Analysis(source) IN Continued(r) /\ OwnSource(r) = source
<1> DEFINE d == source.date
           r == Analysis(source)
<1>1. d \in UsDays /\ d \in Nat /\ d >= 1
  BY UsDaysTyped DEF UsSources
<1>2. CASE ContinuesDay(d)
  <2> DEFINE v == usResult[LastRecorded]
  <2>1. LastRecorded \in RecordedDays /\ LastRecorded = d - 1 /\ r = Append(v, source)
    BY <1>2, LastRecordedDay DEF ContinuesDay, Analysis
  <2>2. /\ LastRecorded \in UsDays /\ v # Blank /\ Continued(v)
        /\ OwnSource(v) = Source(LastRecorded, usHistory[LastRecorded])
        /\ v \in UsResultSeqs
    BY <2>1 DEF UsInv, RecordsInv, RecordedDays
  <2>3. OwnSource(v).date = d - 1 /\ OwnSource(v).hash = usHistory[LastRecorded] /\ Recorded(v)
    BY <2>1, <2>2 DEF Source, Recorded
  <2>4. /\ r \in UsResultSeqs /\ Len(r) = Len(v) + 1 /\ r[Len(v) + 1] = source
        /\ \A i \in 1 .. Len(v) : r[i] = v[i] /\ SubSeq(r, 1, i) = SubSeq(v, 1, i)
    BY <2>1, <2>2, AppendProperties, PartOfAppend DEF UsResultSeqs
  <2>5. Len(v) \in Nat /\ Len(v) >= 1
    BY <2>2, ResultTyped
  <2>6. \A i \in 1 .. Len(v) - 1 : v[i].date = (d - 1) - (Len(v) - i) /\ Recorded(SubSeq(v, 1, i))
    BY <2>2, <2>3 DEF Continued
  <2>7. v[Len(v)].date = d - 1 /\ SubSeq(v, 1, Len(v)) = v
    BY <2>2, <2>3, SubSeqFull DEF OwnSource, UsResultSeqs
  <2>8. (d - 1) > Len(v) => usHistory[(d - 1) - Len(v)] = Blank
    BY <2>2, <2>3 DEF Continued
  <2> HIDE DEF v, r, d
  <2>9. OwnSource(r) = source /\ OwnSource(r).date = d
    BY <2>4 DEF OwnSource, d
  <2>10. r # Blank
    BY <2>4, <2>5, EmptySeq DEF Blank
  <2>11. ASSUME NEW i \in 1 .. Len(r) - 1
         PROVE  r[i].date = d - (Len(r) - i) /\ Recorded(SubSeq(r, 1, i))
    <3>1. i \in 1 .. Len(v) /\ i \in Nat
      BY <2>4, <2>5
    <3>2. CASE i = Len(v)
      <4>1. SubSeq(r, 1, i) = v /\ r[i] = v[Len(v)]
        BY <2>4, <2>7, <3>1, <3>2
      <4>2. d - (Len(r) - i) = d - 1
        BY <1>1, <2>4, <2>5, <3>2
      <4> QED
        BY <2>3, <2>7, <4>1, <4>2
    <3>3. CASE i # Len(v)
      <4>1. i \in 1 .. Len(v) - 1
        BY <2>5, <3>1, <3>3
      <4>2. (d - 1) - (Len(v) - i) = d - (Len(r) - i)
        BY <1>1, <2>4, <2>5, <3>1
      <4>3. SubSeq(r, 1, i) = SubSeq(v, 1, i) /\ r[i] = v[i]
        BY <2>4, <3>1
      <4>4. v[i].date = (d - 1) - (Len(v) - i) /\ Recorded(SubSeq(v, 1, i))
        BY <2>6, <4>1
      <4> QED
        BY <4>2, <4>3, <4>4
    <3> QED
      BY <3>2, <3>3
  <2>12. d > Len(r) => usHistory[d - Len(r)] = Blank
    <3>1. d > Len(r) => (d - 1) > Len(v)
      BY <1>1, <2>4, <2>5
    <3>2. d - Len(r) = (d - 1) - Len(v)
      BY <1>1, <2>4, <2>5
    <3> QED
      BY <2>8, <3>1, <3>2
  <2> QED
    BY <2>4, <2>9, <2>10, <2>11, <2>12 DEF Continued, r
<1>3. CASE ~ContinuesDay(d)
  <2>1. r = <<source>>
    BY <1>3 DEF Analysis
  <2>2. r \in UsResultSeqs /\ r # Blank /\ Len(r) = 1 /\ OwnSource(r) = source
    BY <2>1 DEF UsResultSeqs, Blank, OwnSource
  <2>3. ASSUME d > 1 PROVE usHistory[d - 1] = Blank
    <3> SUFFICES ASSUME usHistory[d - 1] # Blank PROVE FALSE
      OBVIOUS
    <3>1. d - 1 \in RecordedDays
      BY <1>1, <2>3, UsScreeningAssumption DEF RecordedDays, UsDays
    <3>2. LastRecorded \in RecordedDays /\ d - 1 <= LastRecorded
      BY <3>1, LastRecordedDay
    <3>3. LastRecorded \in Nat /\ LastRecorded <= d /\ LastRecorded # d
      BY <3>2, UsDaysTyped DEF RecordedDays, UsInv, RecordsInv, NothingAfter
    <3>4. LastRecorded = d - 1
      BY <1>1, <3>2, <3>3
    <3> QED
      BY <1>3, <3>1, <3>4 DEF ContinuesDay
  <2> HIDE DEF d, r
  <2>4. OwnSource(r).date = d /\ 1 .. Len(r) - 1 = {}
    BY <2>2 DEF d
  <2>5. d > Len(r) => usHistory[d - Len(r)] = Blank
    BY <2>2, <2>3
  <2> QED
    BY <2>2, <2>4, <2>5 DEF Continued, r
<1> QED
  BY <1>2, <1>3

LEMMA StartUsRunKeeps ==
  ASSUME UsInv, StartUsRun
  PROVE  UsInv'
<1> DEFINE completed == usHistory[ingest.date] # Blank
           pc == IF completed THEN "latest" ELSE "manifest"
<1>0. PICK d, r : d = ingest.date /\ r = IF completed THEN usResult[d] ELSE Analysis(ingest)
  OBVIOUS
<1>1. /\ ingest # Blank /\ usRuns < MaxUsRuns /\ usRuns' = usRuns + 1
      /\ completed => usHistory[d] = ingest.hash /\ usResult[d] # Blank
      /\ usRun' = [pc |-> pc, source |-> ingest, result |-> r]
      /\ UNCHANGED <<ingest, usRecords, usPages, usReader>>
  BY <1>0 DEF StartUsRun, UsRunStarts
<1>2. ingest \in UsSources /\ NothingAfter(d) /\ d \in UsDays /\ d <= ingest.date /\ ingest' = ingest
  BY <1>0, <1>1, UsDaysTyped DEF UsInv, IngestInv, UsSources
<1>3. /\ RecordsInv' /\ RecordsKept
      /\ \A x : Recorded(x) => Recorded(x)'
      /\ \A x : Continued(x) => Continued(x)'
      /\ \A x : NothingAfter(x) => NothingAfter(x)'
  BY <1>1, RecordsUntouched
<1>4. PagesInv' /\ IngestInv'
  BY <1>1, <1>3, PagesStay, IngestStays
<1>5. /\ usReader' = [b \in UsReaders |-> usReader'[b]]
      /\ \A b \in UsReaders : UsReaderInv(usReader[b])'
  BY <1>1, <1>3, UsReadersStay
<1>6. CASE completed
  <2>1. d \in RecordedDays
    BY <1>0, <1>2, <1>6 DEF RecordedDays
  <2>2. r = usResult[d] /\ r # Blank /\ r \in UsResultSeqs /\ OwnSource(r) = Source(d, ingest.hash)
        /\ usHistory[d] = ingest.hash
    BY <1>0, <1>1, <1>2, <1>6, <2>1 DEF UsInv, RecordsInv
  <2>3. Source(d, ingest.hash) = ingest
    BY <1>0, <1>2 DEF Source, UsSources
  <2>4. Recorded(r)
    BY <1>0, <2>2, <2>3 DEF Recorded
  <2>5. usRun' = [pc |-> "latest", source |-> ingest, result |-> r]
    BY <1>1, <1>6
  <2>6. usRun'.result = r /\ usRun'.source = ingest /\ usRun'.pc = "latest" /\ usRun' \in ScreeningRuns
    BY <1>2, <2>2, <2>5 DEF ScreeningRuns
  <2>7. NothingAfter(d)' /\ Recorded(r)'
    BY <1>2, <1>3, <2>4
  <2>8. ScreeningRelies'
    BY <1>0, <1>1, <1>2, <2>2, <2>3, <2>6, <2>7 DEF ScreeningRelies, NothingAfter, Recorded
  <2> QED
    BY <2>6, <2>8, <1>1, <1>3, <1>4, <1>5, UsScreeningAssumption DEF UsInv, UsRunInv
<1>7. CASE ~completed
  <2>1. r = Analysis(ingest) /\ usHistory[d] = Blank
    BY <1>0, <1>7
  <2>2. Continued(r) /\ OwnSource(r) = ingest /\ r \in UsResultSeqs /\ r # Blank
    BY <1>0, <1>2, <2>1, AnalysisContinues DEF Continued
  <2>3. usRun' = [pc |-> "manifest", source |-> ingest, result |-> r]
    BY <1>1, <1>7
  <2>4. usRun'.result = r /\ usRun'.source = ingest /\ usRun'.pc = "manifest" /\ usRun' \in ScreeningRuns
    BY <1>2, <2>2, <2>3 DEF ScreeningRuns
  <2>5. NothingAfter(d)' /\ Continued(r)' /\ usHistory'[d] = Blank
    BY <1>1, <1>2, <1>3, <2>1, <2>2 DEF usRecords
  <2>6. ScreeningRelies'
    BY <1>0, <1>1, <1>2, <2>2, <2>4, <2>5 DEF ScreeningRelies, NothingAfter, Continued, Recorded
  <2> QED
    BY <2>4, <2>6, <1>1, <1>3, <1>4, <1>5, UsScreeningAssumption DEF UsInv, UsRunInv
<1> QED
  BY <1>6, <1>7

LEMMA UsRunOf ==
  ASSUME UsInv, usRun.pc \in {"manifest", "result", "history", "latest", "view"}
  PROVE  /\ usRun \in ScreeningRuns /\ ScreeningRelies
         /\ usRun.source \in UsSources /\ usRun.result \in UsResultSeqs
         /\ usRun.source.date \in UsDays /\ usRun.source.hash \in Hashes
<1>1. usRun \in ScreeningRuns /\ ScreeningRelies
  BY DEF UsInv, UsRunInv, NoUsRun, RevisionRuns
<1> QED
  BY <1>1 DEF ScreeningRuns, UsSources

LEMMA PutManifestKeeps ==
  ASSUME UsInv, PutManifest
  PROVE  UsInv'
<1>0. PICK d, source, r : d = source.date /\ source = usRun.source /\ r = usRun.result
  OBVIOUS
<1>1. /\ usRun.pc = "manifest" /\ usManifest[d] \in {Blank, source.hash}
      /\ usManifest' = [usManifest EXCEPT ![d] = source.hash]
      /\ usRun' = [usRun EXCEPT !.pc = "result"]
      /\ UNCHANGED <<ingest, usResult, usHistory, usPages, usRuns, usReader>>
  BY <1>0 DEF PutManifest, UsRunAt, UsRunTo
<1>2. /\ usRun \in ScreeningRuns /\ source \in UsSources /\ d \in UsDays /\ source.hash \in Hashes
      /\ r # Blank /\ OwnSource(r) = source /\ NothingAfter(d) /\ Continued(r) /\ usHistory[d] = Blank
      /\ ingest # Blank /\ d <= ingest.date
  BY <1>0, <1>1, UsRunOf DEF ScreeningRelies
<1>3. /\ RecordsKept
      /\ \A x : Recorded(x) => Recorded(x)'
      /\ \A x : Continued(x) => Continued(x)'
      /\ \A x : NothingAfter(x) => NothingAfter(x)'
      /\ RecordedDays' = RecordedDays
  BY <1>1 DEF RecordsKept, Recorded, Continued, NothingAfter, RecordedDays
<1>4. RecordsInv'
  <2>1. RecordsInv
    BY DEF UsInv
  <2>2. usManifest' \in MaybeHashes
    BY <1>1, <1>2, <2>1 DEF RecordsInv, MaybeHashes
  <2>3. \A e \in UsDays : usManifest[e] # Blank => usManifest'[e] = usManifest[e]
    BY <1>1, <1>2, <2>1 DEF RecordsInv, MaybeHashes
  <2>4. \A e \in UsDays : usResult'[e] # Blank =>
          /\ Continued(usResult[e])' /\ usManifest'[e] # Blank
          /\ OwnSource(usResult'[e]) = Source(e, usManifest'[e])
    <3> SUFFICES ASSUME NEW e \in UsDays, usResult[e] # Blank
                 PROVE  /\ Continued(usResult[e])' /\ usManifest'[e] # Blank
                        /\ OwnSource(usResult[e]) = Source(e, usManifest'[e])
      BY <1>1
    <3>1. Continued(usResult[e]) /\ usManifest[e] # Blank /\ OwnSource(usResult[e]) = Source(e, usManifest[e])
      BY <2>1 DEF RecordsInv
    <3>2. Continued(usResult[e])'
      BY <1>1, <1>3, <3>1 DEF Continued, Recorded
    <3> QED
      BY <2>3, <3>1, <3>2
  <2>5. \A e \in RecordedDays : usResult[e] # Blank /\ usHistory[e] = usManifest'[e]
    <3>1. \A e \in RecordedDays : usResult[e] # Blank /\ usHistory[e] = usManifest[e] /\ e # d /\ e \in UsDays
      BY <1>2, <2>1 DEF RecordsInv, RecordedDays
    <3> QED
      BY <1>1, <2>1, <3>1 DEF RecordsInv, MaybeHashes
  <2> QED
    BY <1>1, <1>3, <2>1, <2>2, <2>4, <2>5 DEF RecordsInv
<1>5. PagesInv' /\ IngestInv'
  BY <1>1, <1>3, PagesStay DEF UsInv, IngestInv, NothingAfter
<1>6. /\ usReader' = [b \in UsReaders |-> usReader'[b]]
      /\ \A b \in UsReaders : UsReaderInv(usReader[b])'
  BY <1>1, <1>3, UsReadersStay
<1>7. usRun' \in ScreeningRuns /\ usRun'.pc = "result" /\ usRun'.source = source /\ usRun'.result = r
  BY <1>0, <1>1, <1>2 DEF ScreeningRuns
<1>8. usManifest'[d] = source.hash
  BY <1>1, <1>2 DEF UsInv, RecordsInv, MaybeHashes
<1>9. ScreeningRelies'
  BY <1>0, <1>1, <1>2, <1>3, <1>7, <1>8 DEF ScreeningRelies, NothingAfter, Continued, Recorded
<1> QED
  BY <1>1, <1>4, <1>5, <1>6, <1>7, <1>9 DEF UsInv, UsRunInv

\* A new result of the run's day, or the one that is there.
LEMMA PutResultKeeps ==
  ASSUME UsInv, PutResult
  PROVE  UsInv'
<1>0. PICK d, source, r : /\ d = source.date /\ source = usRun.source
                          /\ r = IF usResult[d] = Blank THEN usRun.result ELSE usResult[d]
  OBVIOUS
<1>1. /\ usRun.pc = "result" /\ OwnSource(r) = source
      /\ usResult' = [usResult EXCEPT ![d] = r]
      /\ usRun' = [usRun EXCEPT !.pc = "history", !.result = r]
      /\ UNCHANGED <<ingest, usManifest, usHistory, usPages, usRuns, usReader>>
  BY <1>0 DEF PutResult, UsRunAt
<1>2. /\ usRun \in ScreeningRuns /\ source \in UsSources /\ d \in UsDays /\ source.hash \in Hashes
      /\ NothingAfter(d) /\ Continued(usRun.result) /\ usRun.result # Blank /\ usHistory[d] = Blank
      /\ usManifest[d] = source.hash /\ ingest # Blank /\ d <= ingest.date
  BY <1>0, <1>1, UsRunOf DEF ScreeningRelies
<1>3. RecordsInv /\ usResult \in [UsDays -> UsResultSeqs]
  BY DEF UsInv, RecordsInv
<1>4. Continued(r) /\ r \in UsResultSeqs /\ r # Blank
  BY <1>0, <1>2, <1>3 DEF RecordsInv, Continued
<1>5. /\ usResult' \in [UsDays -> UsResultSeqs] /\ usResult'[d] = r
      /\ \A e \in UsDays : e # d => usResult'[e] = usResult[e]
      /\ usResult[d] # Blank => r = usResult[d]
  BY <1>0, <1>1, <1>2, <1>3, <1>4
<1>6. RecordsKept /\ RecordedDays' = RecordedDays
  BY <1>1, <1>5 DEF RecordsKept, RecordedDays
<1>7. \A x : Continued(x) => Continued(x)'
  BY <1>1, <1>6, ContinuedStays
<1>8. Continued(r)'
  BY <1>4, <1>7
<1>9. RecordsInv'
  <2>1. \A e \in UsDays : usResult'[e] # Blank =>
          /\ Continued(usResult[e])' /\ usManifest'[e] # Blank
          /\ OwnSource(usResult'[e]) = Source(e, usManifest'[e])
    <3> SUFFICES ASSUME NEW e \in UsDays, usResult'[e] # Blank
                 PROVE  /\ Continued(usResult[e])' /\ usManifest[e] # Blank
                        /\ OwnSource(usResult'[e]) = Source(e, usManifest[e])
      BY <1>1
    <3>0. PICK x : x = usResult'[e]
      OBVIOUS
    <3>1. CASE e = d
      <4>1. x = r /\ Source(d, source.hash) = source
        BY <1>0, <1>2, <1>5, <3>0, <3>1 DEF Source, UsSources
      <4>2. Continued(usResult[e])'
        BY <1>8, <3>0, <4>1 DEF Continued, Recorded
      <4>3. source.hash # Blank
        BY <1>2, UsScreeningAssumption
      <4> QED
        BY <1>1, <1>2, <3>0, <3>1, <4>1, <4>2, <4>3
    <3>2. CASE e # d
      <4>1. x = usResult[e] /\ Continued(x)
        BY <1>3, <1>5, <3>0, <3>2 DEF RecordsInv
      <4>2. Continued(x)'
        BY <1>7, <4>1
      <4>3. Continued(usResult[e])'
        BY <3>0, <4>2 DEF Continued, Recorded
      <4> QED
        BY <1>3, <1>5, <3>2, <4>3 DEF RecordsInv
    <3> QED
      BY <3>1, <3>2
  <2>2. \A e \in RecordedDays : usResult'[e] # Blank /\ usHistory[e] = usManifest[e]
    BY <1>3, <1>6 DEF RecordsInv, RecordsKept, RecordedDays
  <2> QED
    BY <1>1, <1>3, <1>5, <1>6, <2>1, <2>2 DEF RecordsInv
<1>10. NothingAfter(d)'
  BY <1>2, <1>5, UsDaysTyped DEF NothingAfter
<1>11. IngestInv'
  <2>1. \A e \in UsDays : usResult[e] # Blank => e <= d
    BY <1>2 DEF NothingAfter
  <2>2. CASE usResult[d] # Blank
    <3>1. \A e \in UsDays : usResult'[e] # Blank => usResult[e] # Blank
      BY <1>5, <2>2
    <3> QED
      BY <1>1, <3>1 DEF UsInv, IngestInv, NothingAfter
  <2>3. CASE usResult[d] = Blank
    <3>1. ingest # Blank /\ ingest \in UsSources /\ d <= ingest.date
      BY <1>2 DEF UsInv, IngestInv
    <3>2. ingest.date \in Nat /\ d \in Nat
      BY <1>2, <3>1, UsDaysTyped DEF UsSources
    <3> QED
      BY <1>1, <1>10, <3>1, <3>2, UsDaysTyped DEF IngestInv, NothingAfter
  <2> QED
    BY <2>2, <2>3
<1>12. PagesInv'
  BY <1>1, <1>6, PagesStay
<1>13. /\ usReader' = [b \in UsReaders |-> usReader'[b]]
       /\ \A b \in UsReaders : UsReaderInv(usReader[b])'
  BY <1>1, <1>6, UsReadersStay
<1>14. usRun' \in ScreeningRuns /\ usRun'.pc = "history" /\ usRun'.source = source /\ usRun'.result = r
  BY <1>0, <1>1, <1>2, <1>4 DEF ScreeningRuns
<1>15. ScreeningRelies'
  BY <1>0, <1>1, <1>2, <1>4, <1>5, <1>10, <1>14 DEF ScreeningRelies, NothingAfter
<1> QED
  BY <1>1, <1>9, <1>11, <1>12, <1>13, <1>14, <1>15 DEF UsInv, UsRunInv

LEMMA InsertHistoryKeeps ==
  ASSUME UsInv, InsertHistory
  PROVE  UsInv'
<1>0. PICK d, source, r : d = source.date /\ source = usRun.source /\ r = usRun.result
  OBVIOUS
<1>1. /\ usRun.pc = "history" /\ usHistory[d] = Blank
      /\ usHistory' = [usHistory EXCEPT ![d] = source.hash]
      /\ usRun' = [usRun EXCEPT !.pc = "latest"]
      /\ UNCHANGED <<ingest, usManifest, usResult, usPages, usRuns, usReader>>
  BY <1>0 DEF InsertHistory, UsRunAt, UsRunTo
<1>2. /\ usRun \in ScreeningRuns /\ source \in UsSources /\ d \in UsDays /\ source.hash \in Hashes
      /\ r # Blank /\ OwnSource(r) = source /\ NothingAfter(d) /\ usResult[d] = r
      /\ ingest # Blank /\ d <= ingest.date
  BY <1>0, <1>1, UsRunOf DEF ScreeningRelies
<1>3. RecordsInv
  BY DEF UsInv
<1>4. /\ usHistory' \in MaybeHashes /\ usHistory'[d] = source.hash
      /\ \A e \in UsDays : e # d => usHistory'[e] = usHistory[e]
  BY <1>1, <1>2, <1>3 DEF RecordsInv, MaybeHashes
<1>5. source.hash # Blank
  BY <1>2, UsScreeningAssumption
<1>6. RecordsKept /\ RecordedDays' = RecordedDays \cup {d}
  BY <1>1, <1>2, <1>4, <1>5 DEF RecordsKept, RecordedDays
<1>7. usManifest[d] = source.hash
  BY <1>0, <1>2, <1>3 DEF RecordsInv, Source
<1>8. RecordsInv'
  <2>1. ASSUME NEW e \in UsDays, usResult[e] # Blank
        PROVE  /\ Continued(usResult[e])' /\ usManifest[e] # Blank
               /\ OwnSource(usResult[e]) = Source(e, usManifest[e])
    <3>0. PICK x : x = usResult[e]
      OBVIOUS
    <3>1. Continued(x) /\ OwnSource(x) = Source(e, usManifest[e]) /\ usManifest[e] # Blank
      BY <1>3, <2>1, <3>0 DEF RecordsInv
    <3>2. OwnSource(x).date = e /\ e <= d
      BY <1>2, <2>1, <3>1 DEF Source, NothingAfter
    <3>3. \A c \in UsDays : usHistory'[c] # usHistory[c] => OwnSource(x).date <= c
      BY <1>4, <3>2
    <3>4. Continued(x)'
      BY <1>6, <3>1, <3>3, ContinuedStays
    <3>5. Continued(usResult[e])'
      BY <1>1, <3>0, <3>4 DEF Continued, Recorded
    <3> QED
      BY <3>0, <3>1, <3>5
  <2>2. \A e \in RecordedDays' : usResult[e] # Blank /\ usHistory'[e] = usManifest[e]
    <3>1. \A e \in RecordedDays : e # d /\ e \in UsDays /\ usResult[e] # Blank /\ usHistory[e] = usManifest[e]
      BY <1>1, <1>3 DEF RecordsInv, RecordedDays
    <3> QED
      BY <1>2, <1>4, <1>6, <1>7, <3>1
  <2> QED
    BY <1>1, <1>3, <1>4, <2>1, <2>2 DEF RecordsInv
<1>9. PagesInv' /\ IngestInv' /\ NothingAfter(d)'
  BY <1>1, <1>2, <1>6, PagesStay DEF UsInv, IngestInv, NothingAfter
<1>10. /\ usReader' = [b \in UsReaders |-> usReader'[b]]
       /\ \A b \in UsReaders : UsReaderInv(usReader[b])'
  BY <1>1, <1>6, UsReadersStay
<1>11. usRun' \in ScreeningRuns /\ usRun'.pc = "latest" /\ usRun'.source = source /\ usRun'.result = r
  BY <1>0, <1>1, <1>2 DEF ScreeningRuns
<1>12. Recorded(r)'
  BY <1>0, <1>1, <1>2, <1>4 DEF Recorded
<1>13. ScreeningRelies'
  BY <1>0, <1>1, <1>2, <1>9, <1>11, <1>12 DEF ScreeningRelies, NothingAfter, Recorded
<1> QED
  BY <1>1, <1>8, <1>9, <1>10, <1>11, <1>13 DEF UsInv, UsRunInv

\* A step that changes no record, and of the pages only to what is recorded.
LEMMA PageStep ==
  ASSUME UsInv, UNCHANGED <<usRecords, ingest>>,
         PagesInv', UsRunInv', usRuns' \in 0 .. MaxUsRuns, usReader' = usReader
  PROVE  UsInv'
<1>1. RecordsInv' /\ RecordsKept /\ IngestInv'
  BY RecordsUntouched, IngestStays
<1> QED
  BY <1>1, UsReadersStay DEF UsInv

LEMMA PutUsLatestKeeps ==
  ASSUME UsInv, PutUsLatest
  PROVE  UsInv'
<1>1. /\ usRun.pc = "latest" /\ usLatest' = usRun.result
      /\ usRun' = [usRun EXCEPT !.pc = "view"]
      /\ UNCHANGED <<ingest, usRecords, usView, bundles, pointer, usRuns, usReader>>
  BY DEF PutUsLatest, UsRunAt, UsRunTo
<1>2. usRun \in ScreeningRuns /\ ScreeningRelies /\ usRun.result \in UsResultSeqs /\ Recorded(usRun.result)
  BY <1>1, UsRunOf DEF ScreeningRelies
<1>3. usRun' \in ScreeningRuns /\ usRun'.pc = "view" /\ usRun'.source = usRun.source
      /\ usRun'.result = usRun.result
  BY <1>1, <1>2 DEF ScreeningRuns
<1>4. UNCHANGED <<usManifest, usResult, usHistory>>
  BY <1>1 DEF usRecords
<1>5. ScreeningRelies'
  BY <1>1, <1>2, <1>3, <1>4 DEF ScreeningRelies, Recorded, NothingAfter
<1>6. PagesInv'
  BY <1>1, <1>2, <1>4 DEF UsInv, PagesInv, PageInv, Recorded
<1> QED
  BY <1>1, <1>3, <1>5, <1>6, PageStep DEF UsRunInv, UsInv

LEMMA PutViewKeeps ==
  ASSUME UsInv, PutView
  PROVE  UsInv'
<1>1. /\ usRun.pc = "view" /\ usView' = usRun.result /\ usRun' = NoUsRun
      /\ UNCHANGED <<ingest, usRecords, usLatest, bundles, pointer, usRuns, usReader>>
  BY DEF PutView, UsRunAt
<1>2. usRun.result \in UsResultSeqs /\ Recorded(usRun.result)
  BY <1>1, UsRunOf DEF ScreeningRelies
<1>3. UNCHANGED <<usManifest, usResult, usHistory>>
  BY <1>1 DEF usRecords
<1>4. PagesInv'
  BY <1>1, <1>2, <1>3 DEF UsInv, PagesInv, PageInv, Recorded
<1> QED
  BY <1>1, <1>4, PageStep DEF UsRunInv, UsInv

LEMMA UsRunFailsKeeps ==
  ASSUME UsInv, UsRunFails
  PROVE  UsInv'
<1>1. /\ usRun' = NoUsRun
      /\ UNCHANGED <<ingest, usRecords, usPages, usRuns, usReader>>
  BY DEF UsRunFails
<1>2. PagesInv'
  BY <1>1, RecordsUntouched, PagesStay
<1> QED
  BY <1>1, <1>2, PageStep DEF UsRunInv, UsInv

LEMMA StartRevisionKeeps ==
  ASSUME UsInv, NEW n \in Revisions, StartRevision(n)
  PROVE  UsInv'
<1>1. /\ usRuns < MaxUsRuns /\ usRuns' = usRuns + 1 /\ ingest # Blank
      /\ usRun' = [pc |-> "bundle", source |-> ingest, revision |-> n, prior |-> pointer]
      /\ UNCHANGED <<ingest, usRecords, usPages, usReader>>
  BY DEF StartRevision, UsRunStarts
<1>2. ingest \in UsSources /\ pointer \in {Blank} \cup UsCorrections
  BY <1>1 DEF UsInv, IngestInv, PagesInv
<1>3. usRun' \in RevisionRuns /\ usRun'.pc = "bundle"
  BY <1>1, <1>2 DEF RevisionRuns
<1>4. PagesInv'
  BY <1>1, RecordsUntouched, PagesStay
<1>5. usRuns' \in 0 .. MaxUsRuns
  BY <1>1, UsScreeningAssumption DEF UsInv
<1> QED
  BY <1>1, <1>3, <1>4, <1>5, PageStep DEF UsRunInv

LEMMA UsRevisionRun ==
  ASSUME UsInv, usRun.pc \in {"bundle", "recheck", "pointer"}
  PROVE  /\ usRun \in RevisionRuns
         /\ usRun.pc # "bundle" => RevisionPointer(usRun.source, usRun.revision) \in bundles
         /\ RevisionPointer(usRun.source, usRun.revision) \in UsCorrections
<1>1. /\ usRun \in RevisionRuns
      /\ usRun.pc # "bundle" => RevisionPointer(usRun.source, usRun.revision) \in bundles
  BY DEF UsInv, UsRunInv, NoUsRun, ScreeningRuns
<1>2. usRun.source \in UsSources /\ usRun.revision \in Revisions
  BY <1>1 DEF RevisionRuns
<1>3. usRun.source.date \in UsDays /\ usRun.source.hash \in Hashes
  BY <1>2 DEF UsSources
<1> QED
  BY <1>1, <1>2, <1>3 DEF RevisionPointer, UsCorrections

LEMMA PutBundleKeeps ==
  ASSUME UsInv, PutBundle
  PROVE  UsInv'
<1> DEFINE p == RevisionPointer(usRun.source, usRun.revision)
<1>1. /\ usRun.pc = "bundle" /\ bundles' = bundles \cup {p}
      /\ usRun' = [usRun EXCEPT !.pc = "recheck"]
      /\ UNCHANGED <<ingest, usRecords, usLatest, usView, pointer, usRuns, usReader>>
  BY DEF PutBundle, UsRunAt, UsRunTo
<1>2. usRun \in RevisionRuns /\ p \in UsCorrections
  BY <1>1, UsRevisionRun
<1>3. /\ usRun' \in RevisionRuns /\ usRun'.pc = "recheck" /\ usRun'.source = usRun.source
      /\ usRun'.revision = usRun.revision
  BY <1>1, <1>2 DEF RevisionRuns
<1>4. RevisionPointer(usRun'.source, usRun'.revision) = p
  BY <1>3
<1> HIDE DEF p
<1>5. PagesInv'
  <2>1. UNCHANGED <<usManifest, usResult, usHistory>>
    BY <1>1 DEF usRecords
  <2> QED
    BY <1>1, <1>2, <2>1 DEF UsInv, PagesInv, PageInv, Recorded
<1>6. UsRunInv'
  BY <1>1, <1>3, <1>4 DEF UsRunInv
<1> QED
  BY <1>1, <1>5, <1>6, PageStep DEF UsInv

LEMMA RecheckKeeps ==
  ASSUME UsInv, Recheck
  PROVE  UsInv'
<1>1. /\ usRun.pc = "recheck" /\ usRun' = [usRun EXCEPT !.pc = "pointer"]
      /\ UNCHANGED <<ingest, usRecords, usPages, usRuns, usReader>>
  BY DEF Recheck, UsRunAt, UsRunTo
<1>2. usRun \in RevisionRuns /\ RevisionPointer(usRun.source, usRun.revision) \in bundles
  BY <1>1, UsRevisionRun
<1>3. /\ usRun' \in RevisionRuns /\ usRun'.source = usRun.source /\ usRun'.revision = usRun.revision
  BY <1>1, <1>2 DEF RevisionRuns
<1>4. PagesInv' /\ UsRunInv'
  BY <1>1, <1>2, <1>3, RecordsUntouched, PagesStay DEF UsRunInv, usPages
<1> QED
  BY <1>1, <1>4, PageStep DEF UsInv

LEMMA PutPointerKeeps ==
  ASSUME UsInv, PutPointer
  PROVE  UsInv'
<1>1. /\ usRun.pc = "pointer" /\ pointer' = RevisionPointer(usRun.source, usRun.revision)
      /\ usRun' = NoUsRun
      /\ UNCHANGED <<ingest, usRecords, usLatest, usView, bundles, usRuns, usReader>>
  BY DEF PutPointer, UsRunAt
<1>2. RevisionPointer(usRun.source, usRun.revision) \in bundles
  BY <1>1, UsRevisionRun
<1>3. UNCHANGED <<usManifest, usResult, usHistory>>
  BY <1>1 DEF usRecords
<1>4. PagesInv'
  BY <1>1, <1>2, <1>3 DEF UsInv, PagesInv, PageInv, Recorded
<1> QED
  BY <1>1, <1>4, PageStep DEF UsRunInv, UsInv

LEMMA UsReaderStep ==
  ASSUME UsInv, NEW b \in UsReaders, NEW l, UsReaderTo(b, l), UsStays, UsReaderInv(l)
  PROVE  UsInv'
<1>1. UNCHANGED <<ingest, usRecords, usPages, usRun, usRuns>>
      /\ UNCHANGED <<usManifest, usResult, usHistory, usLatest, usView, bundles, pointer>>
  BY DEF UsStays, usRecords, usPages
<1>2. RecordsInv' /\ RecordsKept /\ IngestInv' /\ PagesInv' /\ UsRunInv'
  <2>1. IngestMoves
    BY <1>1, UsDaysTyped DEF IngestMoves, UsInv, IngestInv, UsSources
  <2> QED
    BY <1>1, <2>1, RecordsUntouched, IngestStays, PagesStay, UsRunStays
<1>3. usReader' = [c \in UsReaders |-> IF c = b THEN l ELSE usReader[c]]
  BY DEF UsReaderTo, UsInv
<1>4. \A m : UsReaderInv(m) => UsReaderInv(m)'
  BY <1>1 DEF UsReaderInv, Recorded
<1>5. ASSUME NEW c \in UsReaders
      PROVE  UsReaderInv(usReader[c])'
  <2>0. PICK m : m = IF c = b THEN l ELSE usReader[c]
    OBVIOUS
  <2>1. UsReaderInv(m)
    BY <2>0 DEF UsInv
  <2>2. UsReaderInv(m)' /\ usReader'[c] = m
    BY <1>3, <1>4, <2>0, <2>1
  <2> QED
    BY <2>2 DEF UsReaderInv, Recorded
<1> QED
  BY <1>1, <1>2, <1>3, <1>5 DEF UsInv

LEMMA UsReads ==
  ASSUME UsInv, NEW b \in UsReaders, OpenUs(b) \/ ReadPointer(b) \/ ReadBundle(b)
  PROVE  UsInv'
<1> DEFINE k == usReader[b]
<1>1. UsReaderInv(k)
  BY DEF UsInv
<1>2. CASE OpenUs(b)
  <2> DEFINE canonical == IF usView # Blank THEN usView ELSE usLatest
             l == [pc |-> "pointer", canonical |-> canonical]
  <2>1. canonical # Blank /\ UsReaderTo(b, l) /\ UsStays
    BY <1>2 DEF OpenUs
  <2>2. canonical \in UsResultSeqs /\ Recorded(canonical)
    BY <2>1 DEF UsInv, PagesInv, PageInv
  <2> HIDE DEF canonical
  <2>3. l.pc = "pointer" /\ l.canonical = canonical
    OBVIOUS
  <2> HIDE DEF l
  <2>4. UsReaderInv(l)
    BY <2>1, <2>2, <2>3 DEF UsReaderInv
  <2> QED
    BY <2>1, <2>4, UsReaderStep
<1>3. CASE ReadPointer(b)
  <2>1. k.pc = "pointer" /\ UsStays
    BY <1>3 DEF ReadPointer
  <2>2. k.canonical \in UsResultSeqs /\ k.canonical # Blank /\ Recorded(k.canonical)
    BY <1>1, <2>1 DEF UsReaderInv, NoUsReader
  <2>3. CASE Corrects(pointer, k.canonical)
    <3> DEFINE l == [pc |-> "bundle", canonical |-> k.canonical, correction |-> pointer]
    <3>1. UsReaderTo(b, l)
      BY <1>3, <2>3 DEF ReadPointer
    <3>2. l.pc = "bundle" /\ l.canonical = k.canonical /\ l.correction = pointer
      OBVIOUS
    <3> HIDE DEF l, k
    <3>3. UsReaderInv(l)
      BY <2>2, <2>3, <3>2 DEF UsReaderInv
    <3> QED
      BY <2>1, <3>1, <3>3, UsReaderStep
  <2>4. CASE ~Corrects(pointer, k.canonical)
    <3> DEFINE l == [pc |-> "shown", canonical |-> k.canonical, correction |-> Blank]
    <3>1. UsReaderTo(b, l)
      BY <1>3, <2>4 DEF ReadPointer, ShowUs
    <3>2. l.pc = "shown" /\ l.canonical = k.canonical /\ l.correction = Blank
      OBVIOUS
    <3> HIDE DEF l, k
    <3>3. UsReaderInv(l)
      BY <2>2, <3>2 DEF UsReaderInv
    <3> QED
      BY <2>1, <3>1, <3>3, UsReaderStep
  <2> QED
    BY <2>3, <2>4
<1>4. CASE ReadBundle(b)
  <2> DEFINE p == IF k.correction \in bundles THEN k.correction ELSE Blank
             l == [pc |-> "shown", canonical |-> k.canonical, correction |-> p]
  <2>1. k.pc = "bundle" /\ UsStays /\ UsReaderTo(b, l)
    BY <1>4 DEF ReadBundle, ShowUs
  <2>2. k.canonical \in UsResultSeqs /\ k.canonical # Blank /\ Recorded(k.canonical)
        /\ Corrects(k.correction, k.canonical)
    BY <1>1, <2>1 DEF UsReaderInv, NoUsReader
  <2>3. p # Blank => Corrects(p, k.canonical)
    BY <2>2
  <2> HIDE DEF p, k
  <2>4. l.pc = "shown" /\ l.canonical = k.canonical /\ l.correction = p
    OBVIOUS
  <2> HIDE DEF l
  <2>5. UsReaderInv(l)
    BY <2>2, <2>3, <2>4 DEF UsReaderInv
  <2> QED
    BY <2>1, <2>5, UsReaderStep
<1> QED
  BY <1>2, <1>3, <1>4

LEMMA UsInitial ==
  ASSUME UsInit
  PROVE  UsInv
<1>1. /\ ingest = Blank /\ usManifest = [d \in UsDays |-> Blank] /\ usResult = usManifest
      /\ usHistory = usManifest
      /\ usLatest = Blank /\ usView = Blank /\ bundles = {} /\ pointer = Blank
      /\ usRun = NoUsRun /\ usRuns = 0
      /\ usReader = [b \in UsReaders |-> NoUsReader]
  BY DEF UsInit
<1>2. Blank \in UsResultSeqs
  BY EmptySeq DEF UsResultSeqs, Blank
<1>3. RecordsInv
  BY <1>1, <1>2 DEF RecordsInv, MaybeHashes, RecordedDays
<1>4. IngestInv /\ PagesInv /\ UsRunInv
  BY <1>1, <1>2 DEF IngestInv, PagesInv, PageInv, UsRunInv
<1>5. usRuns \in 0 .. MaxUsRuns
  BY <1>1, UsScreeningAssumption
<1> QED
  BY <1>1, <1>3, <1>4, <1>5 DEF UsInv, UsReaderInv

LEMMA UsStep ==
  ASSUME UsInv, [UsNext]_usVars
  PROVE  UsInv'
<1>1. ASSUME NEW d \in UsDays, NEW h \in Hashes, Collect(d, h) PROVE UsInv'
  BY <1>1, CollectKeeps
<1>2. ASSUME NEW n \in Revisions, StartRevision(n) PROVE UsInv'
  BY <1>2, StartRevisionKeeps
<1>3. CASE StartUsRun \/ UsRunFails
  BY <1>3, StartUsRunKeeps, UsRunFailsKeeps
<1>4. CASE PutManifest \/ PutResult \/ InsertHistory \/ PutUsLatest \/ PutView
  BY <1>4, PutManifestKeeps, PutResultKeeps, InsertHistoryKeeps, PutUsLatestKeeps, PutViewKeeps
<1>5. CASE PutBundle \/ Recheck \/ PutPointer
  BY <1>5, PutBundleKeeps, RecheckKeeps, PutPointerKeeps
<1>6. ASSUME NEW b \in UsReaders, OpenUs(b) \/ ReadPointer(b) \/ ReadBundle(b) PROVE UsInv'
  BY <1>6, UsReads
<1>7. CASE UNCHANGED usVars
  <2>1. UNCHANGED <<ingest, usRecords, usPages, usRun, usRuns, usReader>> /\ UNCHANGED bundles
    BY <1>7 DEF usVars, usPages
  <2>2. IngestMoves
    BY <2>1, UsDaysTyped DEF IngestMoves, UsInv, IngestInv, UsSources
  <2> QED
    BY <2>1, <2>2, RecordsUntouched, PagesStay, UsRunStays, PageStep DEF UsInv
<1> QED
  BY <1>1, <1>2, <1>3, <1>4, <1>5, <1>6, <1>7 DEF UsNext

\* The invariant the other theorems rest on: every stored result comes from the
\* locked input of its day and continues the recorded days before it, and the
\* run and the pages in progress are still right in what they read before.
THEOREM UsInvariant == UsSpec => []UsInv
<1>1. UsInit => UsInv
  BY UsInitial
<1>2. UsInv /\ [UsNext]_usVars => UsInv'
  BY UsStep
<1> QED
  BY <1>1, <1>2, PTL DEF UsSpec

\* Sources, hashes, results, corrections and the states of runs and pages have
\* their types, whenever a run dies and whatever the collector replaces.
THEOREM UsTypes == UsSpec => []UsTypeOK
<1>1. UsInv => UsTypeOK
  <2> SUFFICES ASSUME UsInv PROVE UsTypeOK
    OBVIOUS
  <2>1. \A r \in UsResultSeqs : UsResults(r)
    BY ElementOfSeq, LenProperties DEF UsResultSeqs, UsResults
  <2>2. \A d \in UsDays :
          /\ usManifest[d] = Blank \/ usManifest[d] \in Hashes
          /\ usHistory[d] = Blank \/ usHistory[d] \in Hashes
          /\ UsResults(usResult[d])
    BY <2>1 DEF UsInv, RecordsInv, MaybeHashes
  <2>3. UsResults(usLatest) /\ UsResults(usView)
    BY <2>1 DEF UsInv, PagesInv, PageInv
  <2>4. bundles \subseteq UsCorrections /\ (pointer = Blank \/ pointer \in UsCorrections)
    BY DEF UsInv, PagesInv
  <2>5. ingest = Blank \/ ingest \in UsSources
    BY DEF UsInv, IngestInv
  <2>6. usRun.pc \in {"idle", "manifest", "result", "history", "latest", "view", "bundle",
                      "recheck", "pointer"}
    BY DEF UsInv, UsRunInv, NoUsRun, ScreeningRuns, RevisionRuns
  <2>7. \A b \in UsReaders : usReader[b].pc \in {"idle", "pointer", "bundle", "shown"}
    BY DEF UsInv, UsReaderInv, NoUsReader
  <2> QED
    BY <2>2, <2>3, <2>4, <2>5, <2>6, <2>7 DEF UsTypeOK, UsInv
<1> QED
  BY <1>1, UsInvariant, PTL

\* runUsScreening and publishSameSessionRevision: for any number of sessions,
\* corrections, dying runs and pages, what is kept of a day comes from one
\* input, continues each session since the last gap, and is what pages show.
THEOREM UsAgrees == UsSpec => []UsPublicationAgrees
<1>1. UsInv => UsPublicationAgrees
  <2> SUFFICES ASSUME UsInv PROVE UsPublicationAgrees
    OBVIOUS
  <2>1. ASSUME NEW d \in UsDays, usResult[d] # Blank
        PROVE  LET result == usResult[d] IN
               /\ OwnSource(result) = Source(d, usManifest[d])
               /\ \A i \in 1 .. Len(result) - 1 :
                    /\ result[i].date = d - (Len(result) - i)
                    /\ Recorded(SubSeq(result, 1, i))
               /\ d > Len(result) => usHistory[d - Len(result)] = Blank
    <3>1. Continued(usResult[d]) /\ OwnSource(usResult[d]) = Source(d, usManifest[d])
      BY <2>1 DEF UsInv, RecordsInv
    <3>2. OwnSource(usResult[d]).date = d
      BY <3>1 DEF Source
    <3> QED
      BY <3>1, <3>2 DEF Continued
  <2>2. \A d \in RecordedDays : usResult[d] # Blank /\ usHistory[d] = usManifest[d]
    BY DEF UsInv, RecordsInv
  <2>3. /\ \A page \in {usLatest, usView} : page # Blank => Recorded(page)
        /\ pointer # Blank => pointer \in bundles
    BY DEF UsInv, PagesInv, PageInv
  <2>4. \A b \in UsReaders : usReader[b].pc = "shown" =>
          /\ Recorded(usReader[b].canonical)
          /\ usReader[b].correction # Blank => Corrects(usReader[b].correction, usReader[b].canonical)
    BY DEF UsInv, UsReaderInv, NoUsReader
  <2> QED
    BY <2>1, <2>2, <2>3, <2>4 DEF UsPublicationAgrees
<1> QED
  BY <1>1, UsInvariant, PTL

-----------------------------------------------------------------------------
(* The US screening implements the dated results.                          *)

\* A result is its last input after what was recorded on the day before, or is
\* that input alone.
LEMMA ResultExtendsDayBefore ==
  ASSUME UsInv, NEW d \in UsDays, usResult[d] # Blank
  PROVE  usResult[d] = IF d - 1 \in RecordedDays THEN Append(usResult[d - 1], OwnSource(usResult[d]))
                       ELSE <<OwnSource(usResult[d])>>
<1>0. PICK r : r = usResult[d]
  OBVIOUS
<1>1. /\ r \in UsResultSeqs /\ r # Blank /\ Continued(r) /\ OwnSource(r) = Source(d, usManifest[d])
  BY <1>0 DEF UsInv, RecordsInv
<1>2. OwnSource(r).date = d /\ d \in Nat /\ d >= 1
  BY <1>1, UsDaysTyped DEF Source
<1>3. Len(r) \in Nat /\ Len(r) >= 1 /\ \A i \in 1 .. Len(r) : r[i] \in UsSources
  BY <1>1, ResultTyped
<1>4. CASE Len(r) = 1
  <2>1. d - 1 \notin RecordedDays
    BY <1>1, <1>2, <1>4, UsDaysTyped DEF Continued, RecordedDays
  <2>2. r = <<r[1]>>
    BY <1>1, <1>4 DEF UsResultSeqs
  <2> QED
    BY <1>0, <1>4, <2>1, <2>2 DEF OwnSource
<1>5. CASE Len(r) # 1
  <2>1. PICK k \in Nat : k = Len(r) - 1
    BY <1>3
  <2>2. k \in 1 .. Len(r) - 1 /\ k \in 1 .. Len(r) /\ Len(r) = k + 1
    BY <1>3, <1>5, <2>1
  <2>3. PICK v : v = SubSeq(r, 1, k)
    OBVIOUS
  <2>4. /\ v \in UsResultSeqs /\ Len(v) = k /\ v # Blank
        /\ \A i \in 1 .. k : v[i] = r[i]
    BY <1>1, <2>2, <2>3, Parts1 DEF UsResultSeqs, Blank
  <2>5. r[k].date = d - (Len(r) - k) /\ Recorded(v)
    BY <1>1, <1>2, <2>2, <2>3 DEF Continued
  <2>6. OwnSource(v) = r[k] /\ r[k].date = d - 1
    BY <1>2, <1>3, <2>2, <2>4, <2>5 DEF OwnSource
  <2>7. d - 1 \in UsDays /\ usHistory[d - 1] # Blank /\ usResult[d - 1] = v
    BY <2>4, <2>5, <2>6, ResultTyped DEF Recorded
  <2>8. d - 1 \in RecordedDays
    BY <2>7 DEF RecordedDays
  <2>9. r = Append(v, r[Len(r)])
    <3>1. r[Len(r)] \in UsSources
      BY <1>3
    <3>2. PICK w : w = Append(v, r[Len(r)])
      OBVIOUS
    <3>3. /\ w \in UsResultSeqs /\ Len(w) = Len(r)
          /\ \A i \in 1 .. k : w[i] = v[i]
          /\ w[Len(r)] = r[Len(r)]
      BY <2>2, <2>4, <3>1, <3>2, AppendProperties DEF UsResultSeqs
    <3>4. \A i \in 1 .. Len(r) : w[i] = r[i]
      BY <2>2, <2>4, <3>3
    <3> QED
      BY <1>1, <3>2, <3>3, <3>4, SeqEqual DEF UsResultSeqs
  <2> QED
    BY <1>0, <2>7, <2>8, <2>9 DEF OwnSource
<1> QED
  BY <1>4, <1>5

LEMMA DatedKnows ==
  ASSUME UsInv
  PROVE  Dated!Known = RecordedDays /\ \A d \in RecordedDays : RecordedResults[d] = usResult[d]
BY DEF Dated!Known, RecordedResults, RecordedDays, UsInv, RecordsInv

\* What the page steps and the commit of a correction leave.
LEMMA RecordsSeenAlike ==
  ASSUME UNCHANGED usRecords
  PROVE  RecordedResults' = RecordedResults
BY DEF usRecords, RecordedResults

\* InsertHistory makes a result count.
LEMMA InsertRecords ==
  ASSUME UsInv, InsertHistory
  PROVE  Dated!Next
<1>0. PICK d, r : d = usRun.source.date /\ r = usRun.result
  OBVIOUS
<1>1. /\ usRun.pc = "history" /\ usHistory[d] = Blank
      /\ usHistory' = [usHistory EXCEPT ![d] = usRun.source.hash]
      /\ UNCHANGED <<usResult, usPages>>
  BY <1>0 DEF InsertHistory, UsRunAt
<1>2. /\ d \in UsDays /\ usRun.source \in UsSources /\ usRun.source.hash \in Hashes
      /\ r # Blank /\ OwnSource(r) = usRun.source /\ NothingAfter(d) /\ usResult[d] = r
  BY <1>0, <1>1, UsRunOf DEF ScreeningRelies
<1>3. PICK h \in Hashes : h = usRun.source.hash
  BY <1>2
<1>4. usRun.source = [date |-> d, hash |-> h] /\ h # Blank
  BY <1>0, <1>2, <1>3, UsScreeningAssumption DEF UsSources
<1>5. \A e \in RecordedDays : e < d
  BY <1>1, <1>2, UsDaysTyped DEF RecordedDays, NothingAfter, UsInv, RecordsInv
<1>6. r = Dated!Continued(d, [date |-> d, hash |-> h])
  BY <1>2, <1>4, ResultExtendsDayBefore, DatedKnows DEF Dated!Continued
<1>7. RecordedResults' = [RecordedResults EXCEPT ![d] = r]
  <2>1. usHistory'[d] # Blank /\ \A e \in UsDays : e # d => usHistory'[e] = usHistory[e]
    BY <1>1, <1>2, <1>3, <1>4 DEF UsInv, RecordsInv, MaybeHashes
  <2> QED
    BY <1>1, <1>2, <2>1 DEF RecordedResults
<1>8. UNCHANGED <<PublishedPages, pointer>>
  BY <1>1 DEF usPages, PublishedPages
<1>9. Dated!Record(d, h)
  BY <1>5, <1>6, <1>7, <1>8, DatedKnows DEF Dated!Record
<1> QED
  BY <1>2, <1>9 DEF Dated!Next

LEMMA NewestIs ==
  ASSUME UsInv, NEW d \in RecordedDays, \A e \in RecordedDays : e <= d
  PROVE  d \in UsDays /\ Dated!IsNewest(d) /\ RecordedResults[d] = usResult[d]
BY DatedKnows DEF Dated!IsNewest, RecordedDays

\* The run's result, when it is put on a page, is the newest one recorded.
LEMMA RunShowsNewest ==
  ASSUME UsInv, usRun.pc \in {"latest", "view"}
  PROVE  \E d \in UsDays : Dated!IsNewest(d) /\ RecordedResults[d] = usRun.result
<1>0. PICK d, r : d = usRun.source.date /\ r = usRun.result
  OBVIOUS
<1>1. /\ d \in UsDays /\ usRun.source.hash \in Hashes /\ OwnSource(r) = usRun.source
      /\ NothingAfter(d) /\ Recorded(r)
  BY <1>0, UsRunOf DEF ScreeningRelies
<1>2. usResult[d] = r /\ usHistory[d] = usRun.source.hash
  BY <1>0, <1>1 DEF Recorded
<1>3. d \in RecordedDays /\ \A e \in RecordedDays : e <= d
  BY <1>1, <1>2, UsScreeningAssumption DEF RecordedDays, NothingAfter, UsInv, RecordsInv
<1> QED
  BY <1>0, <1>1, <1>2, <1>3, NewestIs

LEMMA PutsShow ==
  ASSUME UsInv, PutUsLatest \/ PutView
  PROVE  Dated!Next
<1>1. usRun.pc \in {"latest", "view"} /\ UNCHANGED <<usRecords, pointer>>
  BY DEF PutUsLatest, PutView, UsRunAt
<1>2. PICK d \in UsDays : Dated!IsNewest(d) /\ RecordedResults[d] = usRun.result
  BY <1>1, RunShowsNewest
<1>3. \E p \in {"latest", "view"} : PublishedPages' = [PublishedPages EXCEPT ![p] = usRun.result]
  <2>1. CASE PutUsLatest
    <3>1. PublishedPages' = [PublishedPages EXCEPT !["latest"] = usRun.result]
      BY <2>1 DEF PutUsLatest, PublishedPages
    <3> QED
      BY <3>1
  <2>2. CASE PutView
    <3>1. PublishedPages' = [PublishedPages EXCEPT !["view"] = usRun.result]
      BY <2>2 DEF PutView, PublishedPages
    <3> QED
      BY <3>1
  <2> QED
    BY <2>1, <2>2
<1>4. \E p \in {"latest", "view"} : Dated!Show(d, p)
  BY <1>1, <1>2, <1>3, RecordsSeenAlike DEF Dated!Show
<1> QED
  BY <1>4 DEF Dated!Next

-----------------------------------------------------------------------------
(* A correction in progress is still later than the published one, and its *)
(* original, once rechecked, still the newest recorded day.                *)

StillNewest(source) ==
  /\ usHistory[source.date] = source.hash
  /\ \A e \in RecordedDays : e <= source.date

CorrectionInv ==
  usRun.pc \in {"bundle", "recheck", "pointer"} =>
    /\ NotStale(usRun.source, usRun.revision) /\ PredecessorRecorded(usRun.source.date)
    /\ usRun.pc = "pointer" => StillNewest(usRun.source)

LEMMA RunAloneCorrects ==
  ASSUME CorrectionInv, UNCHANGED <<usRecords, usRun, pointer>>
  PROVE  CorrectionInv'
BY DEF CorrectionInv, NotStale, PredecessorRecorded, StillNewest, RecordedDays, usRecords

LEMMA RevisionStays ==
  ASSUME UsInv, CorrectionInv, PutBundle \/ Recheck
  PROVE  CorrectionInv'
<1>1. UNCHANGED <<usRecords, pointer>> /\ UNCHANGED <<usManifest, usResult, usHistory>>
  BY DEF PutBundle, Recheck, usPages, usRecords
<1>2. usRun \in RevisionRuns /\ usRun.pc \in {"bundle", "recheck"}
  BY UsRevisionRun DEF PutBundle, Recheck, UsRunAt
<1>3. PICK source, n : source = usRun.source /\ n = usRun.revision
  OBVIOUS
<1>4. /\ usRun'.source = source /\ usRun'.revision = n
      /\ PutBundle => usRun'.pc = "recheck"
  BY <1>2, <1>3 DEF PutBundle, Recheck, UsRunTo, RevisionRuns
<1>5. NotStale(source, n) /\ PredecessorRecorded(source.date)
  BY <1>2, <1>3 DEF CorrectionInv
<1>6. Recheck => StillNewest(source)
  BY <1>3, LastRecordedDay DEF Recheck, OriginalIs, StillNewest
<1>7. NotStale(source, n)' /\ PredecessorRecorded(source.date)' /\ (Recheck => StillNewest(source)')
  BY <1>1, <1>5, <1>6 DEF NotStale, PredecessorRecorded, StillNewest, RecordedDays
<1>8. usRun'.pc = "pointer" => Recheck
  BY <1>4 DEF Recheck
<1> QED
  BY <1>4, <1>7, <1>8 DEF CorrectionInv, NotStale, PredecessorRecorded, StillNewest

LEMMA CorrectionStep ==
  ASSUME UsInv, CorrectionInv, [UsNext]_usVars
  PROVE  CorrectionInv'
<1>1. CASE UNCHANGED <<usRecords, usRun, pointer>>
  BY <1>1, RunAloneCorrects
<1>2. CASE usRun'.pc \notin {"bundle", "recheck", "pointer"}
  BY <1>2 DEF CorrectionInv
<1>3. CASE PutBundle \/ Recheck
  BY <1>3, RevisionStays
<1>4. ASSUME NEW n \in Revisions, StartRevision(n)
      PROVE  CorrectionInv'
  <2>1. /\ usRun' = [pc |-> "bundle", source |-> ingest, revision |-> n, prior |-> pointer]
        /\ NotStale(ingest, n) /\ PredecessorRecorded(ingest.date)
        /\ UNCHANGED <<ingest, usRecords, usPages>>
    BY <1>4 DEF StartRevision
  <2>2. usRun'.pc = "bundle" /\ usRun'.source = ingest /\ usRun'.revision = n
    BY <2>1
  <2>3. NotStale(ingest, n)' /\ PredecessorRecorded(ingest.date)'
    BY <2>1 DEF NotStale, PredecessorRecorded, usRecords, usPages
  <2> QED
    BY <2>1, <2>2, <2>3 DEF CorrectionInv, NotStale, PredecessorRecorded
<1>5. CASE PutManifest \/ PutResult \/ InsertHistory \/ PutUsLatest \/ PutView
  <2>1. usRun \in ScreeningRuns
    BY <1>5, UsRunOf DEF PutManifest, PutResult, InsertHistory, PutUsLatest, PutView, UsRunAt
  <2>2. PutManifest \/ InsertHistory \/ PutUsLatest => usRun'.pc \in {"result", "latest", "view"}
    BY <2>1 DEF PutManifest, InsertHistory, PutUsLatest, UsRunTo, ScreeningRuns
  <2>3. PutResult => usRun'.pc = "history"
    BY <2>1 DEF PutResult, ScreeningRuns
  <2>4. PutView => usRun'.pc = "idle"
    BY DEF PutView, NoUsRun
  <2> QED
    BY <1>2, <1>5, <2>2, <2>3, <2>4
<1>6. CASE StartUsRun \/ UsRunFails \/ PutPointer
  <2>1. usRun'.pc \in {"idle", "latest", "manifest"}
    BY <1>6 DEF StartUsRun, UsRunFails, PutPointer, NoUsRun
  <2> QED
    BY <1>2, <2>1
<1>7. ASSUME NEW d \in UsDays, NEW h \in Hashes, Collect(d, h)
      PROVE  CorrectionInv'
  BY <1>1, <1>7 DEF Collect, usPages
<1>8. ASSUME NEW b \in UsReaders, OpenUs(b) \/ ReadPointer(b) \/ ReadBundle(b)
      PROVE  CorrectionInv'
  BY <1>1, <1>8 DEF OpenUs, ReadPointer, ReadBundle, UsStays, usPages
<1>9. CASE UNCHANGED usVars
  BY <1>1, <1>9 DEF usVars, usPages
<1> QED
  BY <1>3, <1>4, <1>5, <1>6, <1>7, <1>8, <1>9 DEF UsNext

\* The commit of a correction moves on from the one before it.
LEMMA PointerCorrects ==
  ASSUME UsInv, CorrectionInv, PutPointer
  PROVE  Dated!Next
<1>0. PICK source, n, d : source = usRun.source /\ n = usRun.revision /\ d = source.date
  OBVIOUS
<1>1. /\ usRun.pc = "pointer" /\ pointer' = RevisionPointer(source, n)
      /\ UNCHANGED <<usRecords, usLatest, usView>>
  BY <1>0 DEF PutPointer, UsRunAt
<1>2. usRun \in RevisionRuns /\ source \in UsSources /\ n \in Revisions
  BY <1>0, <1>1, UsRevisionRun DEF RevisionRuns
<1>3. d \in UsDays /\ source.hash \in Hashes /\ source.hash # Blank
  BY <1>0, <1>2, UsScreeningAssumption DEF UsSources
<1>4. NotStale(source, n) /\ PredecessorRecorded(d) /\ StillNewest(source)
  BY <1>0, <1>1 DEF CorrectionInv
<1>5. d \in RecordedDays /\ \A e \in RecordedDays : e <= d
  BY <1>0, <1>3, <1>4 DEF StillNewest, RecordedDays
<1>6. Dated!IsNewest(d) /\ RecordedResults[d] = usResult[d]
  BY <1>5, NewestIs
<1>7. OwnSource(usResult[d]).hash = source.hash
  BY <1>0, <1>4, <1>5 DEF UsInv, RecordsInv, StillNewest, Source, RecordedDays
<1>8. d - 1 \in UsDays => d - 1 \in Dated!Known
  BY <1>3, <1>4, DatedKnows, UsDaysTyped DEF PredecessorRecorded, RecordedDays
<1>9. pointer' = [date |-> d, original |-> Dated!Own(RecordedResults[d]).hash, revision |-> n]
  BY <1>0, <1>1, <1>6, <1>7 DEF RevisionPointer, Dated!Own, OwnSource
<1>10. pointer # Blank => pointer.date < d \/ (pointer.date = d /\ pointer.revision < n)
  BY <1>0, <1>4 DEF NotStale
<1>11. UNCHANGED <<RecordedResults, PublishedPages>>
  BY <1>1, RecordsSeenAlike DEF PublishedPages
<1>12. Dated!Correct(d, n)
  BY <1>6, <1>8, <1>9, <1>10, <1>11 DEF Dated!Correct
<1> QED
  BY <1>2, <1>3, <1>12 DEF Dated!Next

LEMMA UsImplements ==
  ASSUME UsInv, CorrectionInv, [UsNext]_usVars
  PROVE  Dated!Next
<1>1. CASE UNCHANGED <<usResult, usHistory, usLatest, usView, pointer>>
  BY <1>1 DEF Dated!Next, Dated!Idle, RecordedResults, PublishedPages
<1>2. CASE InsertHistory \/ PutUsLatest \/ PutView \/ PutPointer
  BY <1>2, InsertRecords, PutsShow, PointerCorrects
<1>3. CASE PutResult
  <2>1. UsInv'
    BY UsStep
  <2>2. usHistory[usRun.source.date] = Blank /\ usRun.pc = "result"
    BY <1>3, UsRunOf DEF PutResult, UsRunAt, ScreeningRelies
  <2>3. RecordedResults' = RecordedResults
    BY <1>3, <2>2 DEF PutResult, RecordedResults, UsInv, RecordsInv
  <2> QED
    BY <1>3, <2>3 DEF PutResult, usPages, Dated!Next, Dated!Idle, PublishedPages
<1>4. CASE ~(InsertHistory \/ PutUsLatest \/ PutView \/ PutPointer \/ PutResult)
  <2>1. UNCHANGED <<usResult, usHistory, usLatest, usView, pointer>>
    BY <1>4 DEF UsNext, Collect, StartUsRun, StartRevision, UsRunFails, PutManifest, PutBundle, Recheck,
         OpenUs, ReadPointer, ReadBundle, UsStays, usVars, usRecords, usPages
  <2> QED
    BY <1>1, <2>1
<1> QED
  BY <1>2, <1>3, <1>4

\* Runs of the screening and of its corrections that die anywhere, start over
\* and find the ingest replaced record each day once and after the day before,
\* show the newest recorded day only, and correct it only forward: they
\* implement the dated results, for any sessions, hashes and pages.
THEOREM UsImplementsDatedResults == UsSpec => ImplementsDatedResults
<1>1. UsInit => Dated!Init
  BY DEF UsInit, Dated!Init, RecordedResults, PublishedPages
<1>2. UsInit => CorrectionInv
  BY DEF UsInit, CorrectionInv, NoUsRun
<1>3. UsSpec => [](UsInv /\ CorrectionInv)
  BY <1>2, UsInitial, UsStep, CorrectionStep, PTL DEF UsSpec
<1>4. UsInv /\ CorrectionInv /\ [UsNext]_usVars
        => [Dated!Next]_<<RecordedResults, PublishedPages, pointer>>
  BY UsImplements
<1> QED
  BY <1>1, <1>3, <1>4, PTL DEF UsSpec, ImplementsDatedResults, Dated!Spec

-----------------------------------------------------------------------------
(* The KOSPI model book: the inductive invariant.                          *)

\* A stock has one position, within both caps.
OnePerStock(ps) == \A p, q \in ps : p.symbol = q.symbol => p = q
WithinCaps(stocks) ==
  /\ Cardinality(stocks) <= Slots
  /\ \A s \in stocks : Cardinality(InSector(stocks, s)) <= MaxPerSector

\* A position has the number of sessions it was held for, at most.
PositionsInv ==
  /\ positions \subseteq Positions /\ OnePerStock(positions) /\ WithinCaps(StocksOf(positions))
  /\ \A p \in positions : p.entry <= bookDay /\ p.held <= bookDay - p.entry + 1

\* An order is of the position that is held now.
ToExit(p) == Expired(p) \/ CrossedSince(p.symbol, p.entry, bookDay)
ExitOrdersInv == pendingExits = StocksOf({p \in positions : ToExit(p)})

CrossingsInv ==
  crossings \subseteq [symbol : Stocks, day : BookDays] /\ \A x \in crossings : x.day <= bookDay

\* What is still to be bought: confirmed after its onset, the last session in
\* the published series, and not seen crossing since.
EntriesInv ==
  /\ pendingEntries \subseteq Entries /\ IsFiniteSet(pendingEntries)
  /\ \A c \in pendingEntries :
       /\ c.confirmed = c.origin + 1 /\ c.confirmed <= bookDay
       /\ ~unified => c.confirmed = bookDay
       /\ ~CrossedSince(c.symbol, c.confirmed, bookDay)
       /\ \A f \in fills : ~(f.symbol = c.symbol /\ f.origin = c.origin)

AwaitingInv ==
  /\ awaiting \subseteq Onsetters /\ IsFiniteSet(awaiting)
  /\ \A a \in awaiting : a.origin = bookDay

FillInv(f) ==
  /\ f.confirmed = f.origin + 1 /\ f.confirmed < f.entry /\ f.entry <= bookDay
  /\ ~unified => f.entry = f.confirmed + 1
  /\ ~CrossedSince(f.symbol, f.confirmed, f.entry - 1)
FillsInv ==
  /\ fills \subseteq Positions
  /\ \A f \in fills : FillInv(f)
  /\ \A f, g \in fills : f.symbol = g.symbol /\ f.origin = g.origin => f = g

BookInv ==
  /\ unified \in BOOLEAN /\ bookDay \in 0 .. LastBookDay /\ previousRows \in Tables
  /\ PositionsInv /\ ExitOrdersInv /\ CrossingsInv /\ EntriesInv /\ AwaitingInv /\ FillsInv

LEMMA BookAssumed ==
  /\ IsFiniteSet(Stocks) /\ Slots \in Nat /\ MaxPerSector \in Nat
  /\ MaxHoldingSessions \in Nat /\ MaxHoldingSessions > 0 /\ LastBookDay \in Nat
  /\ BookDays = 1 .. LastBookDay
  BY KospiBookAssumption DEF BookDays

\* The stocks of a set of entries or positions.
LEMMA StocksCounted ==
  ASSUME NEW S, IsFiniteSet(S)
  PROVE  Cardinality(StocksOf(S)) = Cardinality(S) <=> OnePerStock(S)
<1> DEFINE f == [e \in S |-> e.symbol]
<1>1. f \in Surjection(S, StocksOf(S))
  BY DEF Surjection, StocksOf
<1>2. Cardinality(StocksOf(S)) = Cardinality(S) <=> f \in Injection(S, StocksOf(S))
  BY <1>1, FS_Surjection
<1>3. f \in Injection(S, StocksOf(S)) <=> OnePerStock(S)
  BY <1>1 DEF Injection, IsInjective, Surjection, OnePerStock
<1> QED
  BY <1>2, <1>3

LEMMA OnePerStockFinite ==
  ASSUME NEW S, OnePerStock(S), \A e \in S : e.symbol \in Stocks
  PROVE  IsFiniteSet(S)
<1> DEFINE f == [e \in S |-> e.symbol]
<1>1. f \in Injection(S, Stocks)
  BY DEF Injection, IsInjective, OnePerStock
<1> QED
  BY <1>1, FS_Injection, BookAssumed

LEMMA CapsOfFewer ==
  ASSUME NEW S, NEW T, S \subseteq T, T \subseteq Stocks, WithinCaps(T)
  PROVE  WithinCaps(S)
<1>1. IsFiniteSet(T) /\ \A s : IsFiniteSet(InSector(T, s)) /\ IsFiniteSet(InSector(S, s))
  <2>1. \A s : InSector(T, s) \subseteq Stocks /\ InSector(S, s) \subseteq Stocks
    BY DEF InSector
  <2> QED
    BY <2>1, BookAssumed, FS_Subset
<1>2. Cardinality(S) <= Cardinality(T) /\ Cardinality(S) \in Nat /\ Cardinality(T) \in Nat
  BY <1>1, FS_Subset, FS_CardinalityType
<1>3. \A s : /\ Cardinality(InSector(S, s)) <= Cardinality(InSector(T, s))
             /\ Cardinality(InSector(S, s)) \in Nat /\ Cardinality(InSector(T, s)) \in Nat
  <2>1. \A s : InSector(S, s) \in SUBSET InSector(T, s)
    BY DEF InSector
  <2> QED
    BY <1>1, <2>1, FS_Subset, FS_CardinalityType
<1> QED
  BY <1>2, <1>3, BookAssumed DEF WithinCaps

LEMMA MoreHeld ==
  ASSUME NEW p \in Positions, NEW rows
  PROVE  LET q == HeldOneMore(p, rows) IN
         /\ q.symbol = p.symbol /\ q.origin = p.origin /\ q.confirmed = p.confirmed
         /\ q.entry = p.entry /\ q.held \in {p.held, p.held + 1}
         /\ q = [symbol |-> p.symbol, origin |-> p.origin, confirmed |-> p.confirmed,
                 entry |-> p.entry, held |-> q.held]
         /\ ~unified /\ ~rows[p.symbol].close => q = p
<1>1. p = [symbol |-> p.symbol, origin |-> p.origin, confirmed |-> p.confirmed,
           entry |-> p.entry, held |-> p.held]
  BY DEF Positions
<1>2. [p EXCEPT !.held = @ + 1] =
        [symbol |-> p.symbol, origin |-> p.origin, confirmed |-> p.confirmed,
         entry |-> p.entry, held |-> p.held + 1]
  BY <1>1
<1> QED
  BY <1>1, <1>2 DEF HeldOneMore

LEMMA BoughtIs ==
  ASSUME NEW c
  PROVE  /\ Bought(c).symbol = c.symbol /\ Bought(c).origin = c.origin
         /\ Bought(c).confirmed = c.confirmed /\ Bought(c).entry = bookDay + 1 /\ Bought(c).held = 0
  BY DEF Bought

-----------------------------------------------------------------------------
(* One session of the book.                                                *)

\* What the open leaves: what was not sold and what was bought.
KeptBy(bought, rows) == AfterExits(rows) \cup {Bought(c) : c \in bought}

LEMMA KeptStocks ==
  ASSUME NEW bought, NEW rows
  PROVE  StocksOf(KeptBy(bought, rows)) = StocksOf(AfterExits(rows)) \cup StocksOf(bought)
<1>1. \A c : Bought(c).symbol = c.symbol
  BY BoughtIs
<1> QED
  BY <1>1 DEF StocksOf, KeptBy

LEMMA OpenPageKeeps ==
  ASSUME BookInv, bookDay < LastBookDay, NEW rows, NEW bought \in SUBSET pendingEntries,
         MayBuy(bought, AfterExits(rows), rows)
  PROVE  LET kept == KeptBy(bought, rows) IN
         /\ kept \subseteq Positions /\ OnePerStock(kept) /\ WithinCaps(StocksOf(kept))
         /\ OnePerStock(bought)
         /\ \A q \in kept : q.entry <= bookDay + 1 /\ q.held <= bookDay + 1 - q.entry
<1> DEFINE sold == AfterExits(rows)
           new == {Bought(c) : c \in bought}
           kept == sold \cup new
<1>1. sold \subseteq positions /\ kept = KeptBy(bought, rows)
  BY DEF AfterExits, KeptBy
<1>2. /\ positions \subseteq Positions /\ OnePerStock(positions) /\ WithinCaps(StocksOf(positions))
      /\ \A p \in positions : p.entry <= bookDay /\ p.held <= bookDay - p.entry + 1
      /\ pendingEntries \subseteq Entries /\ IsFiniteSet(pendingEntries)
      /\ bookDay \in Nat /\ bookDay + 1 \in BookDays
  BY BookAssumed DEF BookInv, PositionsInv, EntriesInv
<1>3. /\ Cardinality(StocksOf(bought)) = Cardinality(bought)
      /\ StocksOf(bought) \cap StocksOf(sold) = {}
      /\ Cardinality(StocksOf(sold) \cup StocksOf(bought)) <= Slots
      /\ \A s \in StocksOf(bought) :
           Cardinality(InSector(StocksOf(sold) \cup StocksOf(bought), s)) <= MaxPerSector
  BY DEF MayBuy
<1>4. OnePerStock(bought)
  BY <1>2, <1>3, FS_Subset, StocksCounted
<1>5. \A c \in bought : /\ c \in Entries /\ Bought(c) \in Positions /\ Bought(c).symbol = c.symbol
                        /\ Bought(c).entry = bookDay + 1 /\ Bought(c).held = 0
  <2>1. \A c \in bought : c \in Entries
    BY <1>2
  <2> QED
    BY <1>2, <2>1, BoughtIs, BookAssumed DEF Entries, Positions, Bought
<1>6. StocksOf(kept) = StocksOf(sold) \cup StocksOf(bought)
  BY <1>1, KeptStocks
<1>7. kept \subseteq Positions
  BY <1>1, <1>2, <1>5
<1>8. \A q \in kept : q.entry <= bookDay + 1 /\ q.held <= bookDay + 1 - q.entry
  <2>1. \A q \in sold : q.entry <= bookDay + 1 /\ q.held <= bookDay + 1 - q.entry
    <3>1. \A q \in sold : q.entry <= bookDay /\ q.held <= bookDay - q.entry + 1
                          /\ q.entry \in Nat /\ q.held \in Nat
      BY <1>1, <1>2, BookAssumed DEF Positions
    <3> QED
      BY <1>2, <3>1
  <2>2. \A q \in new : q.entry <= bookDay + 1 /\ q.held <= bookDay + 1 - q.entry
    BY <1>2, <1>5
  <2> QED
    BY <2>1, <2>2
<1>9. OnePerStock(kept)
  <2> SUFFICES ASSUME NEW p \in kept, NEW q \in kept, p.symbol = q.symbol
               PROVE  p = q
    BY DEF OnePerStock
  <2>1. CASE p \in sold /\ q \in sold
    BY <1>1, <1>2, <2>1 DEF OnePerStock
  <2>2. CASE p \in new /\ q \in new
    BY <1>4, <1>5, <2>2 DEF OnePerStock
  <2>3. \A r \in sold, n \in new : r.symbol # n.symbol
    BY <1>3, <1>5 DEF StocksOf
  <2> QED
    BY <2>1, <2>2, <2>3
<1>10. WithinCaps(StocksOf(kept))
  <2> SUFFICES ASSUME NEW s \in StocksOf(kept)
               PROVE  Cardinality(InSector(StocksOf(kept), s)) <= MaxPerSector
    BY <1>3, <1>6 DEF WithinCaps
  <2>1. CASE \E t \in StocksOf(bought) : SectorOf[t] = SectorOf[s]
    <3>1. PICK t \in StocksOf(bought) : SectorOf[t] = SectorOf[s]
      BY <2>1
    <3>2. InSector(StocksOf(kept), s) = InSector(StocksOf(kept), t)
      BY <3>1 DEF InSector
    <3> QED
      BY <1>3, <1>6, <3>1, <3>2
  <2>2. CASE \A t \in StocksOf(bought) : SectorOf[t] # SectorOf[s]
    <3>1. s \in StocksOf(sold) /\ InSector(StocksOf(kept), s) = InSector(StocksOf(sold), s)
      BY <1>6, <2>2 DEF InSector
    <3>2. StocksOf(sold) \subseteq StocksOf(positions) /\ StocksOf(positions) \subseteq Stocks
      BY <1>1, <1>2 DEF StocksOf, Positions
    <3>3. WithinCaps(StocksOf(sold))
      BY <1>2, <3>2, CapsOfFewer
    <3> QED
      BY <3>1, <3>3 DEF WithinCaps
  <2> QED
    BY <2>1, <2>2
<1> QED
  BY <1>1, <1>4, <1>7, <1>8, <1>9, <1>10

LEMMA CloseKeeps ==
  ASSUME BookInv, bookDay < LastBookDay, NEW rows, NEW bought \in SUBSET pendingEntries,
         MayBuy(bought, AfterExits(rows), rows)
  PROVE  LET closed == AfterClose(KeptBy(bought, rows), rows) IN
         /\ \A p \in closed : \E q \in KeptBy(bought, rows) : p = HeldOneMore(q, rows)
         /\ closed \subseteq Positions /\ OnePerStock(closed) /\ WithinCaps(StocksOf(closed))
         /\ \A p \in closed : p.entry <= bookDay + 1 /\ p.held <= bookDay + 1 - p.entry + 1
<1> DEFINE kept == KeptBy(bought, rows)
           closed == AfterClose(kept, rows)
<1>1. /\ kept \subseteq Positions /\ OnePerStock(kept) /\ WithinCaps(StocksOf(kept))
      /\ \A q \in kept : q.entry <= bookDay + 1 /\ q.held <= bookDay + 1 - q.entry
  BY OpenPageKeeps
<1>2. \A p \in closed : \E q \in kept : p = HeldOneMore(q, rows)
  BY DEF AfterClose
<1> HIDE DEF kept, closed
<1>3. bookDay \in Nat /\ bookDay + 1 <= LastBookDay
  BY BookAssumed DEF BookInv
<1>4. ASSUME NEW p \in closed
      PROVE  /\ p \in Positions /\ p.symbol \in StocksOf(kept)
             /\ p.entry <= bookDay + 1 /\ p.held <= bookDay + 1 - p.entry + 1
  <2>1. PICK q \in kept : p = HeldOneMore(q, rows)
    BY <1>2
  <2>2. /\ q \in Positions /\ q.symbol \in Stocks /\ q.origin \in BookDays /\ q.confirmed \in BookDays
        /\ q.entry \in 1 .. LastBookDay /\ q.entry \in BookDays /\ q.held \in Nat
        /\ q.entry <= bookDay + 1 /\ q.held <= bookDay + 1 - q.entry
    BY <1>1, <2>1, BookAssumed DEF Positions
  <2>3. /\ p.symbol = q.symbol /\ p.entry = q.entry /\ p.held \in {q.held, q.held + 1}
        /\ p = [symbol |-> q.symbol, origin |-> q.origin, confirmed |-> q.confirmed,
                entry |-> q.entry, held |-> p.held]
    BY <2>1, <2>2, MoreHeld
  <2>4. p.held \in 0 .. LastBookDay /\ p.held <= bookDay + 1 - p.entry + 1
    BY <1>3, <2>2, <2>3, BookAssumed
  <2>5. p \in Positions
    BY <2>2, <2>3, <2>4 DEF Positions
  <2> QED
    BY <2>1, <2>2, <2>3, <2>4, <2>5 DEF StocksOf
<1>5. OnePerStock(closed)
  <2> SUFFICES ASSUME NEW p \in closed, NEW r \in closed, p.symbol = r.symbol
               PROVE  p = r
    BY DEF OnePerStock
  <2>1. PICK q \in kept : p = HeldOneMore(q, rows)
    BY <1>2
  <2>2. PICK u \in kept : r = HeldOneMore(u, rows)
    BY <1>2
  <2>3. q.symbol = p.symbol /\ u.symbol = r.symbol
    BY <1>1, <2>1, <2>2, MoreHeld
  <2> QED
    BY <1>1, <2>1, <2>2, <2>3 DEF OnePerStock
<1>6. WithinCaps(StocksOf(closed))
  <2>1. StocksOf(closed) \subseteq StocksOf(kept) /\ StocksOf(kept) \subseteq Stocks
    BY <1>1, <1>4 DEF StocksOf, Positions
  <2> QED
    BY <1>1, <2>1, CapsOfFewer
<1> QED
  BY <1>2, <1>4, <1>5, <1>6 DEF kept, closed

\* What a session changes, in one place.
LEMMA SessionIs ==
  ASSUME BookInv, bookDay < LastBookDay, NEW rows \in Tables, NEW bought \in SUBSET pendingEntries,
         NEW onsets, Session(rows, onsets, bought)
  PROVE  LET kept == KeptBy(bought, rows)
             closed == AfterClose(kept, rows) IN
         /\ MayBuy(bought, AfterExits(rows), rows)
         /\ bookDay' = bookDay + 1 /\ positions' = closed
         /\ fills' = fills \cup {Bought(c) : c \in bought}
         /\ pendingExits' = OrdersAfter(AfterExits(rows), closed, rows)
         /\ pendingEntries' = Carried(kept, rows) \cup Confirmed(rows)
         /\ awaiting' = onsets /\ previousRows' = rows /\ unified' = unified
         /\ crossings' = crossings \cup
              {[symbol |-> s, day |-> bookDay + 1] :
                 s \in {t \in Stocks : CrossesUp95(previousRows[t], rows[t])}}
         /\ bookDay \in Nat /\ bookDay + 1 \in BookDays
  BY BookAssumed DEF Session, KeptBy, BookInv

\* A crossing seen today is the only news about crossings.
LEMMA CrossingsNext ==
  ASSUME BookInv, bookDay < LastBookDay, NEW rows \in Tables, NEW bought \in SUBSET pendingEntries,
         NEW onsets, Session(rows, onsets, bought)
  PROVE  /\ CrossingsInv'
         /\ \A s \in Stocks, first \in Nat : first <= bookDay + 1 =>
              (CrossedSince(s, first, bookDay)' <=>
                 CrossedSince(s, first, bookDay) \/ CrossesUp95(previousRows[s], rows[s]))
         /\ \A s : \A first, last \in Nat : last <= bookDay =>
              (CrossedSince(s, first, last)' <=> CrossedSince(s, first, last))
         /\ \A s : ~CrossedSince(s, bookDay + 1, bookDay)
<1> DEFINE today == {[symbol |-> s, day |-> bookDay + 1] :
                       s \in {t \in Stocks : CrossesUp95(previousRows[t], rows[t])}}
<1>1. /\ bookDay' = bookDay + 1 /\ bookDay \in Nat /\ bookDay + 1 \in BookDays
      /\ crossings' = crossings \cup today
  BY SessionIs
<1>2. /\ crossings \subseteq [symbol : Stocks, day : BookDays]
      /\ \A x \in crossings : x.day <= bookDay /\ x.day \in Nat
  BY BookAssumed DEF BookInv, CrossingsInv
<1>3. /\ \A x \in today : /\ x \in [symbol : Stocks, day : BookDays] /\ x.day = bookDay + 1
                          /\ CrossesUp95(previousRows[x.symbol], rows[x.symbol])
      /\ \A s \in Stocks : CrossesUp95(previousRows[s], rows[s]) =>
           \E x \in today : x.symbol = s /\ x.day = bookDay + 1
  <2>1. ASSUME NEW x \in today
        PROVE  /\ x \in [symbol : Stocks, day : BookDays] /\ x.day = bookDay + 1
               /\ CrossesUp95(previousRows[x.symbol], rows[x.symbol])
    <3>1. PICK s \in Stocks : /\ CrossesUp95(previousRows[s], rows[s])
                              /\ x = [symbol |-> s, day |-> bookDay + 1]
      BY <2>1
    <3> QED
      BY <1>1, <3>1
  <2>2. ASSUME NEW s \in Stocks, CrossesUp95(previousRows[s], rows[s])
        PROVE  \E x \in today : x.symbol = s /\ x.day = bookDay + 1
    <3>1. [symbol |-> s, day |-> bookDay + 1] \in today
      BY <2>2
    <3> QED
      BY <3>1
  <2> QED
    BY <2>1, <2>2
<1> HIDE DEF today
<1>4. CrossingsInv'
  BY <1>1, <1>2, <1>3 DEF CrossingsInv
<1>5. ASSUME NEW s \in Stocks, NEW first \in Nat, first <= bookDay + 1
      PROVE  (\E x \in crossings' : x.symbol = s /\ x.day \in first .. bookDay + 1) <=>
               CrossedSince(s, first, bookDay) \/ CrossesUp95(previousRows[s], rows[s])
  <2>1. ASSUME NEW x \in crossings', x.symbol = s, x.day \in first .. bookDay + 1
        PROVE  CrossedSince(s, first, bookDay) \/ CrossesUp95(previousRows[s], rows[s])
    <3>1. CASE x \in today
      BY <1>3, <2>1, <3>1
    <3>2. CASE x \in crossings
      <4>1. x.day \in first .. bookDay
        BY <1>1, <1>2, <2>1, <3>2
      <4> QED
        BY <2>1, <3>2, <4>1 DEF CrossedSince
    <3> QED
      BY <1>1, <3>1, <3>2
  <2>2. ASSUME CrossedSince(s, first, bookDay)
        PROVE  \E x \in crossings' : x.symbol = s /\ x.day \in first .. bookDay + 1
    <3>1. PICK x \in crossings : x.symbol = s /\ x.day \in first .. bookDay
      BY <2>2 DEF CrossedSince
    <3>2. x.day \in first .. bookDay + 1 /\ x \in crossings'
      BY <1>1, <3>1
    <3> QED
      BY <3>1, <3>2
  <2>3. ASSUME CrossesUp95(previousRows[s], rows[s])
        PROVE  \E x \in crossings' : x.symbol = s /\ x.day \in first .. bookDay + 1
    <3>1. PICK x \in today : x.symbol = s /\ x.day = bookDay + 1
      BY <1>3, <2>3
    <3>2. x.day \in first .. bookDay + 1 /\ x \in crossings'
      BY <1>1, <1>5, <3>1
    <3> QED
      BY <3>1, <3>2
  <2> QED
    BY <2>1, <2>2, <2>3
<1>6. ASSUME NEW s \in Stocks, NEW first \in Nat, first <= bookDay + 1
      PROVE  CrossedSince(s, first, bookDay)' <=>
               CrossedSince(s, first, bookDay) \/ CrossesUp95(previousRows[s], rows[s])
  BY <1>1, <1>5, <1>6 DEF CrossedSince
<1>7. ASSUME NEW s, NEW first \in Nat, NEW last \in Nat, last <= bookDay
      PROVE  CrossedSince(s, first, last)' <=> CrossedSince(s, first, last)
  <2>1. \A x \in today : ~(x.day \in first .. last)
    BY <1>1, <1>3, <1>7
  <2> QED
    BY <1>1, <2>1 DEF CrossedSince
<1>8. \A s : ~CrossedSince(s, bookDay + 1, bookDay)
  BY <1>1, <1>2 DEF CrossedSince
<1> QED
  BY <1>4, <1>6, <1>7, <1>8

\* A position has an order exactly when it expired or its stock crossed since
\* it was bought: orders of a position that was sold are gone with it.
LEMMA OrdersKeep ==
  ASSUME BookInv, bookDay < LastBookDay, NEW rows \in Tables, NEW bought \in SUBSET pendingEntries,
         NEW onsets, Session(rows, onsets, bought)
  PROVE  ExitOrdersInv'
<1> DEFINE sold == AfterExits(rows)
           kept == KeptBy(bought, rows)
           closed == AfterClose(kept, rows)
           crosses(s) == CrossesUp95(previousRows[s], rows[s])
           due(p) == Expired(p) \/ CrossedSince(p.symbol, p.entry, bookDay) \/ crosses(p.symbol)
           again == {p \in closed : \/ Expired(p) /\ (unified \/ rows[p.symbol].close)
                                    \/ crosses(p.symbol)}
<1>1. /\ MayBuy(bought, sold, rows) /\ positions' = closed
      /\ pendingExits' = (pendingExits \cap StocksOf(sold) \cap StocksOf(closed)) \cup StocksOf(again)
      /\ bookDay \in Nat
  BY SessionIs DEF OrdersAfter, OrdersLeft
<1>2. /\ \A p \in closed : \E q \in kept : p = HeldOneMore(q, rows)
      /\ closed \subseteq Positions /\ OnePerStock(closed)
      /\ \A p \in closed : p.entry <= bookDay + 1
  BY <1>1, CloseKeeps
<1>3. kept \subseteq Positions /\ OnePerStock(kept)
  BY <1>1, OpenPageKeeps
<1>4. /\ sold \subseteq positions /\ sold \subseteq kept
      /\ \A q \in kept : q \in sold \/ (q.entry = bookDay + 1 /\ q.held = 0)
  BY BoughtIs DEF KeptBy, AfterExits
<1>5. /\ OnePerStock(positions) /\ positions \subseteq Positions
      /\ \A s : s \in pendingExits <=> \E q \in positions : q.symbol = s /\ ToExit(q)
  BY DEF BookInv, PositionsInv, ExitOrdersInv, StocksOf
<1>6. \A p \in closed : ToExit(p)' <=> due(p)
  <2> SUFFICES ASSUME NEW p \in closed PROVE ToExit(p)' <=> due(p)
    OBVIOUS
  <2>0. PICK x : x = p
    OBVIOUS
  <2>1. x.symbol \in Stocks /\ x.entry \in Nat /\ x.entry <= bookDay + 1
    BY <1>2, <2>0, BookAssumed DEF Positions
  <2>2. CrossedSince(x.symbol, x.entry, bookDay)' <=>
          CrossedSince(x.symbol, x.entry, bookDay) \/ crosses(x.symbol)
    BY <2>1, CrossingsNext
  <2> QED
    BY <2>0, <2>2 DEF ToExit, CrossedSince, Expired
<1> HIDE DEF sold, kept, closed
<1>7. ASSUME NEW p \in closed
      PROVE  p.symbol \in pendingExits' <=> due(p)
  <2>1. PICK q \in kept : p = HeldOneMore(q, rows)
    BY <1>2
  <2>2. /\ p.symbol = q.symbol /\ p.entry = q.entry /\ p.held \in {q.held, q.held + 1}
        /\ ~unified /\ ~rows[q.symbol].close => p = q
        /\ q \in Positions /\ q.held \in Nat /\ p.symbol \in StocksOf(closed)
    BY <1>3, <2>1, MoreHeld DEF StocksOf, Positions
  <2>3. Expired(q) => Expired(p)
    BY <2>2, BookAssumed DEF Expired
  <2>4. \A r \in closed : r.symbol = p.symbol => r = p
    BY <1>2 DEF OnePerStock
  <2>5. p.symbol \in StocksOf(again) <=>
          (Expired(p) /\ (unified \/ rows[p.symbol].close)) \/ crosses(p.symbol)
    BY <2>4 DEF StocksOf
  <2>6. CASE q \in sold
    <3>1. q \in positions /\ p.symbol \in StocksOf(sold)
      BY <1>4, <2>2, <2>6 DEF StocksOf
    <3>2. p.symbol \in pendingExits <=> ToExit(q)
      BY <1>5, <2>2, <3>1 DEF OnePerStock
    <3>3. p.symbol \in pendingExits' <=> ToExit(q) \/ p.symbol \in StocksOf(again)
      BY <1>1, <2>2, <3>1, <3>2
    <3>4. ToExit(q) <=> Expired(q) \/ CrossedSince(p.symbol, p.entry, bookDay)
      BY <2>2 DEF ToExit
    <3>5. CASE unified \/ rows[p.symbol].close
      BY <2>3, <2>5, <3>3, <3>4, <3>5
    <3>6. CASE ~unified /\ ~rows[p.symbol].close
      <4>1. p = q
        BY <2>2, <3>6
      <4> QED
        BY <2>5, <3>3, <3>4, <3>6, <4>1
    <3> QED
      BY <3>5, <3>6
  <2>7. CASE q \notin sold
    <3>1. q.entry = bookDay + 1 /\ q.held = 0
      BY <1>4, <2>7
    <3>2. p.symbol \notin StocksOf(sold)
      BY <1>3, <1>4, <2>2, <2>7 DEF StocksOf, OnePerStock
    <3>3. ~CrossedSince(p.symbol, p.entry, bookDay)
      BY <2>2, <3>1, CrossingsNext
    <3>4. ~Expired(q)
      BY <3>1, BookAssumed DEF Expired
    <3>5. p.symbol \in pendingExits' <=> p.symbol \in StocksOf(again)
      BY <1>1, <3>2
    <3>6. ~unified /\ ~rows[p.symbol].close => ~Expired(p)
      BY <2>2, <3>4
    <3> QED
      BY <2>5, <3>3, <3>5, <3>6
  <2> QED
    BY <2>6, <2>7
<1>8. pendingExits' \subseteq StocksOf(closed)
  BY <1>1 DEF StocksOf
<1>9. ASSUME NEW s
      PROVE  s \in pendingExits' <=> s \in StocksOf({p \in closed : due(p)})
  <2>1. s \in StocksOf({p \in closed : due(p)}) <=> \E p \in closed : due(p) /\ p.symbol = s
    BY DEF StocksOf
  <2>2. s \in pendingExits' => \E p \in closed : p.symbol = s
    BY <1>8 DEF StocksOf
  <2> HIDE DEF due
  <2> QED
    BY <1>7, <2>1, <2>2
<1>10. pendingExits' = StocksOf({p \in closed : due(p)})
  BY <1>9
<1>11. {p \in closed : due(p)} = {p \in positions' : ToExit(p)'}
  BY <1>1, <1>6
<1> QED
  BY <1>10, <1>11 DEF ExitOrdersInv, StocksOf

\* What is bought is bought once, confirmed before, and not seen crossing.
LEMMA FillsKeep ==
  ASSUME BookInv, bookDay < LastBookDay, NEW rows \in Tables, NEW bought \in SUBSET pendingEntries,
         NEW onsets, Session(rows, onsets, bought)
  PROVE  FillsInv'
<1> DEFINE new == {Bought(c) : c \in bought}
<1>1. /\ MayBuy(bought, AfterExits(rows), rows) /\ bookDay' = bookDay + 1 /\ unified' = unified
      /\ fills' = fills \cup new /\ bookDay \in Nat /\ bookDay + 1 \in BookDays
  BY SessionIs
<1>2. OnePerStock(bought)
  BY <1>1, OpenPageKeeps
<1>3. /\ fills \subseteq Positions /\ \A f \in fills : FillInv(f)
      /\ \A f, g \in fills : f.symbol = g.symbol /\ f.origin = g.origin => f = g
  BY DEF BookInv, FillsInv
<1>4. ASSUME NEW c \in bought
      PROVE  /\ c.symbol \in Stocks /\ c.origin \in BookDays /\ c.confirmed \in BookDays
             /\ c.origin \in Nat /\ c.confirmed \in Nat
             /\ c.confirmed = c.origin + 1 /\ c.confirmed <= bookDay
             /\ ~unified => c.confirmed = bookDay
             /\ ~CrossedSince(c.symbol, c.confirmed, bookDay)
             /\ \A f \in fills : ~(f.symbol = c.symbol /\ f.origin = c.origin)
  BY BookAssumed DEF BookInv, EntriesInv, Entries
<1>5. \A s : \A first, last \in Nat : last <= bookDay =>
        (CrossedSince(s, first, last)' <=> CrossedSince(s, first, last))
  BY CrossingsNext
<1>6. ASSUME NEW f \in fills
      PROVE  FillInv(f)'
  <2>0. PICK x : x = f
    OBVIOUS
  <2>1. FillInv(x) /\ x \in Positions
    BY <1>3, <2>0
  <2>2. x.confirmed \in Nat /\ x.entry \in Nat /\ x.entry - 1 \in Nat /\ x.entry - 1 <= bookDay
    BY <1>1, <2>1, BookAssumed DEF Positions, FillInv
  <2>3. CrossedSince(x.symbol, x.confirmed, x.entry - 1)' <=> CrossedSince(x.symbol, x.confirmed, x.entry - 1)
    BY <1>5, <2>2
  <2>4. x.entry <= bookDay'
    BY <1>1, <2>1, <2>2 DEF FillInv
  <2>5. FillInv(x)'
    BY <1>1, <2>1, <2>3, <2>4 DEF FillInv
  <2> QED
    BY <2>0, <2>5 DEF FillInv, CrossedSince
<1>7. ASSUME NEW n \in new
      PROVE  FillInv(n)' /\ n \in Positions
  <2>0. PICK d \in bought : n = Bought(d)
    OBVIOUS
  <2>1. PICK x : x = n
    OBVIOUS
  <2>2. /\ x.symbol = d.symbol /\ x.origin = d.origin /\ x.confirmed = d.confirmed
        /\ x.entry = bookDay + 1 /\ x.held = 0
    BY <2>0, <2>1, BoughtIs
  <2>3. x \in Positions
    BY <1>1, <1>4, <2>0, <2>1, BookAssumed DEF Bought, Positions
  <2>4. d.confirmed \in Nat /\ ~CrossedSince(d.symbol, d.confirmed, bookDay)
        /\ d.confirmed = d.origin + 1 /\ d.confirmed <= bookDay /\ (~unified => d.confirmed = bookDay)
    BY <1>4
  <2>5. x.confirmed \in Nat /\ x.entry - 1 = bookDay
    BY <1>1, <2>2, <2>4
  <2>6. ~CrossedSince(x.symbol, x.confirmed, x.entry - 1)
    BY <2>2, <2>4, <2>5
  <2>7. CrossedSince(x.symbol, x.confirmed, x.entry - 1)' <=> CrossedSince(x.symbol, x.confirmed, x.entry - 1)
    <3>1. PICK e : e = x.entry - 1
      OBVIOUS
    <3>2. e \in Nat /\ e <= bookDay
      BY <1>1, <2>5, <3>1
    <3>3. CrossedSince(x.symbol, x.confirmed, e)' <=> CrossedSince(x.symbol, x.confirmed, e)
      BY <1>5, <2>5, <3>2
    <3> QED
      BY <3>1, <3>3 DEF CrossedSince
  <2>8. FillInv(x)'
    BY <1>1, <2>2, <2>4, <2>6, <2>7 DEF FillInv
  <2> QED
    BY <2>1, <2>3, <2>8 DEF FillInv, CrossedSince
<1>8. ASSUME NEW f \in fills', NEW g \in fills', f.symbol = g.symbol, f.origin = g.origin
      PROVE  f = g
  <2>1. \A h \in new : \E c \in bought : h = Bought(c)
    OBVIOUS
  <2>2. CASE f \in fills /\ g \in fills
    BY <1>3, <1>8, <2>2
  <2>3. \A h \in fills, n \in new : ~(h.symbol = n.symbol /\ h.origin = n.origin)
    BY <1>4, BoughtIs
  <2>4. CASE f \in new /\ g \in new
    <3>1. PICK c \in bought, d \in bought : f = Bought(c) /\ g = Bought(d)
      BY <2>1, <2>4
    <3>2. c.symbol = d.symbol
      BY <1>8, <3>1, BoughtIs
    <3> QED
      BY <1>2, <3>1, <3>2 DEF OnePerStock
  <2> QED
    BY <1>1, <1>8, <2>2, <2>3, <2>4
<1>9. fills' \subseteq Positions
  BY <1>1, <1>3, <1>7
<1>10. \A f \in fills' : FillInv(f)'
  BY <1>1, <1>6, <1>7
<1> QED
  BY <1>8, <1>9, <1>10 DEF FillsInv

LEMMA EntriesKeep ==
  ASSUME BookInv, bookDay < LastBookDay, NEW rows \in Tables, NEW bought \in SUBSET pendingEntries,
         NEW onsets, Session(rows, onsets, bought)
  PROVE  EntriesInv'
<1> DEFINE kept == KeptBy(bought, rows)
           new == {Bought(c) : c \in bought}
           confirms == {a \in awaiting : Confirms(a, rows[a.symbol])}
           entry(a) == [symbol |-> a.symbol, origin |-> a.origin, confirmed |-> bookDay + 1]
<1>1. /\ bookDay' = bookDay + 1 /\ unified' = unified /\ bookDay \in Nat /\ bookDay + 1 \in BookDays
      /\ fills' = fills \cup new
      /\ pendingEntries' = Carried(kept, rows) \cup Confirmed(rows)
  BY SessionIs
<1>2. Confirmed(rows) = {entry(a) : a \in confirms}
  BY DEF Confirmed
<1>3. /\ awaiting \subseteq Onsetters /\ IsFiniteSet(awaiting) /\ \A a \in awaiting : a.origin = bookDay
      /\ pendingEntries \subseteq Entries /\ IsFiniteSet(pendingEntries)
      /\ \A f \in fills : f.origin \in Nat /\ f.origin < bookDay
  <2>1. \A f \in fills : f \in Positions /\ FillInv(f)
    BY DEF BookInv, FillsInv
  <2>2. \A f \in fills : f.origin \in Nat /\ f.confirmed \in Nat /\ f.entry \in Nat
    BY <2>1, BookAssumed DEF Positions
  <2>3. \A f \in fills : f.origin < bookDay
    BY <1>1, <2>1, <2>2 DEF FillInv
  <2> QED
    BY <2>2, <2>3 DEF BookInv, AwaitingInv, EntriesInv
<1>4. IsFiniteSet(pendingEntries')
  <2> DEFINE f == [a \in confirms |-> entry(a)]
  <2>1. IsFiniteSet(confirms)
    BY <1>3, FS_Subset
  <2>2. f \in Surjection(confirms, Confirmed(rows))
    BY <1>2 DEF Surjection
  <2>3. IsFiniteSet(Confirmed(rows))
    BY <2>1, <2>2, FS_Surjection
  <2>4. Carried(kept, rows) \subseteq pendingEntries
    BY DEF Carried
  <2> QED
    BY <1>1, <1>3, <2>3, <2>4, FS_Subset, FS_Union
<1>5. ASSUME NEW c \in Carried(kept, rows)
      PROVE  /\ c \in Entries /\ unified /\ c.confirmed = c.origin + 1 /\ c.confirmed <= bookDay + 1
             /\ c.symbol \in Stocks /\ c.confirmed \in Nat /\ c.confirmed <= bookDay
             /\ ~CrossedSince(c.symbol, c.confirmed, bookDay)
             /\ ~CrossesUp95(previousRows[c.symbol], rows[c.symbol])
             /\ \A f \in fills' : ~(f.symbol = c.symbol /\ f.origin = c.origin)
  <2>1. /\ c \in pendingEntries /\ unified /\ c.symbol \notin StocksOf(kept)
        /\ ~CrossesUp95(previousRows[c.symbol], rows[c.symbol])
    BY DEF Carried
  <2>2. /\ c \in Entries /\ c.confirmed = c.origin + 1 /\ c.confirmed <= bookDay
        /\ ~CrossedSince(c.symbol, c.confirmed, bookDay)
        /\ \A f \in fills : ~(f.symbol = c.symbol /\ f.origin = c.origin)
    BY <2>1 DEF BookInv, EntriesInv
  <2>3. \A f \in new : f.symbol # c.symbol
    BY <2>1 DEF StocksOf, KeptBy
  <2>4. c.symbol \in Stocks /\ c.confirmed \in Nat
    BY <2>2, BookAssumed DEF Entries
  <2> QED
    BY <1>1, <2>1, <2>2, <2>3, <2>4
<1>6. ASSUME NEW c \in Confirmed(rows)
      PROVE  /\ c \in Entries /\ c.confirmed = bookDay + 1 /\ c.origin = bookDay /\ c.symbol \in Stocks
             /\ ~CrossesUp95(previousRows[c.symbol], rows[c.symbol])
             /\ \A f \in fills' : ~(f.symbol = c.symbol /\ f.origin = c.origin)
  <2>1. PICK a \in confirms : c = entry(a)
    BY <1>2
  <2>2. /\ a \in awaiting /\ a.origin = bookDay /\ a.symbol \in Stocks /\ a.origin \in BookDays
        /\ ~CrossesUp95(previousRows[a.symbol], rows[a.symbol])
    BY <1>3 DEF Confirms, Onsetters
  <2>3. c \in Entries /\ c.confirmed = bookDay + 1 /\ c.origin = bookDay /\ c.symbol = a.symbol
    BY <1>1, <2>1, <2>2 DEF Entries
  <2>4. \A f \in new : f.origin < bookDay
    <3>1. \A d \in bought : /\ d.origin \in Nat /\ d.confirmed \in Nat /\ d.confirmed = d.origin + 1
                            /\ d.confirmed <= bookDay
      BY BookAssumed DEF BookInv, EntriesInv, Entries
    <3>2. \A d \in bought : Bought(d).origin < bookDay
      BY <1>1, <3>1, BoughtIs
    <3> QED
      BY <3>2
  <2>5. \A f \in fills' : f.origin # bookDay
    BY <1>1, <1>3, <2>4
  <2> QED
    BY <2>2, <2>3, <2>5
<1> HIDE DEF new, kept, confirms
<1>7. ASSUME NEW c \in pendingEntries'
      PROVE  /\ c \in Entries /\ c.confirmed = c.origin + 1 /\ c.confirmed <= bookDay + 1
             /\ ~unified => c.confirmed = bookDay + 1
             /\ ~CrossedSince(c.symbol, c.confirmed, bookDay)'
             /\ \A f \in fills' : ~(f.symbol = c.symbol /\ f.origin = c.origin)
  <2>0. PICK x : x = c
    OBVIOUS
  <2>1. /\ x.symbol \in Stocks /\ x.confirmed \in Nat /\ x.confirmed <= bookDay + 1
        /\ ~CrossedSince(x.symbol, x.confirmed, bookDay)
        /\ ~CrossesUp95(previousRows[x.symbol], rows[x.symbol])
    <3>1. CASE x \in Carried(kept, rows)
      BY <1>5, <3>1
    <3>2. CASE x \in Confirmed(rows)
      <4>1. x.symbol \in Stocks /\ x.confirmed = bookDay + 1
            /\ ~CrossesUp95(previousRows[x.symbol], rows[x.symbol])
        BY <1>6, <3>2
      <4>2. ~CrossedSince(x.symbol, bookDay + 1, bookDay)
        BY CrossingsNext
      <4> QED
        BY <1>1, <4>1, <4>2
    <3> QED
      BY <1>1, <2>0, <3>1, <3>2
  <2>2. ~CrossedSince(x.symbol, x.confirmed, bookDay)'
    BY <2>1, CrossingsNext
  <2>3. ~CrossedSince(c.symbol, c.confirmed, bookDay)'
    BY <2>0, <2>2 DEF CrossedSince
  <2>4. CASE c \in Carried(kept, rows)
    BY <1>5, <2>3, <2>4
  <2>5. CASE c \in Confirmed(rows)
    BY <1>1, <1>6, <2>3, <2>5
  <2> QED
    BY <1>1, <2>4, <2>5
<1> QED
  BY <1>1, <1>4, <1>7 DEF EntriesInv

LEMMA AwaitingKeeps ==
  ASSUME BookInv, bookDay < LastBookDay, NEW rows \in Tables, NEW bought \in SUBSET pendingEntries,
         NEW gate \in Gates, Session(rows, Onsets(rows, gate), bought)
  PROVE  AwaitingInv'
<1> DEFINE seen == {t \in Stocks : gate # "UNKNOWN" /\ Onset(previousRows[t], rows[t])}
           onset(s) == [symbol |-> s, origin |-> bookDay + 1, bear |-> gate = "RISK_OFF"]
           f == [s \in seen |-> onset(s)]
<1>1. bookDay' = bookDay + 1 /\ bookDay + 1 \in BookDays /\ awaiting' = Onsets(rows, gate)
  BY SessionIs
<1>2. Onsets(rows, gate) = {onset(s) : s \in seen}
  BY DEF Onsets
<1>3. IsFiniteSet(seen)
  BY FS_Subset, BookAssumed
<1>4. f \in Surjection(seen, Onsets(rows, gate))
  BY <1>2 DEF Surjection
<1>5. IsFiniteSet(Onsets(rows, gate))
  BY <1>3, <1>4, FS_Surjection
<1>6. ASSUME NEW a \in Onsets(rows, gate)
      PROVE  a \in Onsetters /\ a.origin = bookDay + 1
  <2>1. PICK s \in seen : a = onset(s)
    BY <1>2
  <2>2. s \in Stocks /\ (gate = "RISK_OFF") \in BOOLEAN
    BY <2>1
  <2> QED
    BY <1>1, <2>1, <2>2 DEF Onsetters
<1> QED
  BY <1>1, <1>5, <1>6 DEF AwaitingInv

LEMMA BookStep ==
  ASSUME BookInv, [BookNext]_bookVars
  PROVE  BookInv'
<1>1. CASE BookNext
  <2>1. PICK rows \in Tables, bought \in SUBSET pendingEntries, gate \in Gates :
          Session(rows, Onsets(rows, gate), bought)
    BY <1>1 DEF BookNext
  <2>2. bookDay < LastBookDay
    BY <1>1 DEF BookNext
  <2> DEFINE onsets == Onsets(rows, gate)
  <2>3. Session(rows, onsets, bought)
    BY <2>1
  <2>4. AwaitingInv'
    BY <2>1, <2>2, AwaitingKeeps
  <2> HIDE DEF onsets
  <2>5. CrossingsInv' /\ ExitOrdersInv' /\ FillsInv' /\ EntriesInv'
    BY <2>1, <2>2, <2>3, CrossingsNext, OrdersKeep, FillsKeep, EntriesKeep
  <2> DEFINE closed == AfterClose(KeptBy(bought, rows), rows)
  <2>6. /\ MayBuy(bought, AfterExits(rows), rows) /\ bookDay' = bookDay + 1 /\ positions' = closed
        /\ previousRows' = rows /\ unified' = unified /\ bookDay + 1 \in BookDays
    BY <2>1, <2>2, <2>3, SessionIs
  <2>7. /\ closed \subseteq Positions /\ OnePerStock(closed) /\ WithinCaps(StocksOf(closed))
        /\ \A p \in closed : p.entry <= bookDay + 1 /\ p.held <= bookDay + 1 - p.entry + 1
    BY <2>1, <2>2, <2>6, CloseKeeps
  <2> HIDE DEF closed
  <2>8. PositionsInv'
    <3>1. PICK left : left = closed
      OBVIOUS
    <3>2. positions' = left /\ bookDay' = bookDay + 1
      BY <2>6, <3>1
    <3>3. left \subseteq Positions
      BY <2>7, <3>1
    <3>4. OnePerStock(left) /\ WithinCaps(StocksOf(left))
      BY <2>7, <3>1, Zenon
    <3>5. ASSUME NEW p \in left
          PROVE  p.entry <= bookDay' /\ p.held <= bookDay' - p.entry + 1
      <4>1. p.entry <= bookDay + 1 /\ p.held <= bookDay + 1 - p.entry + 1
        BY <2>7, <3>1
      <4>2. bookDay \in Int /\ p.entry \in Int /\ p.held \in Int
        BY <3>3, BookAssumed DEF BookInv, Positions
      <4> QED
        BY <3>2, <4>1, <4>2
    <3> QED
      BY <3>2, <3>3, <3>4, <3>5 DEF PositionsInv, OnePerStock, WithinCaps, StocksOf, InSector
  <2>9. unified' \in BOOLEAN /\ bookDay' \in 0 .. LastBookDay /\ previousRows' \in Tables
    BY <2>1, <2>6, BookAssumed DEF BookInv
  <2> QED
    BY <2>4, <2>5, <2>8, <2>9 DEF BookInv
<1>2. CASE UNCHANGED bookVars
  BY <1>2 DEF bookVars, BookInv, PositionsInv, ExitOrdersInv, ToExit, Expired, CrossedSince, CrossingsInv,
     EntriesInv, AwaitingInv, FillsInv, FillInv
<1> QED
  BY <1>1, <1>2

LEMMA BookInitial ==
  ASSUME BookInit
  PROVE  BookInv
<1>1. /\ unified \in BOOLEAN /\ previousRows \in Tables
      /\ bookDay = 0 /\ awaiting = {} /\ pendingEntries = {} /\ pendingExits = {} /\ positions = {}
      /\ fills = {} /\ crossings = {}
  BY DEF BookInit
<1>2. StocksOf({}) = {} /\ \A s : InSector({}, s) = {}
  BY DEF StocksOf, InSector
<1>3. WithinCaps(StocksOf({}))
  BY <1>2, FS_EmptySet, BookAssumed DEF WithinCaps
<1>4. PositionsInv /\ ExitOrdersInv
  BY <1>1, <1>2, <1>3 DEF PositionsInv, OnePerStock, ExitOrdersInv
<1>5. CrossingsInv /\ EntriesInv /\ AwaitingInv /\ FillsInv
  BY <1>1, FS_EmptySet DEF CrossingsInv, EntriesInv, AwaitingInv, FillsInv
<1> QED
  BY <1>1, <1>4, <1>5, BookAssumed DEF BookInv

\* The invariant the other theorems rest on: every order belongs to the
\* position held now, and every entry still to be bought has its onset and
\* confirmation behind it and is bought for the first time.
THEOREM BookInvariant == BookSpec => []BookInv
<1>1. BookInit => BookInv
  BY BookInitial
<1>2. BookInv /\ [BookNext]_bookVars => BookInv'
  BY BookStep
<1> QED
  BY <1>1, <1>2, PTL DEF BookSpec

\* The rows, orders, positions, fills and crossings of the model book have
\* their types.
THEOREM BookTypes == BookSpec => []BookTypeOK
<1>1. BookInv => BookTypeOK
  BY DEF BookInv, BookTypeOK, PositionsInv, ExitOrdersInv, CrossingsInv, EntriesInv, AwaitingInv, FillsInv,
     StocksOf, Positions
<1> QED
  BY <1>1, BookInvariant, PTL

\* stepKospiShadow: for any stocks, caps and number of sessions, the book keeps
\* its caps, buys each confirmed onset once and before any crossing of 9.5, and
\* has an exit order exactly for the positions that expired or crossed.
THEOREM BookIsSound == BookSpec => []KospiBookIsSound
<1>1. BookInv => KospiBookIsSound
  <2> SUFFICES ASSUME BookInv PROVE KospiBookIsSound
    OBVIOUS
  <2>1. /\ positions \subseteq Positions /\ OnePerStock(positions) /\ WithinCaps(StocksOf(positions))
    BY DEF BookInv, PositionsInv
  <2>2. IsFiniteSet(positions)
    BY <2>1, OnePerStockFinite DEF Positions
  <2>3. Cardinality(StocksOf(positions)) = Cardinality(positions)
    BY <2>1, <2>2, StocksCounted
  <2>4. /\ Cardinality(positions) <= Slots
        /\ \A s \in StocksOf(positions) : Cardinality(InSector(StocksOf(positions), s)) <= MaxPerSector
    BY <2>1, <2>3 DEF WithinCaps
  <2>5. pendingExits =
          StocksOf({p \in positions : Expired(p) \/ CrossedSince(p.symbol, p.entry, bookDay)})
    BY DEF BookInv, ExitOrdersInv, ToExit
  <2>6. \A f \in fills :
          /\ f.confirmed = f.origin + 1 /\ f.confirmed < f.entry
          /\ ~unified => f.entry = f.confirmed + 1
          /\ ~CrossedSince(f.symbol, f.confirmed, f.entry - 1)
          /\ \A g \in fills : f.symbol = g.symbol /\ f.origin = g.origin => f = g
    BY DEF BookInv, FillsInv, FillInv
  <2> QED
    BY <2>3, <2>4, <2>5, <2>6 DEF KospiBookIsSound
<1> QED
  BY <1>1, BookInvariant, PTL
=============================================================================
