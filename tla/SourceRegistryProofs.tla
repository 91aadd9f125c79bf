------------------------ MODULE SourceRegistryProofs -------------------------
(***************************************************************************)
(* Theorems about SourceRegistry, for every set of uploads, compactions,   *)
(* keys and values, every mode and content, and every bound on faults.     *)
(***************************************************************************)
EXTENDS SourceRegistry, WellFoundedInduction, TLAPS

-----------------------------------------------------------------------------
(* The dataset.                                                            *)

\* A set of naturals that is not empty and bounded has a largest member.
LEMMA Largest ==
  ASSUME NEW S, S # {}, NEW f, NEW b \in Nat, \A s \in S : f[s] \in 0 .. b
  PROVE  \E s \in S : \A o \in S : f[o] <= f[s]
<1> DEFINE T == {b - f[s] : s \in S}
           R == {ss \in Nat \X Nat : ss[1] < ss[2]}
<1>1. T \subseteq Nat /\ T # {}
  OBVIOUS
<1>2. IsWellFoundedOn(R, Nat)
  BY NatLessThanWellFounded, Zenon DEF OpToRel
<1>3. PICK x \in T : \A y \in T : ~ (<<y, x>> \in R)
  <2> HIDE DEF T, R
  <2> QED
    BY <1>1, <1>2, WFMin
<1>4. \A y \in T : ~ (y < x)
  <2> HIDE DEF T
  <2> QED
    BY <1>1, <1>3
<1>5. PICK s \in S : x = b - f[s]
  OBVIOUS
<1>6. ASSUME NEW o \in S
      PROVE  f[o] <= f[s]
  <2>1. ~ (b - f[o] < b - f[s])
    BY <1>4, <1>5
  <2>2. f[o] \in 0 .. b /\ f[s] \in 0 .. b
    OBVIOUS
  <2> QED
    BY <2>1, <2>2
<1> QED
  BY <1>6

\* Where times are bounded, a row that some source holds has a latest holder.
LEMMA TopIsHolder ==
  ASSUME NEW reg, NEW S, NEW b \in Nat, \A s \in S : reg[s].at \in 0 .. b,
         NEW k, Holders(S, reg, k) # {}
  PROVE  Top(S, reg, k) \in Holders(S, reg, k)
<1> DEFINE H == Holders(S, reg, k)
           at == [s \in S |-> reg[s].at]
<1>1. H # {} /\ H \subseteq S
  BY DEF Holders
<1>2. \A s \in H : at[s] \in 0 .. b
  BY <1>1
<1>3. \E s \in H : \A o \in H : at[o] <= at[s]
  <2> HIDE DEF H, at
  <2> QED
    BY <1>1, <1>2, Largest
<1> QED
  BY <1>1, <1>3 DEF Top

LEMMA RowsHoldValues ==
  ASSUME NEW r \in Rows, NEW k \in DOMAIN r
  PROVE  k \in Keys /\ r[k] \in Values
<1>1. PICK K \in SUBSET Keys : r \in [K -> Values]
  BY DEF Rows
<1> QED
  BY <1>1

\* Merging rows of registered sources yields rows.
LEMMA MergedIsRows ==
  ASSUME NEW reg \in [Sources -> Entry], NEW S \in SUBSET Sources, NEW b \in Nat,
         \A s \in Sources : reg[s].at <= b
  PROVE  Merged(S, reg) \in Rows
<1> DEFINE D == {j \in Keys : Holders(S, reg, j) # {}}
<1>1. ASSUME NEW k \in D
      PROVE  reg[Top(S, reg, k)].rows[k] \in Values
  <2> DEFINE t == Top(S, reg, k)
  <2>1. \A s \in S : reg[s].at \in 0 .. b
    BY DEF Entry
  <2>2. t \in Holders(S, reg, k)
    BY <2>1, TopIsHolder
  <2>3. reg[t].rows \in Rows /\ k \in DOMAIN reg[t].rows
    BY <2>2 DEF Entry, Holders
  <2>4. reg[t].rows[k] \in Values
    <3> HIDE DEF t
    <3> QED
      BY <2>3, RowsHoldValues
  <2> QED
    BY <2>4
<1>2. Merged(S, reg) \in [D -> Values]
  BY <1>1 DEF Merged
<1> QED
  BY <1>2 DEF Rows

\* What a set of sources yields depends on their rows and times only.
LEMMA MergedUnchanged ==
  ASSUME NEW S, NEW r1, NEW r2, NEW b \in Nat, \A s \in S : r1[s].at \in 0 .. b,
         \A s \in S : r1[s].rows = r2[s].rows /\ r1[s].at = r2[s].at
  PROVE  Merged(S, r1) = Merged(S, r2)
<1>1. \A k : Holders(S, r1, k) = Holders(S, r2, k)
  BY DEF Holders
<1>2. ASSUME NEW k \in Keys, Holders(S, r1, k) # {}
      PROVE  Top(S, r1, k) = Top(S, r2, k) /\ Top(S, r1, k) \in S
  <2>1. Holders(S, r1, k) \subseteq S
    BY DEF Holders
  <2>2. Top(S, r1, k) \in Holders(S, r1, k)
    BY <1>2, TopIsHolder
  <2>3. Top(S, r1, k) = Top(S, r2, k)
    BY <1>1, <2>1 DEF Top
  <2> QED
    BY <2>1, <2>2, <2>3
<1>3. {j \in Keys : Holders(S, r1, j) # {}} = {j \in Keys : Holders(S, r2, j) # {}}
  BY <1>1
<1>4. \A k \in Keys : Holders(S, r1, k) # {} =>
        r1[Top(S, r1, k)].rows[k] = r2[Top(S, r2, k)].rows[k]
  BY <1>2
<1> QED
  BY <1>3, <1>4 DEF Merged

-----------------------------------------------------------------------------
(* Types and times.                                                        *)

\* No activation time lies in the future.
Times ==
  /\ \A s \in Sources : registry[s].at <= clock
  /\ \A u \in Uploads : txn[u].at <= clock

LEMMA SourcesAreEither ==
  /\ Uploads \subseteq Sources /\ Compactions \subseteq Sources
  /\ \A u \in Uploads : u \notin Compactions
BY RegistryAssumption DEF Sources

LEMMA EmptyIsRows == <<>> \in Rows
<1>1. <<>> \in [{} -> Values] /\ {} \in SUBSET Keys
  OBVIOUS
<1> QED
  BY <1>1 DEF Rows

LEMMA TypesInitially == Init => TypeOK /\ Times
<1> SUFFICES ASSUME Init PROVE TypeOK /\ Times
  OBVIOUS
<1> DEFINE First(u) == CHOOSE i \in 1 .. Len(Initially) : Initially[i] = u
           present == {Initially[i] : i \in 1 .. Len(Initially)}
<1>1. Len(Initially) \in Nat /\ present \subseteq Uploads
  BY RegistryAssumption
<1>2. \A u \in present : First(u) \in 1 .. Len(Initially)
  OBVIOUS
<1>3. registry \in [Sources -> Entry] /\ \A s \in Sources : registry[s].at <= clock
  <2>1. ASSUME NEW s \in present
        PROVE  /\ [status |-> "active", at |-> First(s), rows |-> Content[s], origins |-> {s}] \in Entry
               /\ First(s) <= clock
    <3>1. First(s) \in 1 .. Len(Initially)
      BY <1>2
    <3>2. clock = Len(Initially) /\ Content[s] \in Rows /\ s \in Uploads
      BY <1>1, RegistryAssumption DEF Init
    <3> HIDE DEF First
    <3> QED
      BY <1>1, <3>1, <3>2 DEF Entry, Statuses
  <2>2. [status |-> "absent", at |-> 0, rows |-> <<>>, origins |-> {}] \in Entry
    BY EmptyIsRows DEF Entry, Statuses
  <2>3. registry = [s \in Sources |->
          IF s \in present
          THEN [status |-> "active", at |-> First(s), rows |-> Content[s], origins |-> {s}]
          ELSE [status |-> "absent", at |-> 0, rows |-> <<>>, origins |-> {}]]
    BY DEF Init
  <2>4. clock = Len(Initially)
    BY DEF Init
  <2> HIDE DEF First, present
  <2> QED
    BY <1>1, <2>1, <2>2, <2>3, <2>4
<1>4. /\ objects \subseteq Sources /\ clock \in Nat /\ faults \in 0 .. MaxFaults
      /\ job \in [Uploads -> JobStates] /\ undo \in [Uploads -> SUBSET {"object", "status"}]
      /\ removal \in [Sources -> {"none", "object", "done"}]
  BY <1>1, SourcesAreEither, RegistryAssumption DEF Init, JobStates
<1>5. /\ txn \in [Uploads -> [pc : TxnStates, at : Nat]]
      /\ \A u \in Uploads : txn[u].at <= clock
  BY <1>1 DEF Init, NoTxn, TxnStates
<1>6. run \in [Compactions -> [pc : RunStates, rows : Rows, parents : SUBSET [id : Sources, at : Nat]]]
  BY EmptyIsRows DEF Init, NoRun, RunStates
<1> QED
  BY <1>3, <1>4, <1>5, <1>6 DEF TypeOK, Times

RunType == [pc : RunStates, rows : Rows, parents : SUBSET [id : Sources, at : Nat]]
TxnType == [pc : TxnStates, at : Nat]

\* What the helpers of the actions do to an entry, a transaction and a run.
LEMMA EntryWith ==
  ASSUME NEW e \in Entry, NEW status \in Statuses
  PROVE  /\ [e EXCEPT !.status = status] \in Entry
         /\ [e EXCEPT !.status = status].status = status
         /\ [e EXCEPT !.status = status].at = e.at
         /\ [e EXCEPT !.status = status].rows = e.rows
         /\ [e EXCEPT !.status = status].origins = e.origins
BY DEF Entry

LEMMA Superseding ==
  ASSUME NEW e \in Entry
  PROVE  /\ [e EXCEPT !.status = "superseded"] \in Entry
         /\ [e EXCEPT !.status = "superseded"].status = "superseded"
         /\ [e EXCEPT !.status = "superseded"].at = e.at
         /\ [e EXCEPT !.status = "superseded"].rows = e.rows
BY EntryWith DEF Statuses

LEMMA StatusStep ==
  ASSUME registry \in [Sources -> Entry], NEW s \in Sources, NEW status \in Statuses,
         SetStatus(s, status)
  PROVE  /\ registry' \in [Sources -> Entry]
         /\ registry'[s].status = status
         /\ \A o \in Sources : o # s => registry'[o] = registry[o]
         /\ \A o \in Sources : /\ registry'[o].at = registry[o].at
                               /\ registry'[o].rows = registry[o].rows
<1>1. registry[s] \in Entry
  OBVIOUS
<1>2. registry' = [registry EXCEPT ![s] = [registry[s] EXCEPT !.status = status]]
  BY DEF SetStatus
<1> QED
  BY <1>1, <1>2, EntryWith

LEMMA RunStep ==
  ASSUME run \in [Compactions -> RunType], NEW c \in Compactions, NEW pc \in RunStates, RunTo(c, pc)
  PROVE  /\ run' \in [Compactions -> RunType]
         /\ run'[c].pc = pc
         /\ run'[c].rows = run[c].rows /\ run'[c].parents = run[c].parents
         /\ \A o \in Compactions : o # c => run'[o] = run[o]
<1>1. run[c] \in RunType
  OBVIOUS
<1>2. run' = [run EXCEPT ![c] = [run[c] EXCEPT !.pc = pc]]
  BY DEF RunTo
<1> QED
  BY <1>1, <1>2 DEF RunType

LEMMA TxnStep ==
  ASSUME txn \in [Uploads -> TxnType], NEW u \in Uploads, NEW pc \in TxnStates,
         txn' = [txn EXCEPT ![u].pc = pc]
  PROVE  /\ txn' \in [Uploads -> TxnType]
         /\ txn'[u].pc = pc /\ txn'[u].at = txn[u].at
         /\ \A o \in Uploads : o # u => txn'[o] = txn[o]
         /\ \A o \in Uploads : txn'[o].at = txn[o].at
<1>1. txn[u] \in TxnType
  OBVIOUS
<1>2. txn' = [txn EXCEPT ![u] = [txn[u] EXCEPT !.pc = pc]]
  OBVIOUS
<1> QED
  BY <1>1, <1>2 DEF TxnType

\* Which row an activation writes, and which it supersedes.
Replaced(u) == IF Mode[u] = "replace" THEN Active(registry) \ {u} ELSE {}

LEMMA ActivateStep ==
  ASSUME TypeOK, Times, NEW u \in Uploads, Activate(u)
  PROVE  /\ registry' \in [Sources -> Entry]
         /\ registry'[u].status = "active"
         /\ registry'[u].at = IF registry[u].at = 0 THEN txn[u].at ELSE registry[u].at
         /\ \A s \in Sources : registry'[s].rows = registry[s].rows
         /\ \A s \in Sources \ {u} :
              /\ registry'[s].at = registry[s].at
              /\ registry'[s].status = IF s \in Replaced(u) THEN "superseded" ELSE registry[s].status
<1> DEFINE at == IF registry[u].at = 0 THEN txn[u].at ELSE registry[u].at
<1>1. /\ u \in Sources /\ at \in Nat
      /\ \A s \in Sources : registry[s] \in Entry
  BY SourcesAreEither DEF TypeOK, Entry
<1>2. registry' = [s \in Sources |->
         CASE s = u -> [registry[u] EXCEPT !.status = "active", !.at = at]
           [] s \in Replaced(u) -> [registry[s] EXCEPT !.status = "superseded"]
           [] OTHER -> registry[s]]
  BY DEF Activate, Replaced
<1>3. /\ [registry[u] EXCEPT !.status = "active", !.at = at] \in Entry
      /\ [registry[u] EXCEPT !.status = "active", !.at = at].status = "active"
      /\ [registry[u] EXCEPT !.status = "active", !.at = at].at = at
      /\ [registry[u] EXCEPT !.status = "active", !.at = at].rows = registry[u].rows
  <2> HIDE DEF at
  <2> QED
    BY <1>1 DEF Entry, Statuses
<1>4. u \notin Replaced(u)
  BY DEF Replaced
<1> HIDE DEF at
<1>5. registry'[u] = [registry[u] EXCEPT !.status = "active", !.at = at]
  BY <1>1, <1>2, <1>4
<1>6. \A s \in Sources \ {u} :
        registry'[s] = IF s \in Replaced(u) THEN [registry[s] EXCEPT !.status = "superseded"]
                       ELSE registry[s]
  BY <1>2
<1>7. \A s \in Sources \ {u} :
        /\ registry'[s] \in Entry
        /\ registry'[s].rows = registry[s].rows /\ registry'[s].at = registry[s].at
        /\ registry'[s].status = IF s \in Replaced(u) THEN "superseded" ELSE registry[s].status
  BY <1>1, <1>6, Superseding
<1>8. registry' \in [Sources -> Entry]
  <2>1. \A s \in Sources : registry'[s] \in Entry
    BY <1>3, <1>5, <1>7
  <2> QED
    BY <1>2, <2>1
<1> QED
  BY <1>3, <1>5, <1>7, <1>8 DEF at

LEMMA CutoverStep ==
  ASSUME TypeOK, Times, NEW c \in Compactions, Cutover(c)
  PROVE  \/ /\ UNCHANGED <<registry, clock>>
         \/ /\ ~Committed(c) /\ SwitchAccepts(c) /\ clock' = clock + 1
            /\ registry' \in [Sources -> Entry]
            /\ registry'[c].status = "active" /\ registry'[c].at = clock + 1
            /\ registry'[c].origins = OriginsOf(c)
            /\ \A s \in Sources : registry'[s].rows = registry[s].rows
            /\ \A s \in Sources \ {c} :
                 /\ registry'[s].at = registry[s].at
                 /\ registry'[s].status = IF s \in Parents(c) THEN "superseded" ELSE registry[s].status
<1> SUFFICES ASSUME ~UNCHANGED <<registry, clock>>
             PROVE  /\ ~Committed(c) /\ SwitchAccepts(c) /\ clock' = clock + 1
                    /\ registry' \in [Sources -> Entry]
                    /\ registry'[c].status = "active" /\ registry'[c].at = clock + 1
                    /\ registry'[c].origins = OriginsOf(c)
                    /\ \A s \in Sources : registry'[s].rows = registry[s].rows
                    /\ \A s \in Sources \ {c} :
                         /\ registry'[s].at = registry[s].at
                         /\ registry'[s].status = IF s \in Parents(c) THEN "superseded"
                                                  ELSE registry[s].status
  OBVIOUS
<1> DEFINE new == [registry[c] EXCEPT !.status = "active", !.at = clock + 1, !.origins = OriginsOf(c)]
<1>1. /\ ~Committed(c) /\ SwitchAccepts(c) /\ clock' = clock + 1
      /\ registry' = [s \in Sources |->
           CASE s = c -> new
             [] s \in Parents(c) -> [registry[s] EXCEPT !.status = "superseded"]
             [] OTHER -> registry[s]]
  BY DEF Cutover
<1>2. /\ c \in Sources /\ clock + 1 \in Nat
      /\ \A s \in Sources : registry[s] \in Entry
  BY SourcesAreEither DEF TypeOK
<1>3. OriginsOf(c) \subseteq Uploads
  <2>1. Parents(c) \subseteq Sources
    BY DEF Parents, TypeOK
  <2>2. \A s \in Sources : registry[s].origins \subseteq Uploads
    BY <1>2 DEF Entry
  <2> QED
    BY <2>1, <2>2 DEF OriginsOf
<1>4. /\ new \in Entry /\ new.status = "active" /\ new.at = clock + 1
      /\ new.origins = OriginsOf(c) /\ new.rows = registry[c].rows
  <2> HIDE DEF OriginsOf
  <2> QED
    BY <1>2, <1>3 DEF Entry, Statuses
<1> HIDE DEF new, Parents
<1>4a. c \notin Parents(c)
  <2>1. {[id |-> s, at |-> registry[s].at] : s \in Active(registry)} = run[c].parents
    BY <1>1 DEF SwitchAccepts
  <2>2. \A p \in run[c].parents : registry[p.id].status = "active"
    BY <2>1 DEF Active
  <2>3. registry[c].status = "valid"
    BY <1>1 DEF SwitchAccepts
  <2> QED
    BY <2>2, <2>3 DEF Parents
<1>5. registry'[c] = new
  BY <1>1, <1>2, <1>4a
<1>6. \A s \in Sources \ {c} :
        registry'[s] = IF s \in Parents(c) THEN [registry[s] EXCEPT !.status = "superseded"]
                       ELSE registry[s]
  BY <1>1
<1>7. \A s \in Sources \ {c} :
        /\ registry'[s] \in Entry
        /\ registry'[s].rows = registry[s].rows /\ registry'[s].at = registry[s].at
        /\ registry'[s].status = IF s \in Parents(c) THEN "superseded" ELSE registry[s].status
  BY <1>2, <1>6, Superseding
<1>8. registry' \in [Sources -> Entry]
  <2>1. \A s \in Sources : registry'[s] \in Entry
    BY <1>4, <1>5, <1>7
  <2> QED
    BY <1>1, <2>1
<1> QED
  BY <1>1, <1>4, <1>5, <1>7, <1>8

LEMMA TypesPreserved == TypeOK /\ Times /\ [Next]_vars => TypeOK' /\ Times'
<1> SUFFICES ASSUME TypeOK, Times, [Next]_vars PROVE TypeOK' /\ Times'
  OBVIOUS
<1> USE DEF TypeOK, Times
<1>1. ASSUME NEW u \in Uploads, Read(u) PROVE TypeOK' /\ Times'
  BY <1>1 DEF Read, JobTo, JobStates
<1>2. ASSUME NEW u \in Uploads, Store(u) PROVE TypeOK' /\ Times'
  <2>1. [status |-> "valid", at |-> 0, rows |-> Content[u], origins |-> {u}] \in Entry
    BY RegistryAssumption DEF Entry, Statuses
  <2> QED
    BY <1>2, <2>1, SourcesAreEither DEF Store, JobTo, JobStates
<1>3. ASSUME NEW u \in Uploads, Begin(u) PROVE TypeOK' /\ Times'
  BY <1>3 DEF Begin, JobTo, JobStates, TxnStates, Entry
<1>4. ASSUME NEW u \in Uploads, LockRow(u) \/ LockOwner(u) PROVE TypeOK' /\ Times'
  <2>1. PICK pc \in TxnStates : txn' = [txn EXCEPT ![u].pc = pc]
    BY <1>4 DEF LockRow, LockOwner, TxnStates
  <2>2. /\ txn' \in [Uploads -> TxnType]
        /\ \A o \in Uploads : txn'[o].at = txn[o].at
    BY <2>1, TxnStep DEF TxnType
  <2> QED
    BY <1>4, <2>2 DEF LockRow, LockOwner, client, TxnType
<1>5. ASSUME NEW u \in Uploads, Activate(u) PROVE TypeOK' /\ Times'
  <2>1. /\ txn' \in [Uploads -> TxnType]
        /\ \A o \in Uploads : txn'[o].at = txn[o].at
    BY <1>5, TxnStep DEF Activate, TxnType, TxnStates
  <2>2. /\ registry' \in [Sources -> Entry]
        /\ \A s \in Sources : registry'[s].at <= clock
    BY <1>5, ActivateStep
  <2> QED
    BY <1>5, <2>1, <2>2 DEF Activate, client, TxnType
<1>6. ASSUME NEW u \in Uploads, Answered(u) PROVE TypeOK' /\ Times'
  BY <1>6 DEF Answered, JobTo, JobStates
<1>7. ASSUME NEW u \in Uploads, ReplyLost(u) \/ ClientDies(u) PROVE TypeOK' /\ Times'
  <2>1. faults' \in 0 .. MaxFaults
    BY <1>7, RegistryAssumption DEF ReplyLost, ClientDies
  <2> QED
    BY <1>7, <2>1 DEF ReplyLost, ClientDies, JobTo, JobStates
<1>8. ASSUME NEW u \in Uploads, UndoObject(u) \/ UndoEnds(u) PROVE TypeOK' /\ Times'
  <2>1. CASE UndoObject(u)
    BY <2>1 DEF UndoObject
  <2>2. CASE UndoEnds(u)
    BY <2>2 DEF UndoEnds, JobTo, JobStates
  <2> QED
    BY <1>8, <2>1, <2>2
<1>9. ASSUME NEW u \in Uploads, UndoStatus(u) PROVE TypeOK' /\ Times'
  <2>1. /\ registry' \in [Sources -> Entry]
        /\ \A s \in Sources : registry'[s].at = registry[s].at
    BY <1>9, SourcesAreEither, StatusStep DEF UndoStatus, Statuses
  <2> QED
    BY <1>9, <2>1 DEF UndoStatus
<1>10. ASSUME NEW s \in Sources, Remove(s) PROVE TypeOK' /\ Times'
  <2>1. /\ registry' \in [Sources -> Entry]
        /\ \A o \in Sources : registry'[o].at = registry[o].at
    BY <1>10, StatusStep DEF Remove, Statuses
  <2> QED
    BY <1>10, <2>1 DEF Remove, client
<1>11. ASSUME NEW s \in Sources, RemoveObject(s) PROVE TypeOK' /\ Times'
  BY <1>11 DEF RemoveObject, client
<1>12. ASSUME NEW c \in Compactions, Plan(c) PROVE TypeOK' /\ Times'
  <2>1. Active(registry) \subseteq Sources
    BY DEF Active
  <2>2. Data(registry) \in Rows
    BY <2>1, MergedIsRows DEF Data
  <2>3. {[id |-> s, at |-> registry[s].at] : s \in Active(registry)} \in SUBSET [id : Sources, at : Nat]
    BY <2>1 DEF Entry
  <2>4. [pc |-> "stage", rows |-> Data(registry),
         parents |-> {[id |-> s, at |-> registry[s].at] : s \in Active(registry)}]
          \in [pc : RunStates, rows : Rows, parents : SUBSET [id : Sources, at : Nat]]
    BY <2>2, <2>3 DEF RunStates
  <2> QED
    BY <1>12, <2>4 DEF Plan, client
<1>13. ASSUME NEW c \in Compactions, Stage(c) PROVE TypeOK' /\ Times'
  <2>1. [status |-> "valid", at |-> 0, rows |-> run[c].rows, origins |-> {}] \in Entry
    BY DEF Entry, Statuses
  <2>2. run' \in [Compactions -> RunType]
    BY <1>13, RunStep DEF Stage, RunType, RunStates
  <2> QED
    BY <1>13, <2>1, <2>2, SourcesAreEither DEF Stage, client, RunType
<1>14. ASSUME NEW c \in Compactions, LockTable(c) \/ LockSet(c) \/ RunnerDies(c) \/ Retry(c)
       PROVE TypeOK' /\ Times'
  <2>1. run' \in [Compactions -> RunType]
    <3>1. CASE \E pc \in RunStates : RunTo(c, pc)
      BY <3>1, RunStep DEF RunType
    <3>2. CASE run' = [run EXCEPT ![c] = NoRun]
      BY <3>2, EmptyIsRows DEF RunType, NoRun, RunStates
    <3> QED
      BY <1>14, <3>1, <3>2 DEF LockTable, LockSet, RunnerDies, Retry, RunStates
  <2>2. faults' \in 0 .. MaxFaults
    BY <1>14, RegistryAssumption DEF LockTable, LockSet, RunnerDies, Retry
  <2> QED
    BY <1>14, <2>1, <2>2 DEF LockTable, LockSet, RunnerDies, Retry, client, RunType
<1>15. ASSUME NEW c \in Compactions, Cutover(c) PROVE TypeOK' /\ Times'
  <2>1. run' \in [Compactions -> RunType]
    BY <1>15, RunStep DEF Cutover, RunType, RunStates
  <2>2. /\ registry' \in [Sources -> Entry] /\ clock' \in Nat /\ clock' >= clock
        /\ \A s \in Sources : registry'[s].at <= clock'
    BY <1>15, CutoverStep, SourcesAreEither DEF Entry
  <2> QED
    BY <1>15, <2>1, <2>2 DEF Cutover, client, RunType
<1>16. CASE UNCHANGED vars
  BY <1>16 DEF vars, client
<1> QED
  BY <1>1, <1>2, <1>3, <1>4, <1>5, <1>6, <1>7, <1>8, <1>9, <1>10, <1>11, <1>12, <1>13, <1>14, <1>15, <1>16
  DEF Next, Activation

\* Every variable keeps its type.
THEOREM TypeCorrect == Spec => []TypeOK
<1>1. Init => TypeOK /\ Times
  BY TypesInitially
<1>2. TypeOK /\ Times /\ [Next]_vars => (TypeOK /\ Times)'
  BY TypesPreserved
<1> QED
  BY <1>1, <1>2, PTL DEF Spec

-----------------------------------------------------------------------------
(* How far each source has come.                                           *)

Stored(s) == registry[s].status \in {"valid", "active", "superseded"}

\* An activation time is given with the activation, once.
Dated ==
  \A s \in Sources :
    /\ registry[s].status \in {"absent", "valid"} => registry[s].at = 0
    /\ registry[s].status \in {"active", "superseded"} => registry[s].at # 0

\* A registration whose transaction is not over has not activated its source,
\* and a transaction that holds the row found it valid.
Registering ==
  \A u \in Uploads :
    /\ job[u] \in {"idle", "store"} => registry[u].status = "absent"
    /\ job[u] \in {"idle", "store", "call"} => registry[u].at = 0 /\ txn[u].pc = "none"
    /\ txn[u].pc \in {"begun", "row", "advisory"} => registry[u].at = 0 /\ txn[u].at # 0
    /\ txn[u].pc \in {"row", "advisory"} => registry[u].status = "valid"

\* Bytes go after the row has been marked, except in an undo.
Keeping ==
  /\ \A s \in Sources :
       /\ Stored(s) => s \in objects \/ (s \in Uploads /\ "status" \in undo[s])
       /\ removal[s] # "none" => registry[s].status \in {"invalid", "deleted"}
  /\ \A u \in Uploads :
       job[u] = "undo" /\ "status" \notin undo[u] => registry[u].status \in {"invalid", "deleted"}

\* A candidate is stored once, with the rows of its plan.
Compacting ==
  \A c \in Compactions :
    /\ run[c].pc \in {"idle", "stage"} => registry[c].status = "absent"
    /\ registry[c].status # "absent" => registry[c].rows = run[c].rows

Lifecycle == Dated /\ Registering /\ Keeping /\ Compacting

LEMMA LifecycleInitially == Init => Lifecycle
<1> SUFFICES ASSUME Init PROVE Lifecycle
  OBVIOUS
<1> DEFINE First(u) == CHOOSE i \in 1 .. Len(Initially) : Initially[i] = u
           present == {Initially[i] : i \in 1 .. Len(Initially)}
<1>1. \A u \in present : First(u) \in 1 .. Len(Initially)
  BY RegistryAssumption
<1>2. present \subseteq Uploads /\ Len(Initially) \in Nat
  BY RegistryAssumption
<1>3. \A s \in Sources :
        IF s \in present THEN registry[s].status = "active" /\ registry[s].at = First(s)
        ELSE registry[s].status = "absent" /\ registry[s].at = 0
  BY DEF Init
<1>4. \A s \in present : First(s) # 0
  BY <1>1, <1>2
<1>5. \A s \in Sources : removal[s] = "none"
  BY DEF Init
<1>6. \A u \in Uploads : /\ job[u] = IF u \in present THEN "done" ELSE "idle"
                         /\ txn[u].pc = "none"
  BY DEF Init, NoTxn
<1>7. objects = present
  BY DEF Init
<1> HIDE DEF present, First
<1> QED
  BY <1>2, <1>3, <1>4, <1>5, <1>6, <1>7, SourcesAreEither
  DEF Lifecycle, Dated, Registering, Keeping, Compacting, Stored

LEMMA LifecyclePreserved ==
  TypeOK /\ Times /\ Lifecycle /\ [Next]_vars => Lifecycle'
<1> SUFFICES ASSUME TypeOK, Times, Lifecycle, [Next]_vars PROVE Lifecycle'
  OBVIOUS
<1> USE DEF Lifecycle, Dated, Registering, Keeping, Compacting, Stored
<1>a. /\ registry \in [Sources -> Entry] /\ clock \in Nat /\ objects \subseteq Sources
      /\ job \in [Uploads -> JobStates] /\ undo \in [Uploads -> SUBSET {"object", "status"}]
      /\ txn \in [Uploads -> TxnType] /\ run \in [Compactions -> RunType]
      /\ removal \in [Sources -> {"none", "object", "done"}]
  BY DEF TypeOK, TxnType, RunType
<1>1. ASSUME NEW u \in Uploads, Read(u) PROVE Lifecycle'
  BY <1>a, <1>1 DEF Read, JobTo
<1>2. ASSUME NEW u \in Uploads, Store(u) PROVE Lifecycle'
  BY <1>a, <1>2, SourcesAreEither DEF Store, JobTo
<1>3. ASSUME NEW u \in Uploads, Begin(u) PROVE Lifecycle'
  BY <1>a, <1>3 DEF Begin, JobTo, TxnType
<1>4. ASSUME NEW u \in Uploads, LockRow(u) \/ LockOwner(u) PROVE Lifecycle'
  <2>1. PICK pc \in TxnStates : txn' = [txn EXCEPT ![u].pc = pc]
    BY <1>4 DEF LockRow, LockOwner, TxnStates
  <2>2. /\ txn'[u].pc = pc /\ \A o \in Uploads : o # u => txn'[o] = txn[o]
        /\ \A o \in Uploads : txn'[o].at = txn[o].at
    BY <1>a, <2>1, TxnStep
  <2>3. CASE LockRow(u)
    BY <1>a, <2>2, <2>3, SourcesAreEither DEF LockRow, client, TxnType
  <2>4. CASE LockOwner(u)
    BY <1>a, <2>2, <2>4 DEF LockOwner, client, TxnType
  <2> QED
    BY <1>4, <2>3, <2>4
<1>5. ASSUME NEW u \in Uploads, Activate(u) PROVE Lifecycle'
  <2>1. /\ txn[u].pc = "advisory" /\ registry[u].at = 0 /\ txn[u].at # 0
        /\ registry[u].status = "valid" /\ u \in Sources
    BY <1>5, SourcesAreEither DEF Activate
  <2>2. /\ txn'[u].pc = "committed"
        /\ \A o \in Uploads : o # u => txn'[o] = txn[o]
    BY <1>a, <1>5, TxnStep DEF Activate, TxnStates
  <2>3. /\ registry'[u].status = "active" /\ registry'[u].at = txn[u].at
        /\ \A s \in Sources : registry'[s].rows = registry[s].rows
        /\ \A s \in Sources \ {u} :
             /\ registry'[s].at = registry[s].at
             /\ \/ registry'[s].status = registry[s].status
                \/ registry[s].status = "active" /\ registry'[s].status = "superseded"
    BY <1>5, <2>1, ActivateStep DEF Replaced, Active
  <2>4. UNCHANGED <<objects, job, undo, run, removal>>
    BY <1>5 DEF Activate, client
  <2>5. Dated' /\ Registering'
    BY <1>a, <2>1, <2>2, <2>3, <2>4, SourcesAreEither
  <2>6. Keeping' /\ Compacting'
    BY <1>a, <2>1, <2>3, <2>4, SourcesAreEither
  <2> QED
    BY <2>5, <2>6
<1>6. ASSUME NEW u \in Uploads, Answered(u) \/ ReplyLost(u) PROVE Lifecycle'
  BY <1>a, <1>6 DEF Answered, ReplyLost, JobTo
<1>7. ASSUME NEW u \in Uploads, ClientDies(u) \/ UndoEnds(u) PROVE Lifecycle'
  BY <1>a, <1>7 DEF ClientDies, UndoEnds, JobTo
<1>8. ASSUME NEW u \in Uploads, UndoObject(u) PROVE Lifecycle'
  BY <1>a, <1>8 DEF UndoObject
<1>9. ASSUME NEW u \in Uploads, UndoStatus(u) PROVE Lifecycle'
  <2>1. /\ u \in Sources /\ registry'[u].status = "invalid"
        /\ \A o \in Sources : o # u => registry'[o] = registry[o]
        /\ \A o \in Sources : registry'[o].at = registry[o].at /\ registry'[o].rows = registry[o].rows
    BY <1>a, <1>9, SourcesAreEither, StatusStep DEF UndoStatus, Statuses
  <2>2. txn[u].pc \notin {"row", "advisory"} /\ job[u] = "undo"
    BY <1>9 DEF UndoStatus, RowFree
  <2> QED
    BY <1>a, <1>9, <2>1, <2>2, SourcesAreEither DEF UndoStatus
<1>10. ASSUME NEW s \in Sources, Remove(s) PROVE Lifecycle'
  <2>1. /\ registry'[s].status = "deleted"
        /\ \A o \in Sources : o # s => registry'[o] = registry[o]
        /\ \A o \in Sources : registry'[o].at = registry[o].at /\ registry'[o].rows = registry[o].rows
    BY <1>a, <1>10, StatusStep DEF Remove, Statuses
  <2>2. /\ s \in Uploads => txn[s].pc \notin {"row", "advisory"}
        /\ registry[s].status # "absent"
    BY <1>10 DEF Remove, RowFree
  <2>3. /\ UNCHANGED <<objects, job, undo, txn, run>>
        /\ removal' = [removal EXCEPT ![s] = "object"]
    BY <1>10 DEF Remove, client
  <2>4. Dated' /\ Registering' /\ Compacting'
    BY <1>a, <2>1, <2>2, <2>3, SourcesAreEither
  <2>5. Keeping'
    BY <1>a, <2>1, <2>3, SourcesAreEither
  <2> QED
    BY <2>4, <2>5
<1>11. ASSUME NEW s \in Sources, RemoveObject(s) PROVE Lifecycle'
  BY <1>a, <1>11 DEF RemoveObject, client
<1>12. ASSUME NEW c \in Compactions, Plan(c) PROVE Lifecycle'
  BY <1>a, <1>12, SourcesAreEither DEF Plan, client
<1>13. ASSUME NEW c \in Compactions, Stage(c) PROVE Lifecycle'
  <2>1. /\ run'[c].pc \in {"cutover", "stopped"} /\ run'[c].rows = run[c].rows
        /\ \A o \in Compactions : o # c => run'[o] = run[o]
    BY <1>a, <1>13, RunStep DEF Stage, RunStates
  <2>2. /\ registry'[c].status = "valid" /\ registry'[c].at = 0 /\ registry'[c].rows = run[c].rows
        /\ \A o \in Sources : o # c => registry'[o] = registry[o]
    BY <1>a, <1>13, SourcesAreEither DEF Stage
  <2>3. objects' = objects \cup {c} /\ UNCHANGED <<job, undo, txn, removal>>
    BY <1>13 DEF Stage, client
  <2>4. registry[c].status = "absent"
    BY <1>13 DEF Stage
  <2> QED
    BY <1>a, <2>1, <2>2, <2>3, <2>4, SourcesAreEither
<1>14. ASSUME NEW c \in Compactions, LockTable(c) \/ LockSet(c) \/ RunnerDies(c) \/ Retry(c)
       PROVE Lifecycle'
  <2>1. UNCHANGED <<registry, objects, job, undo, txn, removal>>
    BY <1>14 DEF LockTable, LockSet, RunnerDies, Retry, client
  <2>2. CASE \E pc \in RunStates \ {"idle", "stage"} : RunTo(c, pc)
    <3>1. /\ run'[c].pc \notin {"idle", "stage"} /\ run'[c].rows = run[c].rows
          /\ \A o \in Compactions : o # c => run'[o] = run[o]
      BY <1>a, <2>2, RunStep
    <3> QED
      BY <2>1, <3>1
  <2>3. CASE run' = [run EXCEPT ![c] = NoRun] /\ registry[c].status = "absent"
    BY <1>a, <2>1, <2>3
  <2> QED
    BY <1>14, <2>2, <2>3 DEF LockTable, LockSet, RunnerDies, Retry, RunStates
<1>15. ASSUME NEW c \in Compactions, Cutover(c) PROVE Lifecycle'
  <2>1. /\ run'[c].pc \notin {"idle", "stage"} /\ run'[c].rows = run[c].rows
        /\ \A o \in Compactions : o # c => run'[o] = run[o]
    BY <1>a, <1>15, RunStep DEF Cutover, RunStates
  <2>2. UNCHANGED <<objects, job, undo, txn, removal>>
    BY <1>15 DEF Cutover, client
  <2>3. CASE UNCHANGED registry
    BY <2>1, <2>2, <2>3
  <2>4. CASE ~UNCHANGED registry
    <3>1. /\ registry[c].status = "valid" /\ c \in Sources
          /\ {[id |-> s, at |-> registry[s].at] : s \in Active(registry)} = run[c].parents
      BY <1>15, <2>4, CutoverStep, SourcesAreEither DEF SwitchAccepts
    <3>2. \A s \in Parents(c) : registry[s].status = "active"
      BY <3>1 DEF Parents, Active
    <3>3. /\ registry'[c].status = "active" /\ registry'[c].at # 0
          /\ \A s \in Sources : registry'[s].rows = registry[s].rows
          /\ \A s \in Sources \ {c} :
               /\ registry'[s].at = registry[s].at
               /\ registry'[s].status = IF s \in Parents(c) THEN "superseded" ELSE registry[s].status
      BY <1>a, <1>15, <2>4, CutoverStep
    <3>4. Dated' /\ Registering'
      BY <2>2, <3>1, <3>2, <3>3, SourcesAreEither
    <3>5. Keeping' /\ Compacting'
      BY <2>1, <2>2, <3>1, <3>2, <3>3, SourcesAreEither
    <3> QED
      BY <3>4, <3>5
  <2> QED
    BY <2>3, <2>4
<1>16. CASE UNCHANGED vars
  BY <1>16 DEF vars, client
<1> QED
  BY <1>1, <1>2, <1>3, <1>4, <1>5, <1>6, <1>7, <1>8, <1>9, <1>10, <1>11, <1>12, <1>13, <1>14, <1>15, <1>16
  DEF Next, Activation

-----------------------------------------------------------------------------
(* What a plan computed stays true of the sources it names.                *)

Planned ==
  \A c \in Compactions :
    run[c].pc # "idle" =>
      /\ \A p \in run[c].parents : p.at # 0 /\ registry[p.id].at = p.at
      /\ run[c].rows = Merged(Parents(c), registry)

RegistryInv == TypeOK /\ Times /\ Lifecycle /\ Planned

\* A source that was ever active keeps its activation time and its rows.
LEMMA ActivatedIsSettled ==
  ASSUME TypeOK, Times, Lifecycle, [Next]_vars, NEW s \in Sources, registry[s].at # 0
  PROVE  registry'[s].at = registry[s].at /\ registry'[s].rows = registry[s].rows
<1> DEFINE Settled == registry'[s].at = registry[s].at /\ registry'[s].rows = registry[s].rows
<1>a. registry \in [Sources -> Entry]
  BY DEF TypeOK
<1>1. ASSUME NEW u \in Uploads, Store(u) PROVE Settled
  <2>1. s # u
    BY <1>1 DEF Store, Lifecycle, Dated, Registering
  <2> QED
    BY <1>a, <1>1, <2>1 DEF Store
<1>2. ASSUME NEW u \in Uploads, Activate(u) PROVE Settled
  BY <1>2, ActivateStep
<1>3. ASSUME NEW u \in Uploads, UndoStatus(u) PROVE Settled
  BY <1>a, <1>3, StatusStep, SourcesAreEither DEF UndoStatus, Statuses
<1>4. ASSUME NEW r \in Sources, Remove(r) PROVE Settled
  BY <1>a, <1>4, StatusStep DEF Remove, Statuses
<1>5. ASSUME NEW c \in Compactions, Stage(c) PROVE Settled
  <2>1. s # c
    BY <1>5, SourcesAreEither DEF Stage, Lifecycle, Dated, Compacting
  <2> QED
    BY <1>a, <1>5, <2>1 DEF Stage
<1>6. ASSUME NEW c \in Compactions, Cutover(c) PROVE Settled
  BY <1>6, CutoverStep DEF Committed
<1>7. CASE UNCHANGED registry
  BY <1>7
<1>8. CASE UNCHANGED vars
  BY <1>8 DEF vars
<1> QED
  BY <1>1, <1>2, <1>3, <1>4, <1>5, <1>6, <1>7, <1>8
  DEF Next, Activation, Read, Begin, LockRow, LockOwner, Answered, ReplyLost, UndoObject, UndoEnds,
      ClientDies, RemoveObject, Plan, LockTable, LockSet, RunnerDies, Retry

\* A run is planned afresh, given up, or keeps its plan.
LEMMA PlanIsKept ==
  ASSUME TypeOK, [Next]_vars, NEW c \in Compactions
  PROVE  \/ Plan(c)
         \/ run'[c].pc = "idle"
         \/ /\ run[c].pc # "idle"
            /\ run'[c].rows = run[c].rows /\ run'[c].parents = run[c].parents
<1> DEFINE Kept == \/ Plan(c)
                   \/ run'[c].pc = "idle"
                   \/ /\ run[c].pc # "idle"
                      /\ run'[c].rows = run[c].rows /\ run'[c].parents = run[c].parents
<1>a. run \in [Compactions -> RunType]
  BY DEF TypeOK, RunType
<1>1. ASSUME NEW d \in Compactions, Plan(d) PROVE Kept
  BY <1>a, <1>1 DEF Plan
<1>2. ASSUME NEW d \in Compactions, run[d].pc # "idle", NEW pc \in RunStates, RunTo(d, pc) PROVE Kept
  BY <1>a, <1>2, RunStep
<1>3. ASSUME NEW d \in Compactions, run' = [run EXCEPT ![d] = NoRun] PROVE Kept
  BY <1>a, <1>3 DEF NoRun
<1>4. CASE UNCHANGED run
  BY <1>4
<1>5. ASSUME NEW d \in Compactions,
             Stage(d) \/ LockTable(d) \/ LockSet(d) \/ Cutover(d) \/ RunnerDies(d) \/ Retry(d)
      PROVE  Kept
  <2>1. \/ run[d].pc # "idle" /\ \E pc \in RunStates : RunTo(d, pc)
        \/ run' = [run EXCEPT ![d] = NoRun]
    BY <1>5 DEF Stage, LockTable, LockSet, Cutover, RunnerDies, Retry, RunStates
  <2> QED
    BY <1>2, <1>3, <2>1
<1>6. ASSUME NEW u \in Uploads,
             \/ Read(u) \/ Store(u) \/ Begin(u) \/ Activation(u) \/ Answered(u) \/ ReplyLost(u)
             \/ UndoObject(u) \/ UndoStatus(u) \/ UndoEnds(u) \/ ClientDies(u)
      PROVE  UNCHANGED run
  BY <1>6 DEF Activation, Read, Store, Begin, LockRow, LockOwner, Activate, Answered, ReplyLost,
              UndoObject, UndoStatus, UndoEnds, ClientDies
<1>7. ASSUME NEW s \in Sources, Remove(s) \/ RemoveObject(s) PROVE UNCHANGED run
  BY <1>7 DEF Remove, RemoveObject
<1>8. CASE UNCHANGED vars
  BY <1>8 DEF vars
<1> QED
  BY <1>1, <1>4, <1>5, <1>6, <1>7, <1>8 DEF Next

\* The ids in a descriptor of sources are those sources.
LEMMA DescribedIds ==
  ASSUME NEW S
  PROVE  {p.id : p \in {[id |-> s, at |-> registry[s].at] : s \in S}} = S
<1> DEFINE D == {[id |-> s, at |-> registry[s].at] : s \in S}
<1>1. \A s \in S : [id |-> s, at |-> registry[s].at] \in D /\ [id |-> s, at |-> registry[s].at].id = s
  OBVIOUS
<1>2. \A p \in D : p.id \in S
  OBVIOUS
<1> HIDE DEF D
<1>3. {p.id : p \in D} = S
  BY <1>1, <1>2
<1> QED
  BY <1>3 DEF D

LEMMA PlannedPreserved == RegistryInv /\ [Next]_vars => Planned'
<1> SUFFICES ASSUME RegistryInv, [Next]_vars, NEW c \in Compactions, run'[c].pc # "idle"
             PROVE  /\ \A p \in run'[c].parents : p.at # 0 /\ registry'[p.id].at = p.at
                    /\ run'[c].rows = Merged({p.id : p \in run'[c].parents}, registry')
  BY DEF Planned, Parents
<1>a. /\ TypeOK /\ Times /\ Lifecycle /\ Planned /\ clock \in Nat
      /\ registry \in [Sources -> Entry] /\ run \in [Compactions -> RunType]
  BY DEF RegistryInv, TypeOK, RunType
<1>1. CASE Plan(c)
  <2>1. /\ run'[c].rows = Data(registry)
        /\ run'[c].parents = {[id |-> s, at |-> registry[s].at] : s \in Active(registry)}
        /\ registry' = registry
    BY <1>a, <1>1 DEF Plan
  <2>2. {p.id : p \in run'[c].parents} = Active(registry)
    BY <2>1, DescribedIds
  <2>3. \A s \in Active(registry) : registry[s].at # 0
    BY <1>a DEF Active, Lifecycle, Dated
  <2> QED
    BY <2>1, <2>2, <2>3 DEF Data
<1>2. CASE /\ run[c].pc # "idle"
           /\ run'[c].rows = run[c].rows /\ run'[c].parents = run[c].parents
  <2>1. \A p \in run[c].parents : /\ p.id \in Sources /\ p.at # 0
                                  /\ registry[p.id].at = p.at
    BY <1>a, <1>2 DEF Planned, RunType
  <2>2. \A s \in Parents(c) :
          /\ s \in Sources
          /\ registry[s].at = registry'[s].at /\ registry[s].rows = registry'[s].rows
    BY <1>a, <2>1, ActivatedIsSettled DEF Parents
  <2>3. \A s \in Parents(c) : registry[s].at \in 0 .. clock
    BY <1>a, <2>2 DEF Times, Entry
  <2>4. Merged(Parents(c), registry) = Merged(Parents(c), registry')
    BY <1>a, <2>2, <2>3, MergedUnchanged
  <2> QED
    BY <1>a, <1>2, <2>1, <2>2, <2>4 DEF Planned, Parents
<1> QED
  BY <1>a, <1>1, <1>2, PlanIsKept

LEMMA RegistryInvariant == Spec => []RegistryInv
<1>1. Init => RegistryInv
  BY TypesInitially, LifecycleInitially DEF RegistryInv, Planned, Init, NoRun
<1>2. RegistryInv /\ [Next]_vars => RegistryInv'
  BY TypesPreserved, LifecyclePreserved, PlannedPreserved DEF RegistryInv
<1> QED
  BY <1>1, <1>2, PTL DEF Spec

-----------------------------------------------------------------------------
(* The theorems.                                                           *)

\* Active and superseded sources keep their bytes: the code marks a row before
\* it removes the object, except in an undo, whose row no longer counts.
THEOREM OriginalsAreKept == Spec => []BytesRetained
<1>1. RegistryInv => BytesRetained
  BY DEF RegistryInv, Lifecycle, Keeping, Stored, BytesRetained
<1> QED
  BY <1>1, RegistryInvariant, PTL

\* No transaction, however late, and no retry brings back a source that was
\* superseded, removed or undone.
THEOREM NothingComesBack == Spec => NoResurrection
<1> DEFINE Step == \A s \in Sources :
              registry[s].status \in {"superseded", "deleted", "invalid"} =>
                registry'[s].status # "active"
<1>1. ASSUME RegistryInv, [Next]_vars PROVE Step
  <2>a. /\ TypeOK /\ Times /\ Lifecycle /\ registry \in [Sources -> Entry]
    BY <1>1 DEF RegistryInv, TypeOK
  <2>1. ASSUME NEW u \in Uploads, Store(u) PROVE Step
    BY <2>a, <2>1 DEF Store
  <2>2. ASSUME NEW u \in Uploads, Activate(u) PROVE Step
    <3>1. registry[u].status = "valid"
      BY <2>a, <2>2 DEF Activate, Lifecycle, Registering
    <3>2. \A s \in Sources \ {u} :
            registry'[s].status = IF s \in Replaced(u) THEN "superseded" ELSE registry[s].status
      BY <2>a, <2>2, ActivateStep
    <3> QED
      BY <3>1, <3>2
  <2>3. ASSUME NEW u \in Uploads, UndoStatus(u) PROVE Step
    BY <2>a, <2>3, StatusStep, SourcesAreEither DEF UndoStatus, Statuses
  <2>4. ASSUME NEW r \in Sources, Remove(r) PROVE Step
    BY <2>a, <2>4, StatusStep DEF Remove, Statuses
  <2>5. ASSUME NEW c \in Compactions, Stage(c) PROVE Step
    BY <2>a, <2>5 DEF Stage
  <2>6. ASSUME NEW c \in Compactions, Cutover(c) PROVE Step
    <3>1. CASE UNCHANGED registry
      BY <3>1
    <3>2. CASE ~UNCHANGED registry
      <4>1. /\ registry[c].status = "valid"
            /\ \A s \in Sources \ {c} :
                 registry'[s].status = IF s \in Parents(c) THEN "superseded" ELSE registry[s].status
        BY <2>a, <2>6, <3>2, CutoverStep DEF SwitchAccepts
      <4> QED
        BY <4>1
    <3> QED
      BY <3>1, <3>2
  <2>7. CASE UNCHANGED registry
    BY <2>7
  <2>8. CASE UNCHANGED vars
    BY <2>8 DEF vars
  <2> QED
    BY <1>1, <2>1, <2>2, <2>3, <2>4, <2>5, <2>6, <2>7, <2>8
    DEF Next, Activation, Read, Begin, LockRow, LockOwner, Answered, ReplyLost, UndoObject, UndoEnds,
        ClientDies, RemoveObject, Plan, LockTable, LockSet, RunnerDies, Retry
<1> QED
  BY <1>1, RegistryInvariant, PTL DEF Spec, NoResurrection

\* A committed cutover leaves the dataset and its raw origins as they were,
\* whatever ran between its plan and its commit.
THEOREM CutoverIsInvisible == Spec => CutoverPreservesData
<1> DEFINE Step == \A c \in Compactions :
              ~Committed(c) /\ Committed(c)' =>
                Data(registry') = Data(registry) /\ Origins(registry') = Origins(registry)
<1>1. ASSUME RegistryInv, [Next]_vars PROVE Step
  <2> SUFFICES ASSUME NEW c \in Compactions, registry[c].at = 0, registry'[c].at # 0
               PROVE  /\ Data(registry') = Data(registry)
                      /\ Origins(registry') = Origins(registry)
    BY DEF Committed
  <2>a. /\ TypeOK /\ Times /\ Lifecycle /\ Planned /\ registry \in [Sources -> Entry] /\ c \in Sources
    BY <1>1, SourcesAreEither DEF RegistryInv, TypeOK
  <2>1. Cutover(c)
    <3>1. ASSUME NEW u \in Uploads, Store(u) PROVE FALSE
      BY <2>a, <3>1, SourcesAreEither DEF Store
    <3>2. ASSUME NEW u \in Uploads, Activate(u) PROVE FALSE
      BY <2>a, <3>2, ActivateStep, SourcesAreEither
    <3>3. ASSUME NEW u \in Uploads, UndoStatus(u) PROVE FALSE
      BY <2>a, <3>3, StatusStep, SourcesAreEither DEF UndoStatus, Statuses
    <3>4. ASSUME NEW r \in Sources, Remove(r) PROVE FALSE
      BY <2>a, <3>4, StatusStep DEF Remove, Statuses
    <3>5. ASSUME NEW d \in Compactions, Stage(d) PROVE FALSE
      BY <2>a, <3>5, SourcesAreEither DEF Stage
    <3>6. ASSUME NEW d \in Compactions, Cutover(d), d # c PROVE FALSE
      BY <2>a, <3>6, CutoverStep, SourcesAreEither
    <3>7. registry' # registry
      OBVIOUS
    <3> QED
      BY <1>1, <3>1, <3>2, <3>3, <3>4, <3>5, <3>6, <3>7
      DEF Next, Activation, Read, Begin, LockRow, LockOwner, Answered, ReplyLost, UndoObject, UndoEnds,
          ClientDies, RemoveObject, Plan, LockTable, LockSet, RunnerDies, Retry, vars
  <2>2. /\ SwitchAccepts(c)
        /\ registry'[c].status = "active" /\ registry'[c].origins = OriginsOf(c)
        /\ registry'[c].rows = registry[c].rows
        /\ \A s \in Sources \ {c} :
             registry'[s].status = IF s \in Parents(c) THEN "superseded" ELSE registry[s].status
    BY <2>a, <2>1, CutoverStep
  <2>3. Parents(c) = Active(registry)
    BY <2>2, DescribedIds DEF SwitchAccepts, Parents
  <2>4. Active(registry') = {c}
    BY <2>a, <2>2, <2>3 DEF Active
  <2>5. registry[c].rows = Data(registry)
    <3>1. registry[c].status = "valid" /\ run[c].pc # "idle"
      BY <2>1, <2>2 DEF SwitchAccepts, Cutover
    <3>2. registry[c].rows = run[c].rows
      BY <2>a, <3>1 DEF Lifecycle, Compacting
    <3> QED
      BY <2>a, <2>3, <3>1, <3>2 DEF Planned, Data
  <2>6. Data(registry') = Data(registry)
    <3> DEFINE rows == registry'[c].rows
               D == {j \in Keys : Holders(Active(registry), registry, j) # {}}
    <3>1. \A k : Holders({c}, registry', k) = IF k \in DOMAIN rows THEN {c} ELSE {}
      BY DEF Holders
    <3>2. \A k \in DOMAIN rows : Top({c}, registry', k) = c
      <4>1. registry'[c].at \in Nat
        BY <2>a, <2>1, CutoverStep DEF Entry
      <4>2. \A s \in {c} : registry'[s].at \in 0 .. registry'[c].at
        BY <4>1
      <4>3. \A k \in DOMAIN rows : Holders({c}, registry', k) = {c}
        BY <3>1
      <4>4. ASSUME NEW k \in DOMAIN rows
            PROVE  Top({c}, registry', k) \in Holders({c}, registry', k)
        <5>1. Holders({c}, registry', k) # {}
          BY <4>3
        <5> QED
          BY <4>1, <4>2, <5>1, TopIsHolder
      <4> QED
        BY <4>3, <4>4
    <3>3. rows = Merged(Active(registry), registry) /\ DOMAIN rows = D
      BY <2>2, <2>5 DEF Data, Merged
    <3>4. {j \in Keys : Holders({c}, registry', j) # {}} = DOMAIN rows
      BY <3>1, <3>3
    <3>5. Merged({c}, registry') = [k \in DOMAIN rows |-> rows[k]]
      BY <3>2, <3>4 DEF Merged
    <3>6. rows = [k \in DOMAIN rows |-> rows[k]]
      BY <3>3 DEF Merged
    <3> QED
      BY <2>2, <2>4, <2>5, <3>5, <3>6 DEF Data
  <2>7. Origins(registry') = Origins(registry)
    BY <2>2, <2>3, <2>4 DEF Origins, OriginsOf
  <2> QED
    BY <2>6, <2>7
<1> QED
  BY <1>1, RegistryInvariant, PTL DEF Spec, CutoverPreservesData
=============================================================================
