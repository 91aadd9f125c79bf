---------------------------- MODULE SourceRegistry ----------------------------
(***************************************************************************)
(* The registry of screening sources (analysis_source_files of one owner,  *)
(* with the bytes in Storage).  Registrations read the active set, check   *)
(* overlap, store an inactive row and activate it in a transaction of its  *)
(* own; a compaction replaces the whole active set by one equivalent file  *)
(* while registrations and removals go on.                                 *)
(*                                                                         *)
(* Data abstraction.  A source is a partial function from row keys (symbol *)
(* and date) to values; where two active sources have a row, the one       *)
(* activated last gives its value (field-level enrichment and hashes are   *)
(* left out).  A compaction stages one candidate file.  created_at never   *)
(* decides, as activation times are distinct.                              *)
(***************************************************************************)
EXTENDS Naturals, FiniteSets, Sequences

CONSTANTS
  Uploads,      \* registrations, each the id of the source row it creates
  Compactions,  \* compaction operations, each the id of its candidate row
  Keys, Values,
  Mode,         \* [Uploads -> {"append", "merge", "replace"}]
  Content,      \* [Uploads -> rows of the uploaded file]
  Initially,    \* the uploads that are active at the start, oldest first
  Removable,    \* sources the owner may ask to remove
  MaxFaults     \* bound: clients that die or lose a reply

Sources == Uploads \cup Compactions
Rows == UNION {[K -> Values] : K \in SUBSET Keys}

ASSUME RegistryAssumption ==
  /\ Uploads \cap Compactions = {}
  /\ Mode \in [Uploads -> {"append", "merge", "replace"}]
  /\ Content \in [Uploads -> Rows]
  /\ Initially \in Seq(Uploads)
  /\ \A i, j \in 1 .. Len(Initially) : Initially[i] = Initially[j] => i = j
  /\ Removable \subseteq Sources /\ MaxFaults \in Nat

VARIABLES
  registry,    \* status, activation time (0 is null), rows and raw origins
  objects,     \* sources whose bytes are in Storage
  job,         \* client side of each registration
  undo,        \* what a registration that saw an error still has to undo
  txn,         \* its activation transaction
  run,         \* each compaction run and the plan it saved
  removal,     \* what each removal has done
  clock,
  faults

client == <<job, undo>>
vars == <<registry, objects, job, undo, txn, run, removal, clock, faults>>

Statuses == {"absent", "valid", "active", "superseded", "invalid", "deleted"}
Entry == [status : Statuses, at : Nat, rows : Rows, origins : SUBSET Uploads]

-----------------------------------------------------------------------------
(* The dataset that readers see.                                           *)

Active(reg) == {s \in Sources : reg[s].status = "active"}

Holders(S, reg, k) == {s \in S : k \in DOMAIN reg[s].rows}

Top(S, reg, k) ==
  CHOOSE s \in Holders(S, reg, k) : \A o \in Holders(S, reg, k) : reg[o].at <= reg[s].at

Merged(S, reg) ==
  [k \in {j \in Keys : Holders(S, reg, j) # {}} |-> reg[Top(S, reg, k)].rows[k]]

Data(reg) == Merged(Active(reg), reg)

\* The raw sources, with their own collection times, behind the dataset.
Origins(reg) == UNION {reg[s].origins : s \in Active(reg)}

Conflicts(rows, data) == \E k \in DOMAIN rows \cap DOMAIN data : rows[k] # data[k]

-----------------------------------------------------------------------------
(* Locks.  Every transaction below is one step but for activations, which  *)
(* hold their own row from "row" on and the advisory lock from "advisory"  *)
(* on, and cutovers, which hold the table from "table" on and the advisory *)
(* lock at "locked".                                                       *)

AdvisoryFree ==
  /\ \A u \in Uploads : txn[u].pc # "advisory"
  /\ \A c \in Compactions : run[c].pc # "locked"

\* A cutover lets no other transaction write (SHARE ROW EXCLUSIVE).
Writable == \A c \in Compactions : run[c].pc \notin {"table", "locked"}

RowFree(s) == s \in Uploads => txn[s].pc \notin {"row", "advisory"}

NoTxn == [pc |-> "none", at |-> 0]
NoRun == [pc |-> "idle", parents |-> {}, rows |-> <<>>]

Init ==
  LET First(u) == CHOOSE i \in 1 .. Len(Initially) : Initially[i] = u
      present == {Initially[i] : i \in 1 .. Len(Initially)} IN
  /\ registry = [s \in Sources |->
       IF s \in present
       THEN [status |-> "active", at |-> First(s), rows |-> Content[s], origins |-> {s}]
       ELSE [status |-> "absent", at |-> 0, rows |-> <<>>, origins |-> {}]]
  /\ objects = present
  /\ job = [u \in Uploads |-> IF u \in present THEN "done" ELSE "idle"]
  /\ undo = [u \in Uploads |-> {}]
  /\ txn = [u \in Uploads |-> NoTxn]
  /\ run = [c \in Compactions |-> NoRun]
  /\ removal = [s \in Sources |-> "none"]
  /\ clock = Len(Initially)
  /\ faults = 0

SetStatus(s, status) == registry' = [registry EXCEPT ![s].status = status]
JobTo(u, pc) == job' = [job EXCEPT ![u] = pc]
RunTo(c, pc) == run' = [run EXCEPT ![c].pc = pc]

-----------------------------------------------------------------------------
(* Registration (registerSourceBytes).                                     *)

Refused(u) ==
  /\ Mode[u] = "append"
  /\ Conflicts(Content[u], Data(registry))

\* An active source already holds the very same data.
Reusable(u) ==
  /\ Mode[u] = "append"
  /\ \E s \in Active(registry) : registry[s].rows = Content[u]

\* Load the active sources and compare.
Read(u) ==
  /\ job[u] = "idle"
  /\ JobTo(u, IF ~ Active(registry) \subseteq objects THEN "failed"
              ELSE IF Reusable(u) THEN "done"
              ELSE IF Refused(u) THEN "failed" ELSE "store")
  /\ UNCHANGED <<registry, objects, undo, txn, run, removal, clock, faults>>

\* Upload the bytes and insert the row, still inactive.
Store(u) ==
  /\ job[u] = "store" /\ Writable
  /\ registry' = [registry EXCEPT ![u] =
       [status |-> "valid", at |-> 0, rows |-> Content[u], origins |-> {u}]]
  /\ objects' = objects \cup {u}
  /\ JobTo(u, "call")
  /\ UNCHANGED <<undo, txn, run, removal, clock, faults>>

\* now() is the time the activation transaction began.
Begin(u) ==
  /\ job[u] = "call"
  /\ JobTo(u, "wait")
  /\ txn' = [txn EXCEPT ![u] = [pc |-> "begun", at |-> clock + 1]]
  /\ clock' = clock + 1
  /\ UNCHANGED <<registry, objects, undo, run, removal, faults>>

\* Mutant: the status is not looked at.
LockRowBlindly(u) ==
  /\ txn[u].pc = "begun"
  /\ txn' = [txn EXCEPT ![u].pc = "row"]
  /\ UNCHANGED <<registry, objects, client, run, removal, clock, faults>>

\* SELECT ... FOR UPDATE of the row, and the check of its status.
LockRow(u) ==
  /\ txn[u].pc = "begun"
  /\ txn' = [txn EXCEPT ![u].pc =
       IF registry[u].status \in {"valid", "active", "superseded"} THEN "row" ELSE "aborted"]
  /\ UNCHANGED <<registry, objects, client, run, removal, clock, faults>>

LockOwner(u) ==
  /\ txn[u].pc = "row" /\ AdvisoryFree
  /\ txn' = [txn EXCEPT ![u].pc = "advisory"]
  /\ UNCHANGED <<registry, objects, client, run, removal, clock, faults>>

Activate(u) ==
  LET gone == IF Mode[u] = "replace" THEN Active(registry) \ {u} ELSE {} IN
  /\ txn[u].pc = "advisory" /\ Writable
  /\ registry' = [s \in Sources |->
       CASE s = u -> [registry[u] EXCEPT !.status = "active",
                                         !.at = IF @ = 0 THEN txn[u].at ELSE @]
         [] s \in gone -> [registry[s] EXCEPT !.status = "superseded"]
         [] OTHER -> registry[s]]
  /\ txn' = [txn EXCEPT ![u].pc = "committed"]
  /\ UNCHANGED <<objects, client, run, removal, clock, faults>>

\* The reply arrives; an error is answered by undoing the upload.
Answered(u) ==
  /\ job[u] = "wait" /\ txn[u].pc \in {"committed", "aborted"}
  /\ IF txn[u].pc = "committed" THEN JobTo(u, "done") /\ UNCHANGED undo
     ELSE JobTo(u, "undo") /\ undo' = [undo EXCEPT ![u] = {"object", "status"}]
  /\ UNCHANGED <<registry, objects, txn, run, removal, clock, faults>>

\* The reply is lost: the client sees an error while the transaction goes on.
ReplyLost(u) ==
  /\ job[u] = "wait" /\ faults < MaxFaults
  /\ JobTo(u, "undo") /\ undo' = [undo EXCEPT ![u] = {"object", "status"}]
  /\ faults' = faults + 1
  /\ UNCHANGED <<registry, objects, txn, run, removal, clock>>

UndoObject(u) ==
  /\ job[u] = "undo" /\ "object" \in undo[u]
  /\ objects' = objects \ {u}
  /\ undo' = [undo EXCEPT ![u] = @ \ {"object"}]
  /\ UNCHANGED <<registry, job, txn, run, removal, clock, faults>>

UndoStatus(u) ==
  /\ job[u] = "undo" /\ "status" \in undo[u] /\ RowFree(u) /\ Writable
  /\ SetStatus(u, "invalid")
  /\ undo' = [undo EXCEPT ![u] = @ \ {"status"}]
  /\ UNCHANGED <<objects, job, txn, run, removal, clock, faults>>

UndoEnds(u) ==
  /\ job[u] = "undo" /\ undo[u] = {}
  /\ JobTo(u, "failed")
  /\ UNCHANGED <<registry, objects, undo, txn, run, removal, clock, faults>>

\* The client dies, also half way through its undo.
ClientDies(u) ==
  /\ job[u] \in {"store", "call", "wait", "undo"} /\ faults < MaxFaults
  /\ JobTo(u, "failed")
  /\ faults' = faults + 1
  /\ UNCHANGED <<registry, objects, undo, txn, run, removal, clock>>

-----------------------------------------------------------------------------
(* Removal (removeSourceRecord): first the status, then the bytes.         *)

\* Mutant: the bytes go first.
RemoveBytesFirst(s) ==
  /\ s \in Removable /\ removal[s] = "none" /\ registry[s].status # "absent"
  /\ objects' = objects \ {s}
  /\ removal' = [removal EXCEPT ![s] = "object"]
  /\ UNCHANGED <<registry, client, txn, run, clock, faults>>

Remove(s) ==
  /\ s \in Removable /\ removal[s] = "none" /\ registry[s].status # "absent"
  /\ RowFree(s) /\ Writable
  /\ SetStatus(s, "deleted")
  /\ removal' = [removal EXCEPT ![s] = "object"]
  /\ UNCHANGED <<objects, client, txn, run, clock, faults>>

RemoveObject(s) ==
  /\ removal[s] = "object"
  /\ objects' = objects \ {s}
  /\ removal' = [removal EXCEPT ![s] = "done"]
  /\ UNCHANGED <<registry, client, txn, run, clock, faults>>

-----------------------------------------------------------------------------
(* Compaction (runCompaction, retryCompactionCutover, and the transaction  *)
(* compact_screening_source_set).                                          *)

\* Read the active set, verify its bytes and compute the candidate.
Plan(c) ==
  /\ run[c].pc = "idle"
  /\ Cardinality(Active(registry)) > 1 /\ Active(registry) \subseteq objects
  /\ run' = [run EXCEPT ![c] =
       [pc |-> "stage", rows |-> Data(registry),
        parents |-> {[id |-> s, at |-> registry[s].at] : s \in Active(registry)}]]
  /\ UNCHANGED <<registry, objects, client, txn, removal, clock, faults>>

Parents(c) == {p.id : p \in run[c].parents}

\* Upload the candidate, insert its inactive row, check the originals again
\* and save the arguments of the cutover.
Stage(c) ==
  /\ run[c].pc = "stage" /\ Writable
  /\ registry' = [registry EXCEPT ![c] =
       [status |-> "valid", at |-> 0, rows |-> run[c].rows, origins |-> {}]]
  /\ objects' = objects \cup {c}
  /\ RunTo(c, IF Parents(c) \subseteq objects THEN "cutover" ELSE "stopped")
  /\ UNCHANGED <<client, txn, removal, clock, faults>>

\* LOCK TABLE ... NOWAIT: another cutover makes this one fail.
LockTable(c) ==
  /\ run[c].pc = "cutover"
  /\ RunTo(c, IF Writable THEN "table" ELSE "failed")
  /\ UNCHANGED <<registry, objects, client, txn, removal, clock, faults>>

\* Mutant: wait for the activation that holds the owner's lock.
LockSetPatiently(c) ==
  /\ run[c].pc = "table" /\ AdvisoryFree
  /\ RunTo(c, "locked")
  /\ UNCHANGED <<registry, objects, client, txn, removal, clock, faults>>

\* Try the owner's lock; an activation that holds it makes the cutover fail.
LockSet(c) ==
  /\ run[c].pc = "table"
  /\ RunTo(c, IF AdvisoryFree THEN "locked" ELSE "failed")
  /\ UNCHANGED <<registry, objects, client, txn, removal, clock, faults>>

\* The candidate carries the receipt of its cutover.
Committed(c) == registry[c].at # 0

\* Mutant: the active set is not compared with the plan.
SwitchAcceptsAnySet(c) ==
  registry[c].status = "valid" /\ Parents(c) \cup {c} \subseteq objects

\* The active set, row by row and object by object, is still the one planned.
SwitchAccepts(c) ==
  /\ {[id |-> s, at |-> registry[s].at] : s \in Active(registry)} = run[c].parents
  /\ registry[c].status = "valid"
  /\ Parents(c) \cup {c} \subseteq objects

\* A retry after the commit only confirms it.
RetryAccepts(c) ==
  /\ Active(registry) = {c}
  /\ \A s \in Parents(c) : registry[s].status = "superseded"
  /\ Parents(c) \cup {c} \subseteq objects

\* Mutant: a candidate lists its direct parents instead of their origins.
ParentsAsOrigins(c) == Parents(c) \cap Uploads

OriginsOf(c) == UNION {registry[s].origins : s \in Parents(c)}

Cutover(c) ==
  /\ run[c].pc = "locked"
  /\ IF ~Committed(c) /\ SwitchAccepts(c)
     THEN /\ registry' = [s \in Sources |->
               CASE s = c -> [registry[c] EXCEPT !.status = "active", !.at = clock + 1,
                                                 !.origins = OriginsOf(c)]
                 [] s \in Parents(c) -> [registry[s] EXCEPT !.status = "superseded"]
                 [] OTHER -> registry[s]]
          /\ clock' = clock + 1
          /\ RunTo(c, "done")
     ELSE /\ RunTo(c, IF Committed(c) /\ RetryAccepts(c) THEN "done" ELSE "failed")
          /\ UNCHANGED <<registry, clock>>
  /\ UNCHANGED <<objects, client, txn, removal, faults>>

\* The runner dies or loses the reply of a cutover that may have committed.
RunnerDies(c) ==
  /\ run[c].pc \in {"stage", "cutover", "table", "locked", "done"} /\ faults < MaxFaults
  /\ RunTo(c, "failed")
  /\ faults' = faults + 1
  /\ UNCHANGED <<registry, objects, client, txn, removal, clock>>

\* Replay the saved arguments, or start again when none were saved.
Retry(c) ==
  /\ run[c].pc = "failed"
  /\ IF registry[c].status = "absent" THEN run' = [run EXCEPT ![c] = NoRun]
     ELSE RunTo(c, "cutover")
  /\ UNCHANGED <<registry, objects, client, txn, removal, clock, faults>>

-----------------------------------------------------------------------------
Activation(u) == LockRow(u) \/ LockOwner(u) \/ Activate(u)

Next ==
  \/ \E u \in Uploads :
       \/ Read(u) \/ Store(u) \/ Begin(u) \/ Activation(u) \/ Answered(u)
       \/ UndoObject(u) \/ UndoStatus(u) \/ UndoEnds(u)
       \/ ReplyLost(u) \/ ClientDies(u)
  \/ \E s \in Sources : Remove(s) \/ RemoveObject(s)
  \/ \E c \in Compactions :
       Plan(c) \/ Stage(c) \/ LockTable(c) \/ LockSet(c) \/ Cutover(c)
       \/ RunnerDies(c) \/ Retry(c)

Spec == Init /\ [][Next]_vars

\* The database runs what it can, and serves a waiting writer before a later
\* request for the table (hence strong fairness).  No activation takes a step
\* twice, so that fairness towards one of them is fairness towards each.
Fairness ==
  /\ \A u \in Uploads : WF_vars(LockRow(u))
  /\ SF_vars(\E u \in Uploads : LockOwner(u)) /\ SF_vars(\E u \in Uploads : Activate(u))
  /\ \A c \in Compactions : WF_vars(LockSet(c)) /\ WF_vars(Cutover(c))

FairSpec == Spec /\ Fairness

-----------------------------------------------------------------------------
(* Properties.                                                             *)

JobStates == {"idle", "store", "call", "wait", "undo", "done", "failed"}
TxnStates == {"none", "begun", "row", "advisory", "committed", "aborted"}
RunStates == {"idle", "stage", "cutover", "table", "locked", "done", "failed", "stopped"}

\* The type invariant of the registry.
TypeOK ==
  /\ registry \in [Sources -> Entry]
  /\ objects \subseteq Sources
  /\ job \in [Uploads -> JobStates]
  /\ undo \in [Uploads -> SUBSET {"object", "status"}]
  /\ txn \in [Uploads -> [pc : TxnStates, at : Nat]]
  /\ run \in [Compactions -> [pc : RunStates, rows : Rows,
                              parents : SUBSET [id : Sources, at : Nat]]]
  /\ removal \in [Sources -> {"none", "object", "done"}]
  /\ clock \in Nat /\ faults \in 0 .. MaxFaults

\* Readers can load every active source and originals outlive their replacement:
\* the bytes of an active or superseded source stay, unless its own registration
\* saw an error and has not yet marked the row invalid (removals mark it first).
BytesRetained ==
  \A s \in Sources :
    registry[s].status \in {"active", "superseded"} =>
      s \in objects \/ (s \in Uploads /\ "status" \in undo[s])

\* A cutover is invisible in the data: it changes neither the dataset nor the
\* raw sources behind it, although registrations and removals ran since its plan.
CutoverPreservesData ==
  [][\A c \in Compactions :
       ~Committed(c) /\ Committed(c)' =>
         Data(registry') = Data(registry) /\ Origins(registry') = Origins(registry)]_vars

\* A source that was superseded, removed or undone never comes back, whatever
\* late transaction or retry still runs.
NoResurrection ==
  [][\A s \in Sources :
       registry[s].status \in {"superseded", "deleted", "invalid"} =>
         registry'[s].status # "active"]_vars

\* "The try-lock/NOWAIT pattern avoids waiting in the existing activation RPC's
\* opposite row-first/advisory-second lock order": an activation that holds the
\* owner's lock ends without the help of a deadlock detector.
ActivationsEnd ==
  \A u \in Uploads : txn[u].pc = "advisory" ~> txn[u].pc = "committed"

\* "append stops when an active source has another value for the same symbol
\* and date": an append is activated only over data it agrees with.
AppendNeverConflicts ==
  [][\A u \in Uploads :
       Mode[u] = "append" /\ registry[u].status = "valid" /\ registry'[u].status = "active" =>
         ~Conflicts(Content[u], Data(registry))]_vars

\* "merge prefers the new screening file": the rows of a merged file are the
\* rows of the dataset as soon as it is active.
MergeWins ==
  [][\A u \in Uploads :
       Mode[u] = "merge" /\ registry[u].status = "valid" /\ registry'[u].status = "active" =>
         \A k \in DOMAIN Content[u] : Data(registry')[k] = Content[u][k]]_vars
=============================================================================
