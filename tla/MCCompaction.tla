----------------------------- MODULE MCCompaction -----------------------------
(***************************************************************************)
(* The compactions of SourceRegistry for TLC, each behaviour with the part *)
(* of the registrations, compactions and removals that its scenario names: *)
(* a cutover beside a merge, a replace and removals, or a second           *)
(* compaction of the first one's file and an append.  Who has no part      *)
(* never starts.                                                           *)
(***************************************************************************)
EXTENDS MCSourceRegistry

VARIABLE scenario

Part == [cutover |-> [starts |-> {"merge", "replace", "c"}, removed |-> {"old2", "merge"}],
         recompaction |-> [starts |-> {"append", "c", "d"}, removed |-> {"c"}]]

OthersWait ==
  /\ \A u \in Uploads \ Part[scenario].starts : job'[u] = job[u]
  /\ \A c \in Compactions \ Part[scenario].starts : run'[c] = run[c]
  /\ \A s \in Sources \ Part[scenario].removed : removal'[s] = removal[s]

CompactionInit == Init /\ scenario \in DOMAIN Part
CompactionNext == Next /\ OthersWait /\ UNCHANGED scenario
CompactionSpec == CompactionInit /\ [][CompactionNext]_<<vars, scenario>> /\ Fairness
=============================================================================
