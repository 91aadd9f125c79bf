----------------------------- MODULE ShadowBooks -----------------------------
(***************************************************************************)
(* What a market's model books promise: every trading day is decided once, *)
(* for all books, after every book has the day before; and each book       *)
(* records exactly the decided days, in order.                             *)
(***************************************************************************)
EXTENDS Naturals, Sequences

CONSTANTS Books, Days

VARIABLES decided, recorded    \* days decided, and days each book records

Init == decided = <<>> /\ recorded = [b \in Books |-> <<>>]

Decide(day) ==
  /\ \A b \in Books : recorded[b] = decided
  /\ decided' = Append(decided, day)
  /\ UNCHANGED recorded

Record(b) ==
  /\ Len(recorded[b]) < Len(decided)
  /\ recorded' = [recorded EXCEPT ![b] = Append(@, decided[Len(@) + 1])]
  /\ UNCHANGED decided

Next == (\E day \in Days : Decide(day)) \/ \E b \in Books : Record(b)

Spec == Init /\ [][Next]_<<decided, recorded>>
=============================================================================
