----------------------------- MODULE DatedResults -----------------------------
(***************************************************************************)
(* What the results of dated sources promise: a day is recorded once,      *)
(* later than every recorded day, with a result that continues the one of  *)
(* the day before, or begins anew after a gap; a page shows the newest     *)
(* recorded result, so it never goes back; and a correction is one of the  *)
(* newest recorded result, after a recorded day, and later than the        *)
(* correction before it.                                                   *)
(***************************************************************************)
EXTENDS Naturals, Sequences

CONSTANTS Days, Inputs, Pages, Corrections, Nothing

VARIABLES recorded, pages, correction

Init ==
  /\ recorded = [d \in Days |-> Nothing]
  /\ pages = [p \in Pages |-> Nothing] /\ correction = Nothing

Known == {d \in Days : recorded[d] # Nothing}
IsNewest(d) == d \in Known /\ \A e \in Known : e <= d

Own(result) == result[Len(result)]
Continued(d, input) ==
  IF d - 1 \in Known THEN Append(recorded[d - 1], input) ELSE <<input>>

Record(d, h) ==
  /\ \A e \in Known : e < d
  /\ recorded' = [recorded EXCEPT ![d] = Continued(d, [date |-> d, hash |-> h])]
  /\ UNCHANGED <<pages, correction>>

Show(d, p) ==
  /\ IsNewest(d)
  /\ pages' = [pages EXCEPT ![p] = recorded[d]]
  /\ UNCHANGED <<recorded, correction>>

Correct(d, n) ==
  /\ IsNewest(d) /\ (d - 1 \in Days => d - 1 \in Known)
  /\ correction # Nothing =>
       \/ correction.date < d
       \/ correction.date = d /\ correction.revision < n
  /\ correction' = [date |-> d, original |-> Own(recorded[d]).hash, revision |-> n]
  /\ UNCHANGED <<recorded, pages>>

\* A step that neither records nor shows anything.
Idle == UNCHANGED <<recorded, pages, correction>>

Next ==
  \/ Idle
  \/ \E d \in Days :
    \/ \E h \in Inputs : Record(d, h)
    \/ \E p \in Pages : Show(d, p)
    \/ \E n \in Corrections : Correct(d, n)

Spec == Init /\ [][Next]_<<recorded, pages, correction>>
=============================================================================
