---------------------------- MODULE CorrectedSeries ----------------------------
(***************************************************************************)
(* What a series of sessions with one reviewed correction promises: the    *)
(* original takes one session after the other, and ends with the one that  *)
(* is corrected; the revised series inherits what was before it, then has  *)
(* the approved sources for that session, then takes one session after     *)
(* the other in turn; nothing is taken back; and what is published of a    *)
(* series is all of it.                                                    *)
(***************************************************************************)
EXTENDS Naturals, Sequences

CONSTANTS
  Corrected,       \* the corrected session
  Inputs, Approved \* the inputs of sessions, and those approved for the corrected one

VARIABLES original, revised, originalPage, revisedPage

Ends(series) == series[Len(series)].date
IsRun(series) == \A i \in DOMAIN series :
  series[i] \in Inputs /\ series[i].date = series[1].date + i - 1

\* The original is new, or complete and published.
Init ==
  /\ \/ original = <<>>
     \/ /\ original # <<>> /\ IsRun(original) /\ Ends(original) = Corrected
  /\ originalPage = original
  /\ revised = <<>> /\ revisedPage = <<>>

Follows(input, series) == series # <<>> => input.date = Ends(series) + 1

TakeOriginal(input) ==
  /\ Follows(input, original) /\ input.date < Corrected
  /\ original' = Append(original, input)
  /\ UNCHANGED <<revised, originalPage, revisedPage>>

\* Days of the original are only inherited once it has ended.
Inherit ==
  /\ original # <<>> /\ Ends(original) = Corrected
  /\ Len(revised) + 1 < Len(original)
  /\ revised' = Append(revised, original[Len(revised) + 1])
  /\ UNCHANGED <<original, originalPage, revisedPage>>

Correct(input) ==
  /\ original # <<>> /\ Ends(original) = Corrected
  /\ Len(revised) + 1 = Len(original)
  /\ input \in Approved
  /\ revised' = Append(revised, input)
  /\ UNCHANGED <<original, originalPage, revisedPage>>

TakeRevised(input) ==
  /\ revised # <<>> /\ Ends(revised) >= Corrected /\ Follows(input, revised)
  /\ revised' = Append(revised, input)
  /\ UNCHANGED <<original, originalPage, revisedPage>>

PublishOriginal ==
  /\ originalPage' = original
  /\ UNCHANGED <<original, revised, revisedPage>>

PublishRevised ==
  /\ Len(revised) >= Len(original)
  /\ revisedPage' = revised
  /\ UNCHANGED <<original, revised, originalPage>>

\* A step that a series does not show.
Idle == UNCHANGED <<original, revised, originalPage, revisedPage>>

Next ==
  \/ Idle
  \/ \E input \in Inputs : TakeOriginal(input) \/ Correct(input) \/ TakeRevised(input)
  \/ Inherit \/ PublishOriginal \/ PublishRevised

Spec == Init /\ [][Next]_<<original, revised, originalPage, revisedPage>>
=============================================================================
