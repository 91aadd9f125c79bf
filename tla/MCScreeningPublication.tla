------------------------ MODULE MCScreeningPublication ------------------------
(***************************************************************************)
(* The instance of ScreeningPublication for TLC: the confirmed sources of  *)
(* a day and the preview of the next, which a saved Drive file confirms.   *)
(***************************************************************************)
EXTENDS ScreeningPublication

CONSTANTS workflow, web

FinalThenPreview == <<[date |-> 1, phase |-> "FINAL"], [date |-> 2, phase |-> "PRELIMINARY"]>>
ConfirmingFile == <<[date |-> 2, phase |-> "FINAL"]>>
OneCode == [cli |-> 1, web |-> 1]
=============================================================================
