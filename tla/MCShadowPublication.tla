------------------------ MODULE MCShadowPublication -------------------------
(***************************************************************************)
(* Small instances of ShadowPublication: two books, two sessions, a replay *)
(* and, where the market has them, a continuation.                         *)
(***************************************************************************)
EXTENDS ShadowPublication, TLC

CONSTANTS replayA, continuation
=============================================================================
