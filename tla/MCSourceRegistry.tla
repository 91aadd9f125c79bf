--------------------------- MODULE MCSourceRegistry ---------------------------
(***************************************************************************)
(* Instances of SourceRegistry for TLC: "old1" and "old2" are active at    *)
(* the start and overlap, so that their order matters.                     *)
(***************************************************************************)
EXTENDS SourceRegistry, TLC

MCKeys == {"k1", "k2"}
MCValues == {1, 2}

AllModes == [old1 |-> "append", old2 |-> "merge", append |-> "append", late |-> "append",
             merge |-> "merge", replace |-> "replace"]
AllContent ==
  [old1 |-> ("k1" :> 1 @@ "k2" :> 1), old2 |-> ("k1" :> 2), append |-> ("k2" :> 1),
   late |-> ("k1" :> 1), merge |-> ("k2" :> 2), replace |-> ("k1" :> 1)]

MCMode == [u \in Uploads |-> AllModes[u]]
MCContent == [u \in Uploads |-> AllContent[u]]

TwoActive == <<"old1", "old2">>
NoneActive == <<>>
=============================================================================
