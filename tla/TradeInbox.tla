------------------------------ MODULE TradeInbox ------------------------------
(***************************************************************************)
(* What the approval system promises, without claims, leases, requests,    *)
(* revisions or retries: a staged trade is approved or declined at most    *)
(* once, approving books it in the same step, and nothing else books it.   *)
(***************************************************************************)
CONSTANT Proposals

VARIABLES
  inbox,    \* what the owner sees of each proposal
  booked    \* proposals whose own execution has entered a canonical journal

ivars == <<inbox, booked>>

Init ==
  /\ inbox = [p \in Proposals |-> "ABSENT"]
  /\ booked = {}

Stage(p) ==
  /\ inbox[p] = "ABSENT"
  /\ inbox' = [inbox EXCEPT ![p] = "OPEN"]
  /\ UNCHANGED booked

Approve(p) ==
  /\ inbox[p] = "OPEN"
  /\ inbox' = [inbox EXCEPT ![p] = "RECORDED"]
  /\ booked' = booked \cup {p}

Decline(p) ==
  /\ inbox[p] = "OPEN"
  /\ inbox' = [inbox EXCEPT ![p] = "REJECTED"]
  /\ UNCHANGED booked

Next == \E p \in Proposals : Stage(p) \/ Approve(p) \/ Decline(p)

Spec == Init /\ [][Next]_ivars
=============================================================================
