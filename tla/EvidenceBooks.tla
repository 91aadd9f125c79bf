---------------------------- MODULE EvidenceBooks ----------------------------
(***************************************************************************)
(* What the books of sealed evidence promise: the evidence of a slot is    *)
(* sealed once, with something that was prepared for it; and each book,    *)
(* once opened, takes day after day, every day when all that it needs is   *)
(* sealed, from the sealed evidence and nothing else.  No day is left out, *)
(* taken twice or taken back.                                              *)
(***************************************************************************)
EXTENDS Naturals, Sequences

CONSTANTS
  Books, Slots, Missing,
  Prepared,   \* [Slots -> what may be prepared for a slot]
  Needs, Uses \* [1 .. the number of days -> slots a day waits for, and is computed from]

VARIABLES sealed, opened, books

Init ==
  /\ sealed \in [Slots -> (UNION {Prepared[s] : s \in Slots}) \cup {Missing}]
  /\ \A s \in Slots : sealed[s] \in Prepared[s] \cup {Missing}
  /\ opened \in SUBSET Books /\ books = [b \in Books |-> <<>>]

Seal(s, value) ==
  /\ sealed[s] = Missing
  /\ sealed' = [sealed EXCEPT ![s] = value]
  /\ UNCHANGED <<opened, books>>

Open(b) ==
  /\ opened' = opened \cup {b}
  /\ UNCHANGED <<sealed, books>>

TakeDay(b) ==
  LET day == Len(books[b]) + 1 IN
  /\ b \in opened /\ day \in DOMAIN Needs
  /\ \A s \in Needs[day] : sealed[s] # Missing
  /\ books' = [books EXCEPT ![b] = Append(@, [s \in Uses[day] |-> sealed[s]])]
  /\ UNCHANGED <<sealed, opened>>

\* A step the store of evidence does not show.
Idle == UNCHANGED <<sealed, opened, books>>

Next ==
  \/ Idle
  \/ \E s \in Slots : \E value \in Prepared[s] : Seal(s, value)
  \/ \E b \in Books : Open(b) \/ TakeDay(b)

Spec == Init /\ [][Next]_<<sealed, opened, books>>
=============================================================================
