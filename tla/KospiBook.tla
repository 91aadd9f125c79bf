------------------------------ MODULE KospiBook ------------------------------
(***************************************************************************)
(* The KOSPI model book (engine/kospiShadow.ts): what one confirmed close  *)
(* does to the positions, the orders and the candidates, session after     *)
(* session.  An onset (score from below 8 to 8 or more) is confirmed or    *)
(* dropped at the next close and bought at a later open.  The published    *)
(* research series buys at the next open or not at all; the unified model  *)
(* of October 12 (variable unified) carries an entry that had no room, no  *)
(* open or no cash.                                                        *)
(*                                                                         *)
(* Data abstraction.  A score is a level: 0 missing, 1 below 8, 2 below    *)
(* 9.5, 3 from 9.5.  Prices are positive or not, so a lack of cash may     *)
(* refuse any entry, and the order of the entries (score, priority,        *)
(* symbol) is any order.  Shares, fees, NAV and its statistics, and the    *)
(* wording of reasons, are left out.  A missing row is the row NoRow.      *)
(* Both models are of sessions from October 12 on; before that day any     *)
(* score from 9.5 refuses a confirmation, not only a crossing of 9.5.      *)
(***************************************************************************)
EXTENDS Naturals, FiniteSets

CONSTANTS
  Stocks,
  SectorOf,       \* [Stocks -> sectors]
  RowsOf,         \* [Stocks -> the rows a session may have for it]
  Slots, MaxPerSector, MaxHoldingSessions,
  LastBookDay     \* bound: sessions

RowTypes == [score : 0 .. 3, open : BOOLEAN, volume : BOOLEAN, close : BOOLEAN,
             observed : BOOLEAN, eligible : BOOLEAN, fit : BOOLEAN, rising : BOOLEAN]

ASSUME KospiBookAssumption ==
  /\ IsFiniteSet(Stocks) /\ RowsOf \in [Stocks -> SUBSET RowTypes]
  /\ {Slots, MaxPerSector, MaxHoldingSessions, LastBookDay} \subseteq Nat
  /\ MaxHoldingSessions > 0

VARIABLES
  unified,
  bookDay,         \* lastDate
  previousRows,
  awaiting,        \* onsets of the last session
  pendingEntries,
  pendingExits,    \* stocks with an exit order
  positions,       \* held stocks, with the candidate bought, its day and the sessions held
  fills,           \* trades: every buy
  crossings        \* history: days on which a stock was seen crossing 9.5 upwards

bookVars == <<unified, bookDay, previousRows, awaiting, pendingEntries, pendingExits, positions,
              fills, crossings>>

NoRow == [score |-> 0, open |-> FALSE, volume |-> FALSE, close |-> FALSE, observed |-> FALSE,
          eligible |-> FALSE, fit |-> FALSE, rising |-> FALSE]
\* The rows of a session: a stock may have none.
Tables ==
  {rows \in [Stocks -> {NoRow} \cup UNION {RowsOf[s] : s \in Stocks}] :
     \A s \in Stocks : rows[s] \in RowsOf[s] \cup {NoRow}}

Gates == {"RISK_ON", "RISK_OFF", "UNKNOWN"}

StocksOf(entries) == {e.symbol : e \in entries}
Executable(row) == row.open /\ row.volume
CrossesUp95(old, row) == old.score \in {1, 2} /\ row.score = 3
Onset(old, row) == old.score = 1 /\ row.score >= 2 /\ row.eligible

\* Only the unified model may start from the rows of the session before.
BookInit ==
  /\ unified \in BOOLEAN
  /\ previousRows \in Tables
  /\ ~unified => previousRows = [s \in Stocks |-> NoRow]
  /\ bookDay = 0 /\ awaiting = {} /\ pendingEntries = {} /\ pendingExits = {} /\ positions = {}
  /\ fills = {} /\ crossings = {}

-----------------------------------------------------------------------------
(* The open: exits first, then entries.                                    *)

\* "Missing/halted opens defer exits only."
AfterExits(rows) ==
  {p \in positions : ~(p.symbol \in pendingExits /\ Executable(rows[p.symbol]))}

InSector(stocks, s) == {t \in stocks : SectorOf[t] = SectorOf[s]}

\* What may be bought together: one entry per stock that is not held, within
\* both caps, at an executable open.
MayBuy(bought, kept, rows) ==
  LET stocks == StocksOf(bought)
      held == StocksOf(kept) \cup stocks IN
  /\ Cardinality(stocks) = Cardinality(bought) /\ stocks \cap StocksOf(kept) = {}
  /\ Cardinality(held) <= Slots
  /\ \A s \in stocks :
       Cardinality(InSector(held, s)) <= MaxPerSector /\ Executable(rows[s])

Bought(c) == [symbol |-> c.symbol, origin |-> c.origin, confirmed |-> c.confirmed,
              entry |-> bookDay + 1, held |-> 0]

\* The unified model keeps what it could not buy, unless a close crosses 9.5.
Carried(kept, rows) ==
  {c \in pendingEntries : /\ unified
                          /\ c.symbol \notin StocksOf(kept)
                          /\ ~CrossesUp95(previousRows[c.symbol], rows[c.symbol])}

-----------------------------------------------------------------------------
(* The close.                                                              *)

\* A stock without trades while others trade is sold at the open before.
Unobserved(s, rows) ==
  /\ unified /\ ~rows[s].volume /\ previousRows[s].open
  /\ \E other \in Stocks \ {s} : rows[other].volume

HeldOneMore(p, rows) ==
  LET row == rows[p.symbol] IN
  IF (unified /\ row.observed) \/ (~unified /\ row.close)
  THEN [p EXCEPT !.held = @ + 1] ELSE p

Expired(p) == p.held >= MaxHoldingSessions
SoldAtClose(p, rows) == Expired(p) /\ rows[p.symbol].close /\ Executable(rows[p.symbol])

AfterClose(kept, rows) ==
  {p \in {HeldOneMore(q, rows) : q \in {r \in kept : ~Unobserved(r.symbol, rows)}} :
     ~SoldAtClose(p, rows)}

\* Mutant: an order stays with the stock, not with the position.
OrdersOfHeld(sold, closed) == pendingExits \cap StocksOf(closed)

\* Closing a position, at the open or the close, deletes its order.
OrdersLeft(sold, closed) == pendingExits \cap StocksOf(sold) \cap StocksOf(closed)

\* Orders left over, holdings that expired without an executable close, and
\* upward exits.
OrdersAfter(sold, closed, rows) ==
  OrdersLeft(sold, closed) \cup
    StocksOf({p \in closed : \/ Expired(p) /\ (unified \/ rows[p.symbol].close)
                             \/ CrossesUp95(previousRows[p.symbol], rows[p.symbol])})

\* An onset in a falling market needs a rising relative strength.
Confirms(c, row) ==
  /\ row.fit /\ row.open /\ row.score >= 2 /\ ~CrossesUp95(previousRows[c.symbol], row)
  /\ c.bear => row.rising

Confirmed(rows) ==
  {[symbol |-> c.symbol, origin |-> c.origin, confirmed |-> bookDay + 1] :
     c \in {a \in awaiting : Confirms(a, rows[a.symbol])}}

Onsets(rows, gate) ==
  {[symbol |-> s, origin |-> bookDay + 1, bear |-> gate = "RISK_OFF"] :
     s \in {t \in Stocks : gate # "UNKNOWN" /\ Onset(previousRows[t], rows[t])}}

\* stepKospiShadow: the exact next session.
Session(rows, onsets, bought) ==
  LET sold == AfterExits(rows)
      kept == sold \cup {Bought(c) : c \in bought}
      closed == AfterClose(kept, rows) IN
  /\ MayBuy(bought, sold, rows)
  /\ bookDay' = bookDay + 1
  /\ positions' = closed
  /\ fills' = fills \cup {Bought(c) : c \in bought}
  /\ pendingExits' = OrdersAfter(sold, closed, rows)
  /\ pendingEntries' = Carried(kept, rows) \cup Confirmed(rows)
  /\ awaiting' = onsets
  /\ previousRows' = rows
  /\ crossings' = crossings \cup
       {[symbol |-> s, day |-> bookDay + 1] :
          s \in {t \in Stocks : CrossesUp95(previousRows[t], rows[t])}}
  /\ UNCHANGED unified

BookNext ==
  /\ bookDay < LastBookDay
  /\ \E rows \in Tables, bought \in SUBSET pendingEntries :
       \E onsets \in {Onsets(rows, gate) : gate \in Gates} : Session(rows, onsets, bought)

BookSpec == BookInit /\ [][BookNext]_bookVars

-----------------------------------------------------------------------------
(* Types and safety.                                                       *)

BookDays == 1 .. LastBookDay
Onsetters == [symbol : Stocks, origin : BookDays, bear : BOOLEAN]
Entries == [symbol : Stocks, origin : BookDays, confirmed : BookDays]
Positions == [symbol : Stocks, origin : BookDays, confirmed : BookDays, entry : BookDays,
              held : 0 .. LastBookDay]

\* The type invariant of the model book.
BookTypeOK ==
  /\ unified \in BOOLEAN /\ bookDay \in 0 .. LastBookDay
  /\ previousRows \in Tables
  /\ awaiting \subseteq Onsetters /\ pendingEntries \subseteq Entries
  /\ pendingExits \subseteq Stocks
  /\ positions \subseteq Positions /\ fills \subseteq Positions
  /\ crossings \subseteq [symbol : Stocks, day : BookDays]

CrossedSince(symbol, first, last) ==
  \E x \in crossings : x.symbol = symbol /\ x.day \in first .. last

\* The book keeps to its policy over any number of sessions: the caps on
\* positions and sectors; every buy is of one confirmed onset, bought once,
\* after its confirmation and before any upward crossing of 9.5 since; and a
\* position has an exit order exactly when it expired or crossed 9.5 after its
\* own entry, not because of a position of the same stock before it.
KospiBookIsSound ==
  /\ Cardinality(positions) <= Slots
  /\ Cardinality(StocksOf(positions)) = Cardinality(positions)
  /\ \A s \in StocksOf(positions) :
       Cardinality(InSector(StocksOf(positions), s)) <= MaxPerSector
  /\ pendingExits =
       StocksOf({p \in positions : Expired(p) \/ CrossedSince(p.symbol, p.entry, bookDay)})
  /\ \A f \in fills :
       /\ f.confirmed = f.origin + 1 /\ f.confirmed < f.entry
       /\ ~unified => f.entry = f.confirmed + 1
       /\ ~CrossedSince(f.symbol, f.confirmed, f.entry - 1)
       /\ \A g \in fills : f.symbol = g.symbol /\ f.origin = g.origin => f = g
=============================================================================
