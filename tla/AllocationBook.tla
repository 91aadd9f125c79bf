---------------------------- MODULE AllocationBook ----------------------------
(***************************************************************************)
(* One integrated allocation book (integratedAllocationShadow.ts): three   *)
(* sleeves with their own cash, positions and orders, day after day, and   *)
(* at the end of a month the review of O1 that gives the markets that had  *)
(* entry signals their share of the money nobody needs.  S07 keeps its     *)
(* shares.                                                                 *)
(*                                                                         *)
(* Data abstraction.  Money is in whole units, with the fee rounded up and *)
(* divisions rounded down as in the ledger's decimals.  The fee is one     *)
(* part of FeeParts; the code's rate of 0.0015 is three of 2000, which no  *)
(* whole number of parts gives, and no property rests on its size beyond a *)
(* fee of at most the amount it is taken from.  A quote is what            *)
(* the adapter makes of a stock's evidence on a day: 0 is no price; entry  *)
(* says whether the gate, the caps of positions and sectors and the volume *)
(* let it be bought, and an open without volume is no open.  Orders that   *)
(* compete for cash are taken in a fixed order, and a US sleeve has room   *)
(* for every stock of the instance.  Every day is a session of the three   *)
(* markets.  Cost bases, exchange rates, clocks and new years (the         *)
(* reviewed calendar ends with the first) are left out.                    *)
(***************************************************************************)
EXTENDS Integers, FiniteSets, FiniteSetsExt

CONSTANTS
  ListedIn,      \* [{"K", "E", "U"} -> its stocks, finitely many]
  QuotesOf,      \* [stocks -> the quotes a day may have for it]
  OriginLag,     \* [stocks -> days from the onset to its confirmation]
  Capital,       \* a multiple of 15
  BudgetParts,   \* [markets -> entries a sleeve is divided into]
  FeeParts,      \* the fee is one part of so many
  MonthLength, LastAllocationDay \* bounds: days

Sleeves == {"K", "E", "U"}
Listed == UNION {ListedIn[m] : m \in Sleeves}
QuoteTypes ==
  [open : Nat, close : Nat, entry : BOOLEAN, onset : BOOLEAN, confirmed : BOOLEAN, sell : BOOLEAN,
   stop : BOOLEAN, forcedOpen : Nat, forcedClose : Nat, size : Nat]

ASSUME AllocationBookAssumption ==
  /\ Capital \in Nat /\ Capital % 15 = 0 /\ \A m \in Sleeves : IsFiniteSet(ListedIn[m])
  /\ \A m \in Sleeves : BudgetParts[m] \in Nat \ {0}
  /\ FeeParts \in Nat \ {0} /\ MonthLength \in Nat \ {0} /\ LastAllocationDay \in Nat
  /\ \A s \in Listed : OriginLag[s] \in {0, 1}
  /\ \A s \in ListedIn["U"] : \A q \in QuotesOf[s] : ~q.stop /\ q.forcedOpen + q.forcedClose = 0
  /\ \A s \in Listed : \A q \in QuotesOf[s] : q \in QuoteTypes /\ (q.onset \/ q.confirmed => q.close > 0)

VARIABLES
  kind,          \* contract.kind
  allocationDay,
  sleeve,        \* markets
  central,       \* centralCashKrw
  target,
  delivered,     \* deliveredEntrySignals
  transfers      \* of the last day's review

allocationBookVars == <<kind, allocationDay, sleeve, central, target, delivered, transfers>>

None == -1
Least(a, b) == IF a < b THEN a ELSE b
AboveZero(a) == IF a > 0 THEN a ELSE 0
Total(amount) == amount.K + amount.E + amount.U
\* [m \in Sleeves |-> of(m)], written as the record that it is.
Each(of(_)) == [K |-> of("K"), E |-> of("E"), U |-> of("U")]
Fee(gross) == (gross + FeeParts - 1) \div FeeParts
\* integerBudgetQuantity: what the money buys with its fee.
Affordable(money, price) == (money * FeeParts) \div (price * (FeeParts + 1))

Shares(den, k, e, u, c) == [den |-> den, of |-> [K |-> k, E |-> e, U |-> u, C |-> c]]
InitialTarget == [O1 |-> Shares(3, 1, 1, 1, 0), S07 |-> Shares(5, 3, 1, 1, 0)]
TargetAmount(money, shares, m) == (money * shares.of[m]) \div shares.den

Fresh(m, capital) ==
  [cash |-> capital, nav |-> capital, sized |-> capital, shares |-> [s \in ListedIn[m] |-> 0],
   orders |-> {}, exits |-> {}, onsets |-> {}, windows |-> {}, observed |-> {}, sold |-> {},
   flow |-> 0]

NoTransfers == Each(LAMBDA m : 0)

AllocationBookInit ==
  /\ kind \in {"O1", "S07"} /\ target = InitialTarget[kind]
  /\ sleeve = Each(LAMBDA m : Fresh(m, TargetAmount(Capital, target, m)))
  /\ allocationDay = 0 /\ central = 0 /\ delivered = {}
  /\ transfers = [taken |-> NoTransfers, given |-> NoTransfers]

HeldIn(sl) == {s \in DOMAIN sl.shares : sl.shares[s] > 0}
OrderOf(sl, s) == {o \in sl.orders : o.symbol = s}

-----------------------------------------------------------------------------
(* stepIntegratedAllocationSession, part by part.                          *)

\* A sale of what is held, up to a limit, drops the orders of its stock.
Sold(sl, s, price, limit, day) ==
  LET quantity == Least(sl.shares[s], limit)
      proceeds == quantity * price - Fee(quantity * price)
      all == quantity = sl.shares[s] IN
  IF quantity = 0 THEN sl
  ELSE [sl EXCEPT
         !.cash = @ + proceeds, !.flow = @ + proceeds, !.shares[s] = @ - quantity,
         !.exits = IF all THEN @ \ {s} ELSE @,
         !.windows = {IF all /\ w.symbol = s /\ w.exit = 0 THEN [w EXCEPT !.exit = day] ELSE w :
                        w \in @},
         !.orders = @ \ OrderOf(sl, s), !.sold = @ \cup {s}]

Forced(sl, s, price, day) == IF price = 0 THEN sl ELSE Sold(sl, s, price, sl.shares[s], day)

\* "Existing exit intents precede buys."  Only US sales are limited.
Exited(sl, m, s, q, day) ==
  IF s \notin HeldIn(sl) THEN [sl EXCEPT !.exits = @ \ {s}]
  ELSE IF s \notin sl.exits \/ q.open = 0 THEN sl
  ELSE Sold(sl, s, q.open, IF m = "U" THEN q.size ELSE sl.shares[s], day)

\* A US budget is before its fee, and its quantity is fixed at the first open;
\* other budgets include the fee and are used once.
Quantity(sl, m, o, q) ==
  IF m = "U"
  THEN Least(Least(IF o.left = None THEN o.budget \div q.open ELSE o.left, q.size),
             Least(Affordable(Least(o.budget + Fee(o.budget), sl.cash), q.open),
                   o.budget \div q.open))
  ELSE Affordable(Least(o.budget, sl.cash), q.open)

Filled(sl, m, o, q, day) ==
  LET wanted == IF m # "U" THEN Affordable(o.budget, q.open)
                ELSE IF o.left = None THEN o.budget \div q.open ELSE o.left
      quantity == Quantity(sl, m, o, q)
      gross == quantity * q.open
      spend == gross + Fee(gross)
      rest == [o EXCEPT !.left = wanted - quantity, !.budget = @ - gross] IN
  IF quantity = 0 THEN [sl EXCEPT !.orders = (@ \ {o}) \cup {[o EXCEPT !.left = wanted]}]
  ELSE [sl EXCEPT
         !.cash = @ - spend, !.flow = @ - spend, !.shares[o.symbol] = @ + quantity,
         !.windows = IF o.symbol \in HeldIn(sl) THEN @
                     ELSE @ \cup {[symbol |-> o.symbol, origin |-> o.origin, entry |-> day,
                                   exit |-> 0]},
         !.orders = (@ \ {o}) \cup (IF m = "U" /\ rest.left > 0 THEN {rest} ELSE {})]

\* The ETF sleeve does not buy on a NAV it does not know.
Entered(sl, m, s, q, day) ==
  LET open == q.open > 0 /\ q.entry /\ s \notin sl.sold /\ ~(m = "E" /\ sl.nav = None) IN
  IF open /\ OrderOf(sl, s) # {}
  THEN Filled(sl, m, CHOOSE o \in OrderOf(sl, s) : TRUE, q, day) ELSE sl

Marked(sl, m, quotes) ==
  LET held == HeldIn(sl)
      nav == IF \A s \in held : quotes[s].close > 0
             THEN sl.cash + MapThenSumSet(LAMBDA s : sl.shares[s] * quotes[s].close, held)
             ELSE None IN
  [sl EXCEPT !.nav = nav, !.sized = IF m = "E" THEN nav ELSE @,
             !.exits = @ \cup {s \in held : quotes[s].stop}]

Observed(sl, m, quotes, day) ==
  [sl EXCEPT
    !.onsets = @ \cup {[symbol |-> s, day |-> day] :
                         s \in {t \in ListedIn[m] : quotes[t].onset}},
    !.observed = IF \E s \in ListedIn[m] : quotes[s].close > 0 THEN @ \cup {day} ELSE @]

\* What the market's strategy delivers, whatever the book holds: an onset this
\* book has seen, confirmed on this day.
ConfirmedIn(sl, m, quotes, day) ==
  {s \in ListedIn[m] :
     quotes[s].confirmed /\ [symbol |-> s, day |-> day - OriginLag[s]] \in sl.onsets}

Budget(sl, m) == IF sl.sized = None THEN 0 ELSE sl.sized \div BudgetParts[m]

Free(sl, s, origin) ==
  /\ s \notin sl.sold \cup sl.exits \cup HeldIn(sl) /\ OrderOf(sl, s) = {}
  /\ \A w \in sl.windows : w.symbol = s => w.exit # 0 /\ w.exit < origin

Ordered(sl, m, shares, s, origin) ==
  IF Budget(sl, m) > 0 /\ shares.of[m] > 0 /\ Free(sl, s, origin)
  THEN [sl EXCEPT !.orders = @ \cup {[symbol |-> s, origin |-> origin, budget |-> Budget(sl, m),
                                      left |-> None]}]
  ELSE sl

\* Korean sell signals need the day's close, US ones a position or an order.
Sells(sl, m, s, q) ==
  /\ q.sell
  /\ IF m = "U" THEN s \in HeldIn(sl) \/ OrderOf(sl, s) # {} ELSE q.close > 0

\* A sell signal takes the order back, and makes an exit of what is held.
Signalled(sl, m, shares, s, q, day, confirmed) ==
  IF Sells(sl, m, s, q)
  THEN [sl EXCEPT !.orders = @ \ OrderOf(sl, s), !.exits = @ \cup ({s} \cap HeldIn(sl))]
  ELSE IF s \in confirmed THEN Ordered(sl, m, shares, s, day - OriginLag[s]) ELSE sl

\* Each part of a session takes the stocks one after the other.
ForcedAtOpen(sl, S, quotes, day) ==
  FoldSet(LAMBDA s, a : Forced(a, s, quotes[s].forcedOpen, day), sl, S)
AllExited(sl, S, quotes, day, m) == FoldSet(LAMBDA s, a : Exited(a, m, s, quotes[s], day), sl, S)
AllEntered(sl, S, quotes, day, m) == FoldSet(LAMBDA s, a : Entered(a, m, s, quotes[s], day), sl, S)
ForcedAtClose(sl, S, quotes, day) ==
  FoldSet(LAMBDA s, a : Forced(a, s, quotes[s].forcedClose, day), sl, S)
AllSignalled(sl, S, quotes, day, m, shares, confirmed) ==
  FoldSet(LAMBDA s, a : Signalled(a, m, shares, s, quotes[s], day, confirmed), sl, S)

AfterSession(sl, m, quotes, shares, day) ==
  LET opened == ForcedAtOpen(sl, HeldIn(sl), quotes, day)
      exited == AllExited(opened, ListedIn[m], quotes, day, m)
      entered == AllEntered(exited, ListedIn[m], quotes, day, m)
      closed == ForcedAtClose(entered, HeldIn(entered), quotes, day)
      seen == Observed(Marked(closed, m, quotes), m, quotes, day)
      confirmed == ConfirmedIn(seen, m, quotes, day)
      signalled == AllSignalled(seen, ListedIn[m], quotes, day, m, shares, confirmed) IN
  [signalled EXCEPT !.sold = {}]

Deliveries(stepped, quotes, day) ==
  {d \in [market : Sleeves, symbol : Listed, origin : {day - 1, day}, confirmed : {day}] :
     /\ d.symbol \in ListedIn[d.market] /\ d.origin = day - OriginLag[d.symbol]
     /\ d.symbol \in ConfirmedIn(stepped[d.market], d.market, quotes, day)
     /\ \A e \in delivered : e.symbol # d.symbol \/ e.origin # d.origin}

-----------------------------------------------------------------------------
(* reviewIntegratedAllocationMonth.                                        *)

MonthEnd(day) == day % MonthLength = 0
DaysOfMonth(day) == day - MonthLength + 1 .. day

SharesFor(active) ==
  LET one(n) == [m \in {"K", "E", "U"} |-> IF m \in active THEN n ELSE 0] IN
  CASE Cardinality(active) = 0 -> Shares(1, 0, 0, 0, 1)
    [] Cardinality(active) = 1 -> Shares(5, one(3).K, one(3).E, one(3).U, 2)
    [] Cardinality(active) \in {2, 3} ->
         Shares(Cardinality(active), one(1).K, one(1).E, one(1).U, 0)

\* What the orders still need, and what of it the sleeve has.
Wanted(sl, m) ==
  MapThenSumSet(LAMBDA o : o.budget + (IF m = "U" THEN Fee(o.budget) ELSE 0), sl.orders)
Reserved(sl, m) == Least(sl.cash, Wanted(sl, m))

\* Mutant: the orders' money is taken with the rest.
IdleOrReserved(sl, m) == sl.cash
IdleCash(sl, m) == sl.cash - Reserved(sl, m)

\* "Holdings are never sold to meet targets": markets with a share of nothing
\* lose their orders, then every market its idle cash above its share; the
\* others get of it in proportion to what they lack.
KeptOf(sl, share) == IF share = 0 THEN [sl EXCEPT !.orders = {}] ELSE sl
TakenOf(kept, m, goal) == AboveZero(Least(IdleCash(kept, m), kept.nav - goal))
LackingOf(kept, taken, goal) == AboveZero(goal - (kept.nav - taken))
PartOf(paid, lacking, needed) == IF needed = 0 THEN 0 ELSE (paid * lacking) \div needed
PaidOf(kept, taken, given) ==
  [kept EXCEPT !.cash = @ - taken + given, !.nav = @ - taken + given]

Reviewed(stepped, shares) ==
  LET money == central + Total(Each(LAMBDA m : stepped[m].nav))
      goal == [m \in {"K", "E", "U", "C"} |-> TargetAmount(money, shares, m)] IN
  \E kept \in {Each(LAMBDA m : KeptOf(stepped[m], shares.of[m]))} :
  \E taken \in {Each(LAMBDA m : TakenOf(kept[m], m, goal[m]))} :
  \E lacking \in {Each(LAMBDA m : LackingOf(kept[m], taken[m], goal[m]))} :
    LET pool == central + Total(taken)
        needed == Total(lacking)
        paid == Least(AboveZero(pool - goal["C"]), needed) IN
    \E given \in {Each(LAMBDA m : PartOf(paid, lacking[m], needed))} :
      /\ sleeve' = Each(LAMBDA m : PaidOf(kept[m], taken[m], given[m]))
      /\ central' = pool - Total(given)
      /\ target' = shares
      /\ transfers' = [taken |-> taken, given |-> given]

\* A month that was not observed on every day, or a NAV that is not known, keeps
\* the target.
Review(stepped, deliveries, day) ==
  LET complete == \A m \in Sleeves : DaysOfMonth(day) \subseteq stepped[m].observed
      active == {d.market : d \in {e \in deliveries : e.confirmed \in DaysOfMonth(day)}} IN
  IF /\ kind = "O1" /\ MonthEnd(day) /\ complete
     /\ \A m \in Sleeves : stepped[m].nav # None
  THEN Reviewed(stepped, SharesFor(active))
  ELSE /\ sleeve' = stepped
       /\ transfers' = [taken |-> NoTransfers, given |-> NoTransfers]
       /\ UNCHANGED <<central, target>>

\* One publication: the sessions of the day, then the review.
AllocationPublication(quotes) ==
  LET day == allocationDay + 1 IN
  /\ allocationDay' = day
  /\ \E stepped \in {Each(LAMBDA m : AfterSession(sleeve[m], m, quotes, target, day))} :
       /\ delivered' = delivered \cup Deliveries(stepped, quotes, day)
       /\ Review(stepped, delivered', day)
  /\ UNCHANGED kind

QuoteTables == {q \in [Listed -> UNION {QuotesOf[s] : s \in Listed}] :
                  \A s \in Listed : q[s] \in QuotesOf[s]}

AllocationBookNext ==
  /\ allocationDay < LastAllocationDay
  /\ \E quotes \in QuoteTables : AllocationPublication(quotes)

AllocationBookSpec == AllocationBookInit /\ [][AllocationBookNext]_allocationBookVars

-----------------------------------------------------------------------------
(* Types and safety.                                                       *)

AllocationBookDays == 1 .. LastAllocationDay
Orders == [symbol : Listed, origin : AllocationBookDays, budget : Nat, left : Nat \cup {None}]
Windows == [symbol : Listed, origin : AllocationBookDays, entry : AllocationBookDays,
            exit : 0 .. LastAllocationDay]

\* The type invariant of an allocation book.
AllocationBookTypeOK ==
  /\ kind \in {"O1", "S07"} /\ allocationDay \in 0 .. LastAllocationDay
  /\ \A m \in Sleeves :
       LET sl == sleeve[m] IN
       /\ sl.cash \in Int /\ sl.flow \in Int /\ {sl.nav, sl.sized} \subseteq Nat \cup {None}
       /\ sl.shares \in [ListedIn[m] -> Nat] /\ sl.orders \subseteq Orders
       /\ sl.exits \subseteq ListedIn[m] /\ sl.sold = {} /\ sl.windows \subseteq Windows
       /\ sl.onsets \subseteq [symbol : ListedIn[m], day : AllocationBookDays]
       /\ sl.observed \subseteq AllocationBookDays
  /\ central \in Int /\ target.den \in Nat \ {0} /\ target.of \in [{"K", "E", "U", "C"} -> Nat]
  /\ delivered \subseteq [market : Sleeves, symbol : Listed, origin : AllocationBookDays,
                         confirmed : AllocationBookDays]
  /\ transfers \in [taken : [Sleeves -> Nat], given : [Sleeves -> Nat]]

\* No review makes or loses money, whatever it rounds: what was traded is the
\* only difference from the capital, and nobody's cash is ever overdrawn.
MoneyIsKept ==
  /\ central + Total(Each(LAMBDA m : sleeve[m].cash))
       = Capital + Total(Each(LAMBDA m : sleeve[m].flow))
  /\ central >= 0 /\ \A m \in Sleeves : sleeve[m].cash >= 0

\* A review takes only what no order needs, and never from a market it gives to.
OrdersKeepTheirMoney ==
  \A m \in Sleeves :
    transfers.taken[m] > 0 =>
      sleeve[m].cash >= Wanted(sleeve[m], m) /\ transfers.given[m] = 0

\* A market without a share has no orders; a stock has one order or one exit at
\* most; it is held while its last holding window is open, and no window starts
\* from an onset that lies in an earlier one.
OrdersFollowThePolicy ==
  \A m \in Sleeves :
    LET sl == sleeve[m] IN
    /\ target.of[m] = 0 => sl.orders = {}
    /\ \A s \in ListedIn[m] :
         /\ Cardinality(OrderOf(sl, s)) + Cardinality({s} \cap sl.exits) <= 1
         /\ s \in HeldIn(sl) <=> \E w \in sl.windows : w.symbol = s /\ w.exit = 0
    /\ sl.exits \subseteq HeldIn(sl)
    /\ \A w, v \in sl.windows :
         w.symbol = v.symbol /\ w.entry < v.entry => w.exit # 0 /\ w.exit < v.origin

\* An allocation book is sound over any number of days and reviews: its money is
\* kept, its orders keep theirs, and they follow the policy.
AllocationBookIsSound == MoneyIsKept /\ OrdersKeepTheirMoney /\ OrdersFollowThePolicy
=============================================================================
