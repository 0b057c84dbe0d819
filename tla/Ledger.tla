------------------------------- MODULE Ledger -------------------------------
(***************************************************************************)
(* repositories/positions.py: apply_trade() keeps the position of a symbol *)
(* in a row with a version, beside the table of trades.  The connection is *)
(* used without a transaction around read and write, so several processes  *)
(* on one database interleave between statements.  apply_trade() wants the *)
(* FIFO figures, but none of the module names it tries exists, so it falls *)
(* back to the average price each time.  set_base_qty() has no caller.     *)
(***************************************************************************)
EXTENDS Pnl

CONSTANTS
  Writers,    \* processes
  Kinds,      \* trades that may happen
  MaxTrades   \* bound on the trades

ASSUME ConstantsOK ==
  /\ MaxTrades \in Nat
  /\ Kinds \subseteq [side : {"buy", "sell"}, amount : Nat \ {0}, filled : Nat \ {0},
                      price : Nat, fee : Nat, day : Nat]
  /\ \A t \in Kinds : t.side = "buy" => t.fee % t.filled = 0

VARIABLES
  trades,  \* rows of the table trades
  exists,  \* whether the symbol has a row in the table positions
  row,     \* the row; what get_position() makes of a missing one until then
  pc,      \* where each process is in apply_trade()
  trade,   \* the trade it applies
  seen,    \* the position it has read
  fresh,   \* whether there was no row when it read
  raced    \* whether two processes have ever been in apply_trade() at a time

vars == <<trades, exists, row, pc, trade, seen, fresh, raced>>
-----------------------------------------------------------------------------
\* Decimals as fractions in lowest terms.
Frac(n, d) ==
  LET g == Max({k \in 1..d : n % k = 0 /\ d % k = 0})
  IN  [n |-> n \div g, d |-> d \div g]
Whole(n) == [n |-> n, d |-> 1]
Plus(a, b) == Frac(a.n * b.d + b.n * a.d, a.d * b.d)
Times(a, k) == Frac(a.n * k, a.d)
Per(a, k) == Frac(a.n, a.d * k)

NoPosition == [base |-> 0, avg |-> Whole(0), realized |-> Whole(0), version |-> 0]

\* Slip: the fee of a purchase is left out.
average_free(p, t) ==
  IF t.side = "buy"
  THEN LET new == p.base + t.filled
           cost == Plus(Times(p.avg, p.base), Whole(t.price * t.filled))
       IN  [p EXCEPT !.base = new,
                     !.avg = IF new > 0 THEN Per(cost, new) ELSE Whole(0)]
  ELSE LET matched == Smaller(t.filled, p.base)
           pnl == Plus(Whole(t.price * matched), Times(p.avg, -matched))
           new == p.base - t.filled
       IN  [p EXCEPT !.base = new,
                     !.avg = IF new > 0 THEN p.avg ELSE Whole(0),
                     !.realized = Plus(Plus(p.realized, pnl), Whole(-t.fee))]

(* The new position by the average formula; a sale is matched with what    *)
(* the position holds, but taken off it in full.                           *)
average(p, t) ==
  IF t.side = "buy"
  THEN LET new == p.base + t.filled
           cost == Plus(Times(p.avg, p.base), Whole(t.price * t.filled))
       IN  [p EXCEPT !.base = new,
                     !.avg = IF new > 0 THEN Per(cost, new) ELSE Whole(0),
                     !.realized = Plus(p.realized, Whole(-t.fee))]
  ELSE LET matched == Smaller(t.filled, p.base)
           pnl == Plus(Whole(t.price * matched), Times(p.avg, -matched))
           new == p.base - t.filled
       IN  [p EXCEPT !.base = new,
                     !.avg = IF new > 0 THEN p.avg ELSE Whole(0),
                     !.realized = Plus(Plus(p.realized, pnl), Whole(-t.fee))]
-----------------------------------------------------------------------------
Goto(w, l) == pc' = [pc EXCEPT ![w] = l]

Init ==
  /\ trades = <<>>
  /\ exists = FALSE /\ row = NoPosition
  /\ pc = [w \in Writers |-> "idle"]
  /\ trade \in [Writers -> {CHOOSE t \in Kinds : TRUE}]
  /\ seen = [w \in Writers |-> NoPosition]
  /\ fresh = [w \in Writers |-> FALSE]
  /\ raced = FALSE

(* The trade is in the table before apply_trade() is called.               *)
add_from_order(w) == \E t \in Kinds :
  /\ pc[w] = "idle"
  /\ Len(trades) < MaxTrades
  /\ trades # <<>> => Last(trades).day <= t.day
  /\ trades' = Append(trades, t)
  /\ trade' = [trade EXCEPT ![w] = t]
  /\ raced' = (raced \/ \E v \in Writers : pc[v] # "idle")
  /\ Goto(w, "read")
  /\ UNCHANGED <<exists, row, seen, fresh>>

get_position(w) ==
  /\ pc[w] = "read"
  /\ seen' = [seen EXCEPT ![w] = row]
  /\ fresh' = [fresh EXCEPT ![w] = ~exists]
  /\ Goto(w, "write")
  /\ UNCHANGED <<trades, exists, row, trade, raced>>

(* The values come from the first read, whatever the version is by now.    *)
Values(w, version) ==
  LET new == average(seen[w], trade[w])
  IN  [base |-> new.base, avg |-> new.avg, realized |-> new.realized,
       version |-> version]

\* Slip: an update leaves the version alone.
updated_unversioned(w) == Values(w, row.version)

updated(w) == Values(w, row.version + 1)

(* INSERT ... ON CONFLICT DO UPDATE ... WHERE version = ?.  An inserted    *)
(* row has version 0, which is also what is expected of a missing one.     *)
upsert(w) ==
  /\ pc[w] \in {"write", "rewrite"}
  /\ \/ ~exists /\ row' = Values(w, 0)
     \/ exists /\ row.version = seen[w].version /\ row' = updated(w)
  /\ exists' = TRUE
  /\ Goto(w, "idle")
  /\ UNCHANGED <<trades, trade, seen, fresh, raced>>

(* A conflict: the first is followed by another look at the version, after *)
(* the second apply_trade() returns as if all were well.                   *)
conflict(w) ==
  /\ pc[w] \in {"write", "rewrite"}
  /\ exists /\ row.version # seen[w].version
  /\ Goto(w, IF pc[w] = "write" THEN "reread" ELSE "idle")
  /\ UNCHANGED <<trades, exists, row, trade, seen, fresh, raced>>

reread(w) ==
  /\ pc[w] = "reread"
  /\ seen' = [seen EXCEPT ![w].version = row.version]
  /\ Goto(w, "rewrite")
  /\ UNCHANGED <<trades, exists, row, trade, fresh, raced>>

Next == \E w \in Writers :
  \/ add_from_order(w) \/ get_position(w) \/ upsert(w) \/ conflict(w) \/ reread(w)

Spec == Init /\ [][Next]_vars
-----------------------------------------------------------------------------
AtRest == \A w \in Writers : pc[w] = "idle"
Bought == Len(Units(trades, "buy"))
SoldUnits == Len(Units(trades, "sell"))

\* What the trades have brought in and paid out, fees included.
Cash ==
  SumFunction([i \in DOMAIN trades |->
    IF trades[i].side = "sell"
    THEN trades[i].price * trades[i].filled - trades[i].fee
    ELSE -(trades[i].price * trades[i].filled) - trades[i].fee])

Fraction(f) == f.n \in Int /\ f.d \in Nat \ {0}

(* Types of the ledger's variables; a version counts updates.              *)
TypeOK ==
  /\ trades \in Seq(Kinds)
  /\ {exists, raced} \subseteq BOOLEAN
  /\ row.base \in Int /\ Fraction(row.avg) /\ Fraction(row.realized)
  /\ row.version \in 0..MaxTrades
  /\ pc \in [Writers -> {"idle", "read", "write", "reread", "rewrite"}]
  /\ trade \in [Writers -> Kinds]
  /\ \A w \in Writers : seen[w].base \in Int /\ seen[w].version \in 0..MaxTrades

FlatAgrees ==
  /\ AtRest /\ ~raced /\ NeverOversold(trades) /\ Complete(trades)
  /\ row.base = 0
  => /\ remaining_base(trades) = 0
     /\ row.realized = Whole(fifo_detail(trades).realized)

(* What apply_trade() leaves after trades applied one at a time: the base  *)
(* is what was bought and not sold, and the realized profit is all the     *)
(* cash that moved plus the cost of what is still held.  The average       *)
(* method, which runs, and FIFO, which the docstring promises              *)
(* (positions.py:181-185), agree whenever the position is flat.            *)
CashConserved ==
  /\ FlatAgrees
  /\ AtRest /\ ~raced =>
       /\ row.base = Bought - SoldUnits
       /\ NeverOversold(trades) =>
            Plus(row.realized, Times(row.avg, -row.base)) = Whole(Cash)

(* The loops of pnl.py, on trades filled in full, and the days of          *)
(* trades.py, added up, find what matching unit by unit finds.             *)
FifoMatchesUnits ==
  NeverOversold(trades) =>
    /\ Complete(trades) => fifo_detail(trades).realized = MatchedUnits(trades)
    /\ SumFunction([d \in {trades[i].day : i \in DOMAIN trades} |-> pnl_of_day(trades, d)])
         = MatchedUnits(trades)

(* A process that read a row and finds its version unchanged finds the row *)
(* unchanged, so a first attempt to update it overwrites nobody.           *)
SameVersionSameRow ==
  \A w \in Writers : pc[w] = "write" /\ ~fresh[w] /\ seen[w].version = row.version
    => seen[w] = row

=============================================================================
