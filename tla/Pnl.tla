-------------------------------- MODULE Pnl --------------------------------
(***************************************************************************)
(* Profit and loss of the trades of one symbol, oldest first, computed by  *)
(* first in, first out: utils/pnl.py and the day's version of it in        *)
(* repositories/trades.py.  A trade is a row of the table trades.  Amounts *)
(* are whole units, and the fee of a purchase is a whole amount per unit,  *)
(* so nothing is rounded.                                                  *)
(***************************************************************************)
EXTENDS Integers, Sequences, SequencesExt, FiniteSetsExt

Smaller(a, b) == IF a < b THEN a ELSE b

NoLots == [lots |-> <<>>, realized |-> 0]

(* The loops that match a sale with the oldest lots; what is sold beyond   *)
(* the last lot is ignored.                                                *)
sell_lots(lots, qty, price) ==
  LET step(s, lot) ==
        LET matched == Smaller(s.left, lot.qty)
        IN  [left |-> s.left - matched,
             gain |-> s.gain + (price - lot.price) * matched,
             lots |-> IF matched = lot.qty THEN s.lots
                      ELSE Append(s.lots, [lot EXCEPT !.qty = @ - matched])]
  IN  FoldLeft(step, [left |-> qty, gain |-> 0, lots |-> <<>>], lots)

(* base_amount, which rows do not have, then amount, then filled: a row    *)
(* that was filled in part counts with what was asked for.                 *)
base_qty(t) == IF t.amount > 0 THEN t.amount ELSE t.filled

(* The fee of a purchase becomes part of its price, that of a sale is a    *)
(* loss of its own.                                                        *)
fifo_trade(s, t) ==
  LET q == base_qty(t)
  IN  IF q <= 0 THEN s
      ELSE IF t.side = "buy"
      THEN [s EXCEPT !.lots = Append(@, [qty |-> q, price |-> t.price + t.fee \div q])]
      ELSE LET r == sell_lots(s.lots, q, t.price)
           IN  [lots |-> r.lots, realized |-> s.realized - t.fee + r.gain]

fifo_detail(ts) == FoldLeft(fifo_trade, NoLots, ts)

remaining_base(ts) ==
  LET lots == fifo_detail(ts).lots
  IN  SumFunction([i \in DOMAIN lots |-> lots[i].qty])

\* Slip: only the trades of the day are looked at.
pnl_of_day_alone(ts, day) ==
  LET step(s, t) ==
        IF t.filled <= 0 \/ t.day # day THEN s
        ELSE IF t.side = "buy"
        THEN [s EXCEPT !.lots = Append(@,
               [qty |-> t.filled, price |-> (t.price * t.filled + t.fee) \div t.filled])]
        ELSE LET r == sell_lots(s.lots, t.filled, t.price)
             IN  [lots |-> r.lots, realized |-> s.realized + r.gain - t.fee]
  IN  FoldLeft(step, NoLots, ts).realized

(* All trades go through the lots, the sales of the day make the result.   *)
pnl_of_day(ts, day) ==
  LET step(s, t) ==
        IF t.filled <= 0 THEN s
        ELSE IF t.side = "buy"
        THEN [s EXCEPT !.lots = Append(@,
               [qty |-> t.filled, price |-> (t.price * t.filled + t.fee) \div t.filled])]
        ELSE LET r == sell_lots(s.lots, t.filled, t.price)
             IN  [lots |-> r.lots,
                  realized |-> s.realized + IF t.day = day THEN r.gain - t.fee ELSE 0]
  IN  FoldLeft(step, NoLots, ts).realized
-----------------------------------------------------------------------------
(* The reference: number the units bought and the units sold; the k-th     *)
(* unit sold is the k-th unit bought.                                      *)
Units(ts, side) ==
  LET unit(t) == IF t.side = side THEN [i \in 1..t.filled |-> t] ELSE <<>>
  IN  FoldLeft(LAMBDA us, t : us \o unit(t), <<>>, ts)

Fees(ts, side) ==
  SumFunction([i \in DOMAIN ts |-> IF ts[i].side = side THEN ts[i].fee ELSE 0])

MatchedUnits(ts) ==
  LET bought == Units(ts, "buy")
      sold   == Units(ts, "sell")
  IN  SumFunction([k \in DOMAIN sold |->
        sold[k].price - bought[k].price - bought[k].fee \div bought[k].filled])
      - Fees(ts, "sell")

\* At no time was more sold than had been bought.
NeverOversold(ts) == \A n \in 1..Len(ts) :
  Len(Units(SubSeq(ts, 1, n), "sell")) <= Len(Units(SubSeq(ts, 1, n), "buy"))

Complete(ts) == \A i \in DOMAIN ts : ts[i].filled = ts[i].amount
=============================================================================
