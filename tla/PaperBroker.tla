----------------------------- MODULE PaperBroker -----------------------------
(***************************************************************************)
(* core/infrastructure/brokers/paper.py behind base.py: the exchange of    *)
(* paper trading, seen on one symbol.  An order call waits for the rate    *)
(* limiter and then runs to its end in one go.  Amounts are whole units of *)
(* the base currency.  Fees, slippage and the quote balance are left out:  *)
(* a BUY may be refused at any time for want of quote currency, and any    *)
(* market order because simulating its price raises.                       *)
(***************************************************************************)
EXTENDS Integers, FiniteSets, FiniteSetsExt

CONSTANTS
  ClientIds,      \* client order ids
  Amounts,        \* amounts clients ask for
  initial_asset,  \* base currency the account starts with
  PartialFills,   \* whether partial_fill_chance is above zero
  Prices          \* prices of the base currency

ASSUME BrokerConstantsOK ==
  /\ Amounts \subseteq Nat \ {0}
  /\ initial_asset \in Nat
  /\ PartialFills \in BOOLEAN
  /\ Prices \subseteq Nat \ {0}

VARIABLES
  balance,  \* balances[base_currency]
  orders,   \* orders; nth tells those of one client order id apart
  price     \* what fetch_ticker returns

broker_vars == <<balance, orders>>

BrokerInit == balance = initial_asset /\ orders = {} /\ price \in Prices

MovePrice == price' \in Prices \ {price} /\ UNCHANGED broker_vars

(* client_orders: saved together with the order, so it is an index of it.  *)
known(c) == \E o \in orders : o.client_order_id = c

(* A market order fills in full or, by the luck of partial_fill_chance,    *)
(* for 50% to 99% of the amount.                                           *)
fills(q) == {q} \cup {f \in 1..(q - 1) : PartialFills /\ 2 * f >= q}

status(q, f) == IF f = q THEN "closed" ELSE "partially_filled"

Saved(c, side, q, f, s) ==
  orders' = orders \cup
    {[client_order_id |-> c, side |-> side, amount |-> q, filled |-> f,
      status |-> s,
      nth |-> Cardinality({o \in orders : o.client_order_id = c})]}

\* Slip: a partial fill is booked with the amount that was asked for.
execute_asked(c, side, q, f) ==
  /\ balance' = IF side = "buy" THEN balance + q ELSE balance - q
  /\ Saved(c, side, q, f, status(q, f))

execute(c, side, q, f) ==
  /\ balance' = IF side = "buy" THEN balance + f ELSE balance - f
  /\ Saved(c, side, q, f, status(q, f))

(* _create_market_order_impl of a new id; short positions are refused.     *)
market_executes(c, side, q) ==
  /\ ~known(c)
  /\ side = "sell" => balance >= q
  /\ \E f \in fills(q) : execute(c, side, q, f)

(* An id that is known returns the order it has, whatever is asked for.    *)
market_repeats(c) == known(c) /\ UNCHANGED broker_vars

(* A new id that is not executed raises: short, poor or unlucky.           *)
market_raises(c) == ~known(c) /\ UNCHANGED broker_vars
-----------------------------------------------------------------------------
(* Orders of everyone but the protective exits and the dead man's switch.  *)
MarketOrder(c) == \E q \in Amounts, side \in {"buy", "sell"} :
  market_executes(c, side, q)

(* A limit order is filled on the spot at its price.                       *)
LimitOrder(c) == \E q \in Amounts, side \in {"buy", "sell"} :
  /\ ~known(c)
  /\ side = "sell" => balance >= q
  /\ balance' = IF side = "buy" THEN balance + q ELSE balance - q
  /\ Saved(c, side, q, q, "closed")

(* A stop-loss order stays open for good: nothing triggers it, and         *)
(* cancel_order cannot write the status of a frozen OrderDTO.              *)
StopLossOrder(c) == \E q \in Amounts :
  /\ ~known(c)
  /\ balance >= q
  /\ Saved(c, "sell", q, 0, "open")
  /\ UNCHANGED balance
-----------------------------------------------------------------------------
Filled(side) ==
  SumFunctionOnSet([o \in orders |-> o.filled], {o \in orders : o.side = side})

BrokerTypeOK ==
  /\ balance \in Nat
  /\ \A o \in orders :
       /\ o.side \in {"buy", "sell"}
       /\ o.amount \in Nat \ {0}
       /\ o.filled \in 0..o.amount
       /\ o.status \in {"closed", "partially_filled", "open"}

BalanceIsLedger == balance = initial_asset + Filled("buy") - Filled("sell")

OneOrderPerClientId ==
  \A o1, o2 \in orders : o1.client_order_id = o2.client_order_id => o1 = o2

(* The account holds what its orders say was bought and not yet sold, after *)
(* any mix of partial fills, repeated ids and refusals; and however often  *)
(* an id is sent, and whoever sends it, it trades once (paper.py:283-481). *)
AccountTrue == BalanceIsLedger /\ OneOrderPerClientId
=============================================================================
