--------------------------- MODULE ProtectiveExits ---------------------------
(***************************************************************************)
(* core/application/protective_exits.py: one loop per symbol that watches  *)
(* the open position and sells it at the stop loss, the first or the       *)
(* second take profit.  The position is read first, then the price and the *)
(* candles, and the order goes out last, so all may be stale by then; a    *)
(* loop that was stopped goes on until its cancellation reaches it.        *)
(***************************************************************************)
EXTENDS PaperBroker

CONSTANTS
  Loops,          \* tasks created by start()
  NoLoop,
  entry,          \* entry price of the position
  atrs,           \* what _atr may return; 0 when the candles are missing
  tp1_atr, tp2_atr, sl_atr, tp1_close_pct, enable_breakeven, min_base_to_exit,
  BusRaises       \* whether publishing to the event bus may raise

ASSUME ExitConstantsOK ==
  /\ NoLoop \notin Loops
  /\ entry \in Nat \ {0}
  /\ atrs \subseteq Nat
  /\ {tp1_atr, tp2_atr, sl_atr, min_base_to_exit} \subseteq Nat
  /\ tp1_atr > 0 /\ tp2_atr >= tp1_atr
  /\ tp1_close_pct \in 0..100
  /\ {enable_breakeven, BusRaises} \subseteq BOOLEAN

VARIABLES
  position,   \* size of the position in the storage
  current,    \* _tasks[symbol]
  cancelling, \* tasks cancel() was called on
  loop,       \* where each task is
  turn        \* what each task has read and decided this turn

exit_vars == <<position, current, cancelling, loop, turn>>

(* size is what the turn read; reason, which makes the client order id,    *)
(* and qty are what it sells.  The code never asks for the rest: own says  *)
(* that the answer was to this turn's order and not to an earlier one of   *)
(* the same id, left is what the account still held when the loop closed.  *)
Fresh == [size |-> 0, reason |-> "none", qty |-> 0, own |-> FALSE, left |-> 0]

Live == {"created", "tick", "price", "sell", "reply"}
At(t, l) == loop[t] = l /\ t \notin cancelling
Goto(t, l) == loop' = [loop EXCEPT ![t] = l]

(* The loop sleeps and comes round.                                        *)
NextTurn(t) == Goto(t, "tick") /\ turn' = [turn EXCEPT ![t] = Fresh]

ExitsInit ==
  /\ position = initial_asset
  /\ current = NoLoop /\ cancelling = {}
  /\ loop = [t \in Loops |-> "none"]
  /\ turn = [t \in Loops |-> Fresh]

(* The storage's position is brought in line with the exchange from        *)
(* outside: nothing in the trading path writes it.                         *)
SyncPosition ==
  /\ position # balance
  /\ position' = balance
  /\ UNCHANGED <<current, cancelling, loop, turn>>
-----------------------------------------------------------------------------
(* start(): only if there is no task for the symbol that is not done.      *)
start(t) ==
  /\ current = NoLoop
  /\ loop[t] = "none"
  /\ current' = t
  /\ Goto(t, "created")
  /\ UNCHANGED <<position, cancelling, turn>>

stop ==
  /\ current # NoLoop
  /\ current' = NoLoop
  /\ cancelling' = cancelling \cup {current}
  /\ UNCHANGED <<position, loop, turn>>

(* The cancellation arrives.  The finally clause removes whatever task the *)
(* symbol has by now; a task that never ran has no finally clause to run.  *)
Unwind(t) ==
  /\ t \in cancelling
  /\ loop[t] \in Live
  /\ Goto(t, "cancelled")
  /\ current' = IF loop[t] = "created" THEN current ELSE NoLoop
  /\ turn' = [turn EXCEPT ![t] = Fresh]
  /\ UNCHANGED <<position, cancelling>>

(* The task reports all_closed, breaks its loop and removes itself.        *)
Close(t) == /\ Goto(t, "closed")
            /\ current' = NoLoop
            /\ turn' = [turn EXCEPT ![t].left = balance]

Turns(t) == At(t, "created") \/ At(t, "tick")

(* A turn begins: the storage has no position.                             *)
NothingToProtect(t) ==
  /\ Turns(t)
  /\ position = 0
  /\ \/ Close(t)
     \/ BusRaises /\ NextTurn(t) /\ UNCHANGED current
  /\ UNCHANGED <<position, cancelling>>

ReadPosition(t) ==
  /\ Turns(t)
  /\ position > 0
  /\ turn' = [turn EXCEPT ![t].size = position]
  /\ Goto(t, "price")
  /\ UNCHANGED <<position, current, cancelling>>

(* fetch_ticker raises.                                                    *)
NoPrice(t) ==
  /\ At(t, "price")
  /\ NextTurn(t)
  /\ UNCHANGED <<position, current, cancelling>>
-----------------------------------------------------------------------------
(* n / d to the nearest unit, halves to the even one (Decimal.quantize).   *)
half_even(n, d) ==
  LET q == n \div d
      r == n % d
  IN  IF 2 * r > d \/ (2 * r = d /\ q % 2 = 1) THEN q + 1 ELSE q

tp1_qty(s) == half_even(s * tp1_close_pct, 100)

(* Breakeven is not remembered: it looks at this turn's price only.        *)
stop_level(l, a) ==
  IF enable_breakeven /\ l >= entry + tp1_atr * a
  THEN entry ELSE entry - sl_atr * a

(* What to sell at price l and ATR a out of s, nothing when 0.             *)
exit_at(l, a, s) ==
  IF l <= stop_level(l, a) THEN [reason |-> "SL", qty |-> s]
  ELSE IF l >= entry + tp2_atr * a THEN [reason |-> "TP2", qty |-> s]
  ELSE IF /\ l >= entry + tp1_atr * a
          /\ tp1_qty(s) >= min_base_to_exit
       THEN [reason |-> "TP1", qty |-> tp1_qty(s)]
  ELSE [reason |-> "none", qty |-> 0]

(* The price is in, the candles follow: all of _evaluate_once up to _sell. *)
(* What the ATR comes to does not depend on anything modelled here, so     *)
(* waiting for the candles is no step of its own.                          *)
Evaluate(t) == \E a \in atrs :
  LET x == exit_at(price, a, turn[t].size)
  IN  /\ At(t, "price")
      /\ IF a = 0 \/ x.qty = 0 THEN NextTurn(t)
         ELSE /\ Goto(t, "sell")
              /\ turn' = [turn EXCEPT ![t] =
                   [@ EXCEPT !.reason = x.reason, !.qty = x.qty]]
      /\ UNCHANGED <<position, current, cancelling>>

(* _sell: ORDER_CREATED is out and the order reaches the exchange.         *)
Sell(t) ==
  /\ At(t, "sell")
  /\ \/ market_executes(turn[t].reason, "sell", turn[t].qty)
     \/ market_repeats(turn[t].reason)
  /\ Goto(t, "reply")
  /\ turn' = [turn EXCEPT ![t].own = ~known(turn[t].reason)]
  /\ UNCHANGED <<position, current, cancelling>>

\* Slip: an order that was refused counts as sold.
SellRaisesUnseen(t) ==
  /\ At(t, "sell")
  /\ market_raises(turn[t].reason)
  /\ Goto(t, "reply")
  /\ UNCHANGED <<position, current, cancelling, turn>>

(* The broker, or the bus before it, raises: TRADE_FAILED, next turn.      *)
SellRaises(t) ==
  /\ At(t, "sell")
  /\ \/ market_raises(turn[t].reason)
     \/ BusRaises /\ UNCHANGED broker_vars
  /\ NextTurn(t)
  /\ UNCHANGED <<position, current, cancelling>>

(* TRADE_COMPLETED is out.  SL and TP2 say all_closed without a look at    *)
(* the order they got; a bus that raises makes the sale look failed.       *)
Sold(t) ==
  /\ At(t, "reply")
  /\ \/ turn[t].reason \in {"SL", "TP2"} /\ Close(t)
     \/ /\ turn[t].reason = "TP1" \/ BusRaises
        /\ NextTurn(t)
        /\ UNCHANGED current
  /\ UNCHANGED <<position, cancelling>>
-----------------------------------------------------------------------------
(* What a loop does without reaching the exchange.                         *)
LoopNext(t) ==
  \/ ReadPosition(t) \/ NoPrice(t) \/ Evaluate(t)
  \/ NothingToProtect(t) \/ Unwind(t) \/ Sold(t)

ExitsTypeOK ==
  /\ position \in Nat
  /\ current \in Loops \cup {NoLoop}
  /\ cancelling \subseteq Loops
  /\ loop \in [Loops -> Live \cup {"none", "closed", "cancelled"}]
  /\ turn \in [Loops -> [size : Nat, reason : {"none", "SL", "TP1", "TP2"},
                        qty : Nat, own : BOOLEAN, left : Nat]]
  /\ \A t \in Loops : turn[t].qty <= turn[t].size

Closed(t) == loop[t] = "closed" /\ turn[t].reason # "none"

(* The order of a turn's name for all it set out to sell, and at least     *)
(* half of that filled.                                                    *)
SoldFor(t) == \E o \in orders :
  /\ o.client_order_id = turn[t].reason /\ o.side = "sell"
  /\ o.amount = turn[t].size /\ 2 * o.filled >= o.amount

(* A loop that ended with all_closed after a stop loss or a take profit    *)
(* was answered with an order, whatever raised or was cancelled on the way:*)
(* with one that sold what the turn had read of the position, which no     *)
(* other loop takes for its own, unless an order of that name was there    *)
(* before the turn's own could be made (paper.py:292-295).                 *)
ClosedIsBacked ==
  /\ \A t \in Loops : Closed(t) => IF turn[t].own THEN SoldFor(t) ELSE known(turn[t].reason)
  /\ \A t, u \in Loops :
       /\ Closed(t) /\ turn[t].own /\ Closed(u) /\ turn[u].own
       /\ turn[t].reason = turn[u].reason
       => t = u

(* "After TP1 pulls the SL up to the entry price (if enabled)" (protective_*)
(* exits.py:128): once the first take profit is sold, a turn that finds    *)
(* the price at or below the entry sells all it has read.                  *)
BreakevenAfterTP1 ==
  [][\A t \in Loops :
       /\ enable_breakeven /\ 0 \notin atrs
       /\ known("TP1") /\ price <= entry /\ turn[t].size > 0 /\ Evaluate(t)
       => turn'[t].reason = "SL"]_exit_vars

(* "SL: full close" (protective_exits.py:127), "if the position is closed, *)
(* leave the loop" (:169): when a loop ends with all_closed after selling, *)
(* the account holds less than the position it set out to sell.            *)
AllClosedMeansSold == \A t \in Loops : Closed(t) => turn[t].left < turn[t].size
=============================================================================
