--------------------------- MODULE SafetyNetProofs ---------------------------
(***************************************************************************)
(* What holds of the paper account and of the loops that sell its position *)
(* for any clients, amounts, prices, number of loops and settings: the     *)
(* account is what its orders say, an id trades once, and a loop that      *)
(* reports a sale was answered with an order: its own for all that it had  *)
(* read, or one of that name which was there before.                       *)
(*                                                                         *)
(* The account's invariant needs no more than that an order is new when it *)
(* is saved and fills for at most what the account holds.  A loop knows    *)
(* its reason only from the decision to sell on; past the order there is   *)
(* one of that name, and it is the loop's own only if there was none       *)
(* before, so that no two loops have the same for their own.               *)
(***************************************************************************)
EXTENDS DeadMansSwitch, Sums

Statuses == {"closed", "partially_filled", "open"}

(* The account.                                                            *)
AccountInv ==
  /\ BrokerTypeOK /\ IsFiniteSet(orders)
  /\ BalanceIsLedger /\ OneOrderPerClientId

\* An order for what the turn r sells, at least half of it filled.
SoldAs(r, os) == \E o \in os :
  /\ o.client_order_id = r.reason /\ o.side = "sell"
  /\ o.amount = r.qty /\ 2 * o.filled >= o.amount

\* What a loop at l must know of its turn r, and what orders there must be.
Consistent(l, r, os) ==
  /\ l \in {"none", "created", "tick", "price", "cancelled"} => r.reason = "none" /\ r.qty = 0
  /\ l \in {"sell", "reply"} => r.reason # "none" /\ r.qty > 0
  /\ r.reason \in {"SL", "TP2"} => r.qty = r.size
  /\ l = "closed" => r.reason # "TP1"
  /\ l \notin {"reply", "closed"} => ~r.own
  /\ l = "reply" \/ (l = "closed" /\ r.reason # "none") => \E o \in os : o.client_order_id = r.reason
  /\ r.own => r.reason # "none" /\ SoldAs(r, os)

Decided == \A t \in Loops : Consistent(loop[t], turn[t], orders)

\* No two loops have the same order for their own.
Apart == \A t, u \in Loops :
  turn[t].own /\ turn[u].own /\ turn[t].reason = turn[u].reason => t = u

SwitchInv ==
  /\ price \in Prices
  /\ healthy \in Prices \cup {0} /\ cur \in Prices \cup {0}
  /\ check \in {"idle", "recheck", "sell"}
  /\ dms_qty \in Nat /\ (check = "sell" => dms_qty > 0)

IInv == AccountInv /\ ExitsTypeOK /\ Decided /\ Apart /\ SwitchInv
-----------------------------------------------------------------------------
(* The account.                                                            *)

\* What Saved adds to the orders.
NewOrder(c, side, q, f, s) ==
  [client_order_id |-> c, side |-> side, amount |-> q, filled |-> f, status |-> s,
   nth |-> Cardinality({o \in orders : o.client_order_id = c})]

\* A new order changes the sum of its side by what it filled.
LEMMA FilledGrows ==
  ASSUME AccountInv, NEW new, new \notin orders, new.filled \in Nat,
         orders' = orders \cup {new}, NEW side
  PROVE  Filled(side)' = Filled(side) + (IF new.side = side THEN new.filled ELSE 0)
<1>. DEFINE old == {o \in orders : o.side = side}
            now == {o \in orders' : o.side = side}
            g == [o \in orders |-> o.filled]
            h == [o \in orders' |-> o.filled]
<1>1. /\ Filled(side) = SumFunctionOnSet(g, old)
      /\ Filled(side)' = SumFunctionOnSet(h, now)
  BY DEF Filled
<1>2. IsFiniteSet(old) /\ IsFiniteSet(now)
  <2>1. IsFiniteSet(orders')
    BY FS_AddElement DEF AccountInv
  <2>. QED
    BY <2>1, FS_Subset DEF AccountInv
<1>3. /\ \A o \in old : g[o] \in Int /\ g[o] = h[o]
      /\ \A o \in now : h[o] \in Int
  BY DEF AccountInv, BrokerTypeOK
<1>4. Alike(g, h, old)
  BY <1>3 DEF Alike
<1>. HIDE DEF g
<1>5. SumFunctionOnSet(g, old) = SumFunctionOnSet(h, old)
  BY <1>2, <1>4, SumOfSame
<1>6. SumFunctionOnSet(g, old) \in Int
  BY <1>2, <1>3, SumIsInteger
<1>7. CASE new.side = side
  <2>1. new \in now /\ now \ {new} = old /\ h[new] = new.filled
    BY <1>7
  <2>. HIDE DEF h, now, old
  <2>2. SumFunctionOnSet(h, now) = h[new] + SumFunctionOnSet(h, now \ {new})
    BY <2>1, <1>2, <1>3, SumWithout
  <2>3. SumFunctionOnSet(h, now) = SumFunctionOnSet(g, old) + new.filled
    BY <2>1, <2>2, <1>5, <1>6
  <2>. QED
    BY <2>3, <1>1, <1>7
<1>8. CASE new.side # side
  <2>1. now = old
    BY <1>8
  <2>. HIDE DEF h, now, old
  <2>. QED
    BY <2>1, <1>1, <1>5, <1>6, <1>8
<1>. QED
  BY <1>7, <1>8

LEMMA FilledTyped ==
  ASSUME AccountInv, NEW side
  PROVE  Filled(side) \in Int
<1>. DEFINE old == {o \in orders : o.side = side}
            g == [o \in orders |-> o.filled]
<1>1. IsFiniteSet(old)
  BY FS_Subset DEF AccountInv
<1>2. \A o \in old : g[o] \in Int
  BY DEF AccountInv, BrokerTypeOK
<1>. HIDE DEF g
<1>3. SumFunctionOnSet(g, old) \in Int
  BY <1>1, <1>2, SumIsInteger
<1>. QED
  BY <1>3 DEF Filled, g

\* Every order that is new keeps the account true, if its fill is booked and
\* the account holds what is sold.
LEMMA SavedInv ==
  ASSUME AccountInv, NEW c, ~known(c), NEW side \in {"buy", "sell"},
         NEW q \in Nat \ {0}, NEW f \in 0..q, NEW s \in Statuses,
         Saved(c, side, q, f, s), side = "sell" => balance >= f,
         balance' = IF side = "buy" THEN balance + f ELSE balance - f
  PROVE  AccountInv' /\ orders \subseteq orders' /\ known(c)'
<1>. DEFINE new == NewOrder(c, side, q, f, s)
<1>1. /\ orders' = orders \cup {new}
      /\ new.client_order_id = c /\ new.side = side /\ new.amount = q
      /\ new.filled = f /\ new.status = s
  BY DEF Saved, NewOrder
<1>. HIDE DEF new
<1>2. new \notin orders
  BY <1>1 DEF known
<1>3. BrokerTypeOK'
  BY <1>1 DEF AccountInv, BrokerTypeOK, Statuses
<1>4. IsFiniteSet(orders')
  BY <1>1, FS_AddElement DEF AccountInv
<1>5. OneOrderPerClientId'
  BY <1>1 DEF AccountInv, OneOrderPerClientId, known
<1>6. BalanceIsLedger'
  <2>1. /\ Filled("buy")' = Filled("buy") + (IF side = "buy" THEN f ELSE 0)
        /\ Filled("sell")' = Filled("sell") + (IF side = "sell" THEN f ELSE 0)
    BY <1>1, <1>2, FilledGrows
  <2>2. \A d \in {"buy", "sell"} : Filled(d) \in Int
    BY FilledTyped
  <2>. QED
    BY <2>1, <2>2, BrokerConstantsOK DEF AccountInv, BalanceIsLedger
<1>. QED
  BY <1>1, <1>3, <1>4, <1>5, <1>6 DEF AccountInv, known

LEMMA MarketExecutes ==
  ASSUME AccountInv, NEW c, NEW side \in {"buy", "sell"}, NEW q \in Nat \ {0},
         market_executes(c, side, q)
  PROVE  /\ AccountInv' /\ orders \subseteq orders' /\ known(c)'
         /\ \E o \in orders' : /\ o.client_order_id = c /\ o.side = side
                              /\ o.amount = q /\ 2 * o.filled >= o.amount
<1>1. PICK f \in fills(q) : execute(c, side, q, f)
  BY DEF market_executes
<1>2. f \in 0..q /\ 2 * f >= q
  BY DEF fills
<1>3. balance \in Nat /\ (side = "sell" => balance >= f)
  BY <1>2 DEF market_executes, AccountInv, BrokerTypeOK
<1>4. status(q, f) \in Statuses
  BY DEF status, Statuses
<1>5. AccountInv' /\ orders \subseteq orders' /\ known(c)'
  BY <1>1, <1>2, <1>3, <1>4, SavedInv DEF market_executes, execute
<1>. DEFINE new == NewOrder(c, side, q, f, status(q, f))
<1>6. new \in orders' /\ new.client_order_id = c /\ new.side = side /\ new.amount = q /\ new.filled = f
  BY <1>1 DEF execute, Saved, NewOrder
<1>. HIDE DEF new
<1>. QED
  BY <1>2, <1>5, <1>6

\* An id the broker knows, or a call that raises, changes nothing.
LEMMA BrokerUntouched ==
  ASSUME AccountInv, UNCHANGED broker_vars
  PROVE  AccountInv' /\ orders \subseteq orders'
BY DEF broker_vars, AccountInv, BrokerTypeOK, BalanceIsLedger, Filled, OneOrderPerClientId

\* The orders of everybody else.
LEMMA OthersOrder ==
  ASSUME AccountInv, NEW c \in ClientIds, MarketOrder(c) \/ LimitOrder(c) \/ StopLossOrder(c)
  PROVE  AccountInv' /\ orders \subseteq orders'
<1>. USE BrokerConstantsOK
<1>1. CASE MarketOrder(c)
  BY <1>1, MarketExecutes DEF MarketOrder
<1>2. CASE LimitOrder(c)
  <2>1. PICK q \in Amounts, side \in {"buy", "sell"} :
          /\ ~known(c)
          /\ side = "sell" => balance >= q
          /\ balance' = IF side = "buy" THEN balance + q ELSE balance - q
          /\ Saved(c, side, q, q, "closed")
    BY <1>2 DEF LimitOrder
  <2>2. q \in 0..q /\ "closed" \in Statuses
    BY DEF Statuses
  <2>. QED
    BY <2>1, <2>2, SavedInv
<1>3. CASE StopLossOrder(c)
  <2>1. PICK q \in Amounts :
          ~known(c) /\ Saved(c, "sell", q, 0, "open") /\ balance' = balance
    BY <1>3 DEF StopLossOrder
  <2>2. balance' = balance - 0 /\ balance >= 0 /\ 0 \in 0..q /\ "open" \in Statuses
    BY <2>1 DEF Statuses, AccountInv, BrokerTypeOK
  <2>. QED
    BY <2>1, <2>2, SavedInv
<1>. QED
  BY <1>1, <1>2, <1>3
-----------------------------------------------------------------------------
(* The loops.                                                              *)
Stages == Live \cup {"none", "closed", "cancelled"}
Turn == [size : Nat, reason : {"none", "SL", "TP1", "TP2"}, qty : Nat, own : BOOLEAN, left : Nat]

LoopInv == ExitsTypeOK /\ Decided /\ Apart

\* More orders leave a loop consistent.
LEMMA MoreOrders ==
  ASSUME NEW l, NEW r, NEW os, NEW ns, os \subseteq ns, Consistent(l, r, os)
  PROVE  Consistent(l, r, ns)
BY DEF Consistent, SoldAs

LEMMA LoopMoves ==
  ASSUME LoopInv, orders \subseteq orders', NEW t \in Loops, NEW l \in Stages, NEW r \in Turn,
         loop' = [loop EXCEPT ![t] = l], turn' = [turn EXCEPT ![t] = r],
         r.qty <= r.size, Consistent(l, r, orders'),
         r.own => \A u \in Loops \ {t} : turn[u].own => turn[u].reason # r.reason,
         position' \in Nat, current' \in Loops \cup {NoLoop}, cancelling' \subseteq Loops
  PROVE  LoopInv'
<1>. USE DEF LoopInv
<1>1. \A u \in Loops : /\ loop'[u] = IF u = t THEN l ELSE loop[u]
                       /\ turn'[u] = IF u = t THEN r ELSE turn[u]
  BY DEF ExitsTypeOK
<1>2. ExitsTypeOK'
  <2>1. loop' \in [Loops -> Live \cup {"none", "closed", "cancelled"}]
    BY DEF ExitsTypeOK, Stages
  <2>2. turn' \in [Loops -> [size : Nat, reason : {"none", "SL", "TP1", "TP2"}, qty : Nat, own : BOOLEAN, left : Nat]]
    BY DEF ExitsTypeOK, Turn
  <2>3. \A u \in Loops : turn'[u].qty <= turn'[u].size
    BY <1>1 DEF ExitsTypeOK
  <2>. QED
    BY <2>1, <2>2, <2>3 DEF ExitsTypeOK
<1>3. Decided'
  <2>. SUFFICES ASSUME NEW u \in Loops PROVE Consistent(loop'[u], turn'[u], orders')
    BY DEF Decided, Consistent, SoldAs
  <2>1. CASE u = t
    BY <2>1, <1>1
  <2>2. CASE u # t
    BY <2>2, <1>1, MoreOrders DEF Decided
  <2>. QED
    BY <2>1, <2>2
<1>4. Apart'
  BY <1>1 DEF Apart
<1>. QED
  BY <1>2, <1>3, <1>4

\* Steps of others change no loop.
LEMMA LoopsStay ==
  ASSUME LoopInv, orders \subseteq orders', UNCHANGED exit_vars
  PROVE  LoopInv'
<1>1. ExitsTypeOK' /\ Apart'
  BY DEF exit_vars, LoopInv, ExitsTypeOK, Apart
<1>2. ASSUME NEW t \in Loops PROVE Consistent(loop[t], turn[t], orders)'
  <2>1. Consistent(loop[t], turn[t], orders) /\ loop' = loop /\ turn' = turn
    BY DEF LoopInv, Decided, exit_vars
  <2>2. Consistent(loop[t], turn[t], orders')
    BY <2>1, MoreOrders
  <2>. QED
    BY <2>1, <2>2 DEF Consistent, SoldAs
<1>. QED
  BY <1>1, <1>2 DEF LoopInv, Decided

LEMMA FreshTurn ==
  /\ Fresh \in Turn /\ Fresh.reason = "none" /\ Fresh.qty = 0 /\ Fresh.size = 0
  /\ Fresh.own = FALSE
BY DEF Fresh, Turn

\* The quantity of the first take profit is part of the position: rounding to
\* the nearest unit does not pass the whole.
LEMMA PartOfPosition ==
  ASSUME NEW s \in Nat
  PROVE  tp1_qty(s) \in Nat /\ tp1_qty(s) <= s
<1>. DEFINE n == s * tp1_close_pct
<1>1. tp1_close_pct \in Nat /\ tp1_close_pct <= 100
  BY ExitConstantsOK
<1>2. n \in Nat /\ n <= 100 * s
  BY <1>1
<1>3. tp1_qty(s) = half_even(n, 100)
  BY DEF tp1_qty
<1>. HIDE DEF n
<1>4. /\ n \div 100 \in Nat /\ n % 100 \in 0..99
      /\ n = 100 * (n \div 100) + (n % 100)
  <2>1. n \div 100 \in Nat
    BY <1>2
  <2>2. n % 100 \in 0..99
    BY <1>2
  <2>3. n = 100 * (n \div 100) + (n % 100)
    BY <1>2
  <2>. QED
    BY <2>1, <2>2, <2>3
<1>5. n \div 100 <= s /\ (n \div 100 = s => n % 100 = 0)
  BY <1>2, <1>4
<1>. QED
  BY <1>3, <1>4, <1>5 DEF half_even

\* A turn with one field changed, field by field.
LEMMA TurnFields ==
  ASSUME NEW r \in Turn, NEW n
  PROVE  /\ [r EXCEPT !.size = n] =
              [size |-> n, reason |-> r.reason, qty |-> r.qty, own |-> r.own, left |-> r.left]
         /\ [r EXCEPT !.left = n] =
              [size |-> r.size, reason |-> r.reason, qty |-> r.qty, own |-> r.own, left |-> n]
         /\ [r EXCEPT !.own = n] =
              [size |-> r.size, reason |-> r.reason, qty |-> r.qty, own |-> n, left |-> r.left]
         /\ [r EXCEPT !.reason = n] =
              [size |-> r.size, reason |-> n, qty |-> r.qty, own |-> r.own, left |-> r.left]
<1>1. r = [size |-> r.size, reason |-> r.reason, qty |-> r.qty, own |-> r.own, left |-> r.left]
  BY DEF Turn
<1>2. PICK a, b, c, d, e :
        r = [size |-> a, reason |-> b, qty |-> c, own |-> d, left |-> e]
  BY <1>1
<1>3. /\ [r EXCEPT !.size = n] =
           [size |-> n, reason |-> b, qty |-> c, own |-> d, left |-> e]
      /\ [r EXCEPT !.left = n] =
           [size |-> a, reason |-> b, qty |-> c, own |-> d, left |-> n]
      /\ [r EXCEPT !.own = n] =
           [size |-> a, reason |-> b, qty |-> c, own |-> n, left |-> e]
      /\ [r EXCEPT !.reason = n] =
           [size |-> a, reason |-> n, qty |-> c, own |-> d, left |-> e]
  BY <1>2
<1>4. r.size = a /\ r.reason = b /\ r.qty = c /\ r.own = d /\ r.left = e
  BY <1>2
<1>. QED
  BY <1>3, <1>4

\* What is decided sells some of the position and has a reason.
LEMMA Decisions ==
  ASSUME NEW l \in Nat, NEW a \in atrs, NEW s \in Nat
  PROVE  LET x == exit_at(l, a, s) IN
         /\ x.reason \in {"none", "SL", "TP1", "TP2"} /\ x.qty \in Nat /\ x.qty <= s
         /\ x.qty # 0 => x.reason # "none"
         /\ x.reason \in {"SL", "TP2"} => x.qty = s
BY PartOfPosition DEF exit_at

\* A loop that comes round has read and decided nothing.
LEMMA ComesRound ==
  ASSUME LoopInv, orders \subseteq orders', NEW t \in Loops, NextTurn(t),
         position' \in Nat, current' \in Loops \cup {NoLoop}, cancelling' \subseteq Loops
  PROVE  LoopInv'
<1>1. loop' = [loop EXCEPT ![t] = "tick"] /\ turn' = [turn EXCEPT ![t] = Fresh]
  BY DEF NextTurn, Goto
<1>2. Consistent("tick", Fresh, orders') /\ "tick" \in Stages
  BY FreshTurn DEF Consistent, Stages, Live
<1>3. Fresh \in Turn /\ Fresh.qty <= Fresh.size /\ ~Fresh.own
  BY FreshTurn
<1>. QED
  BY <1>1, <1>2, <1>3, LoopMoves

\* A loop may end where it has an order of the name it reports.
LEMMA LoopEnds ==
  ASSUME LoopInv, AccountInv, UNCHANGED <<orders, position, cancelling>>,
         NEW t \in Loops, Close(t), turn[t].reason # "TP1",
         turn[t].reason # "none" => known(turn[t].reason)
  PROVE  LoopInv'
<1>. DEFINE r == [size |-> turn[t].size, reason |-> turn[t].reason, qty |-> turn[t].qty,
                  own |-> turn[t].own, left |-> balance]
<1>1. /\ turn[t] \in Turn /\ turn[t].qty <= turn[t].size
      /\ position \in Nat /\ cancelling \subseteq Loops /\ balance \in Nat
  BY DEF LoopInv, ExitsTypeOK, Turn, AccountInv, BrokerTypeOK
<1>2. /\ loop' = [loop EXCEPT ![t] = "closed"] /\ current' = NoLoop
      /\ turn' = [turn EXCEPT ![t] = [turn[t] EXCEPT !.left = balance]]
  BY DEF Close, Goto
<1>3. [turn[t] EXCEPT !.left = balance] = r
  BY <1>1, TurnFields
<1>4. r \in Turn /\ r.qty <= r.size
  BY <1>1 DEF Turn
<1>5. Consistent("closed", r, orders') /\ "closed" \in Stages
  <2>1. Consistent(loop[t], turn[t], orders)
    BY DEF LoopInv, Decided
  <2>. QED
    BY <2>1 DEF Consistent, SoldAs, Stages, known
<1>8. r.own => \A u \in Loops \ {t} : turn[u].own => turn[u].reason # r.reason
  BY DEF LoopInv, Apart
<1>6. orders \subseteq orders' /\ position' \in Nat /\ cancelling' \subseteq Loops
  BY <1>1
<1>. HIDE DEF r
<1>7. turn' = [turn EXCEPT ![t] = r]
  BY <1>2, <1>3
<1>. QED
  BY <1>2, <1>4, <1>5, <1>6, <1>7, <1>8, LoopMoves

\* The steps of a loop that read and decide.
LEMMA LoopReads ==
  ASSUME LoopInv, AccountInv, price \in Prices, UNCHANGED broker_vars, NEW t \in Loops,
         ReadPosition(t) \/ NoPrice(t) \/ Evaluate(t)
  PROVE  LoopInv'
<1>1. /\ orders \subseteq orders' /\ turn[t] \in Turn /\ turn[t].qty <= turn[t].size
      /\ position \in Nat /\ current \in Loops \cup {NoLoop} /\ cancelling \subseteq Loops
  BY DEF broker_vars, LoopInv, ExitsTypeOK, Turn
<1>2. CASE ReadPosition(t)
  <2>. DEFINE r == [size |-> position, reason |-> turn[t].reason, qty |-> turn[t].qty,
                    own |-> turn[t].own, left |-> turn[t].left]
  <2>1. /\ loop[t] \in {"created", "tick"}
        /\ loop' = [loop EXCEPT ![t] = "price"]
        /\ turn' = [turn EXCEPT ![t].size = position]
        /\ UNCHANGED <<position, current, cancelling>>
    BY <1>2 DEF ReadPosition, Turns, At, Goto
  <2>2. turn[t].reason = "none" /\ turn[t].qty = 0 /\ ~turn[t].own
    BY <2>1 DEF LoopInv, Decided, Consistent
  <2>3. turn' = [turn EXCEPT ![t] = r] /\ r \in Turn
    <3>1. turn' = [turn EXCEPT ![t] = [turn[t] EXCEPT !.size = position]]
      BY <2>1
    <3>2. [turn[t] EXCEPT !.size = position] = r
      BY <1>1, TurnFields
    <3>3. r \in Turn
      BY <1>1 DEF Turn
    <3>. HIDE DEF r
    <3>. QED
      BY <3>1, <3>2, <3>3
  <2>4. r.qty <= r.size /\ Consistent("price", r, orders') /\ "price" \in Stages /\ ~r.own
    BY <1>1, <2>2 DEF Consistent, Stages, Live
  <2>. HIDE DEF r
  <2>. QED
    BY <1>1, <2>1, <2>3, <2>4, LoopMoves
<1>3. ASSUME NextTurn(t), UNCHANGED <<position, current, cancelling>> PROVE LoopInv'
  BY <1>1, <1>3, ComesRound
<1>4. CASE Evaluate(t)
  <2>1. PICK a \in atrs :
          LET x == exit_at(price, a, turn[t].size)
          IN  IF a = 0 \/ x.qty = 0 THEN NextTurn(t)
              ELSE /\ Goto(t, "sell")
                   /\ turn' = [turn EXCEPT ![t] = [@ EXCEPT !.reason = x.reason, !.qty = x.qty]]
    BY <1>4 DEF Evaluate
  <2>. DEFINE x == exit_at(price, a, turn[t].size)
              r == [size |-> turn[t].size, reason |-> x.reason, qty |-> x.qty,
                    own |-> turn[t].own, left |-> turn[t].left]
  <2>2. UNCHANGED <<position, current, cancelling>> /\ loop[t] = "price"
    BY <1>4 DEF Evaluate, At
  <2>3. /\ x.reason \in {"none", "SL", "TP1", "TP2"} /\ x.qty \in Nat /\ x.qty <= turn[t].size
        /\ x.qty # 0 => x.reason # "none"
        /\ x.reason \in {"SL", "TP2"} => x.qty = turn[t].size
    <3>1. price \in Nat /\ turn[t].size \in Nat
      BY <1>1, BrokerConstantsOK DEF Turn
    <3>. QED
      BY <3>1, Decisions
  <2>4. CASE a = 0 \/ x.qty = 0
    BY <2>1, <2>2, <2>4, <1>3
  <2>5. CASE ~(a = 0 \/ x.qty = 0)
    <3>. HIDE DEF x
    <3>3. [turn[t] EXCEPT !.reason = x.reason, !.qty = x.qty] = r
      <4>. DEFINE q == [turn[t] EXCEPT !.reason = x.reason]
      <4>1. q = [size |-> turn[t].size, reason |-> x.reason, qty |-> turn[t].qty,
                 own |-> turn[t].own, left |-> turn[t].left]
        BY <1>1, TurnFields
      <4>2. q \in [size : {q.size}, reason : {q.reason}, qty : {q.qty}, own : {q.own}, left : {q.left}]
        BY <4>1
      <4>3. [turn[t] EXCEPT !.reason = x.reason, !.qty = x.qty] = [q EXCEPT !.qty = x.qty]
        OBVIOUS
      <4>. HIDE DEF q
      <4>4. [q EXCEPT !.qty = x.qty] = [size |-> q.size, reason |-> q.reason, qty |-> x.qty,
                                        own |-> q.own, left |-> q.left]
        BY <4>2
      <4>. QED
        BY <4>1, <4>3, <4>4
    <3>1. loop' = [loop EXCEPT ![t] = "sell"] /\ turn' = [turn EXCEPT ![t] = r]
      <4>1. loop' = [loop EXCEPT ![t] = "sell"]
            /\ turn' = [turn EXCEPT ![t] = [turn[t] EXCEPT !.reason = x.reason, !.qty = x.qty]]
        BY <2>1, <2>5 DEF Goto, x
      <4>. HIDE DEF r
      <4>. QED
        BY <4>1, <3>3
    <3>4. ~turn[t].own
      BY <2>2 DEF LoopInv, Decided, Consistent
    <3>2. /\ r \in Turn /\ r.qty <= r.size /\ Consistent("sell", r, orders') /\ "sell" \in Stages
          /\ ~r.own
      BY <1>1, <2>3, <2>5, <3>4 DEF Turn, Consistent, Stages, Live
    <3>. HIDE DEF r
    <3>. QED
      BY <1>1, <2>2, <3>1, <3>2, LoopMoves
  <2>. QED
    BY <2>4, <2>5
<1>. QED
  BY <1>2, <1>3, <1>4 DEF NoPrice

\* The steps of a loop that end it, and those that only look as if.
LEMMA LoopCloses ==
  ASSUME LoopInv, AccountInv, UNCHANGED broker_vars, NEW t \in Loops,
         NothingToProtect(t) \/ Sold(t)
  PROVE  LoopInv'
<1>1. /\ UNCHANGED <<orders, position, cancelling>>
      /\ Close(t) \/ (NextTurn(t) /\ UNCHANGED current)
  BY DEF NothingToProtect, Sold, broker_vars
<1>2. turn[t].reason # "none" => known(turn[t].reason)
  <2>1. CASE NothingToProtect(t)
    <3>1. loop[t] \in {"created", "tick"}
      BY <2>1 DEF NothingToProtect, Turns, At
    <3>. QED
      BY <3>1 DEF LoopInv, Decided, Consistent
  <2>2. CASE Sold(t)
    <3>1. loop[t] = "reply"
      BY <2>2 DEF Sold, At
    <3>. QED
      BY <3>1 DEF LoopInv, Decided, Consistent, known
  <2>. QED
    BY <2>1, <2>2
<1>3. CASE Close(t)
  <2>1. CASE NothingToProtect(t)
    <3>1. loop[t] \in {"created", "tick"}
      BY <2>1 DEF NothingToProtect, Turns, At
    <3>2. turn[t].reason = "none"
      BY <3>1 DEF LoopInv, Decided, Consistent
    <3>. QED
      BY <1>1, <1>2, <1>3, <3>2, LoopEnds
  <2>2. CASE turn[t].reason \in {"SL", "TP2"}
    BY <1>1, <1>2, <1>3, <2>2, LoopEnds
  <2>3. CASE Sold(t) /\ turn[t].reason \notin {"SL", "TP2"}
    <3>1. loop'[t] = "tick" /\ loop'[t] = "closed"
      BY <1>3, <2>3 DEF Sold, NextTurn, Close, Goto, LoopInv, ExitsTypeOK
    <3>. QED
      BY <3>1
  <2>. QED
    BY <2>1, <2>2, <2>3
<1>4. CASE NextTurn(t) /\ UNCHANGED current
  <2>1. /\ orders \subseteq orders'
        /\ position' \in Nat /\ current' \in Loops \cup {NoLoop} /\ cancelling' \subseteq Loops
    BY <1>1, <1>4 DEF LoopInv, ExitsTypeOK
  <2>. QED
    BY <1>4, <2>1, ComesRound
<1>. QED
  BY <1>1, <1>3, <1>4

\* Loops are started, stopped and cancelled, and the position is synchronised.
LEMMA LoopsManaged ==
  ASSUME LoopInv, AccountInv, UNCHANGED broker_vars,
         SyncPosition \/ stop \/ \E t \in Loops : start(t) \/ Unwind(t)
  PROVE  LoopInv'
<1>1. /\ orders \subseteq orders' /\ orders' = orders /\ balance \in Nat
      /\ position \in Nat /\ current \in Loops \cup {NoLoop} /\ cancelling \subseteq Loops
  BY DEF broker_vars, LoopInv, ExitsTypeOK, AccountInv, BrokerTypeOK
<1>2. CASE SyncPosition
  BY <1>1, <1>2 DEF SyncPosition, LoopInv, ExitsTypeOK, Decided, Apart, Consistent, SoldAs
<1>3. CASE stop
  BY <1>1, <1>3 DEF stop, LoopInv, ExitsTypeOK, Decided, Apart, Consistent, SoldAs
<1>4. ASSUME NEW t \in Loops, start(t) PROVE LoopInv'
  <2>1. /\ loop[t] = "none" /\ loop' = [loop EXCEPT ![t] = "created"]
        /\ current' = t /\ UNCHANGED <<position, cancelling, turn>>
    BY <1>4 DEF start, Goto
  <2>2. turn[t] \in Turn /\ turn[t].qty <= turn[t].size /\ turn' = [turn EXCEPT ![t] = turn[t]]
    BY <2>1 DEF LoopInv, ExitsTypeOK, Turn
  <2>3. Consistent("created", turn[t], orders') /\ "created" \in Stages /\ ~turn[t].own
    BY <2>1 DEF LoopInv, Decided, Consistent, Stages, Live
  <2>4. position' \in Nat /\ current' \in Loops \cup {NoLoop} /\ cancelling' \subseteq Loops
    BY <1>1, <2>1
  <2>. QED
    BY <1>1, <2>1, <2>2, <2>3, <2>4, LoopMoves
<1>5. ASSUME NEW t \in Loops, Unwind(t) PROVE LoopInv'
  <2>1. /\ loop' = [loop EXCEPT ![t] = "cancelled"] /\ turn' = [turn EXCEPT ![t] = Fresh]
        /\ current' \in {current, NoLoop} /\ UNCHANGED <<position, cancelling>>
    BY <1>5 DEF Unwind, Goto
  <2>2. Consistent("cancelled", Fresh, orders') /\ "cancelled" \in Stages
    BY FreshTurn DEF Consistent, Stages, Live
  <2>3. position' \in Nat /\ current' \in Loops \cup {NoLoop} /\ cancelling' \subseteq Loops
    BY <1>1, <2>1
  <2>4. Fresh \in Turn /\ Fresh.qty <= Fresh.size /\ ~Fresh.own
    BY FreshTurn
  <2>. QED
    BY <1>1, <2>1, <2>2, <2>3, <2>4, LoopMoves
<1>. QED
  BY <1>2, <1>3, <1>4, <1>5

\* A sale that goes out is at the exchange when its answer is awaited: it was
\* executed, or the exchange had an order of that name.
LEMMA LoopSells ==
  ASSUME LoopInv, AccountInv, NEW t \in Loops, Sell(t) \/ SellRaises(t)
  PROVE  AccountInv' /\ LoopInv'
<1>1. /\ turn[t] \in Turn /\ turn[t].qty <= turn[t].size
      /\ UNCHANGED <<position, current, cancelling>> /\ loop[t] = "sell"
      /\ position' \in Nat /\ current' \in Loops \cup {NoLoop} /\ cancelling' \subseteq Loops
  BY DEF Sell, SellRaises, At, LoopInv, ExitsTypeOK, Turn
<1>2. /\ turn[t].reason # "none" /\ turn[t].qty \in Nat \ {0}
      /\ turn[t].reason \in {"SL", "TP2"} => turn[t].qty = turn[t].size
  BY <1>1 DEF LoopInv, Decided, Consistent, Turn
<1>3. CASE Sell(t)
  <2>1. /\ AccountInv' /\ orders \subseteq orders'
        /\ \E o \in orders' : o.client_order_id = turn[t].reason
        /\ market_repeats(turn[t].reason) \/
             \E o \in orders' : /\ o.client_order_id = turn[t].reason /\ o.side = "sell"
                              /\ o.amount = turn[t].qty /\ 2 * o.filled >= o.amount
    <3>1. CASE market_executes(turn[t].reason, "sell", turn[t].qty)
      BY <1>2, <3>1, MarketExecutes DEF known
    <3>2. CASE market_repeats(turn[t].reason)
      BY <3>2, BrokerUntouched DEF market_repeats, broker_vars, known
    <3>. QED
      BY <1>3, <3>1, <3>2 DEF Sell
  <2>. DEFINE w == ~known(turn[t].reason)
              r == [size |-> turn[t].size, reason |-> turn[t].reason, qty |-> turn[t].qty,
                    own |-> w, left |-> turn[t].left]
  <2>2. [turn[t] EXCEPT !.own = w] = r
    <3>. HIDE DEF w
    <3>. QED
      BY <1>1, TurnFields
  <2>3. loop' = [loop EXCEPT ![t] = "reply"] /\ turn' = [turn EXCEPT ![t] = r]
    <3>1. loop' = [loop EXCEPT ![t] = "reply"] /\ turn' = [turn EXCEPT ![t] = [turn[t] EXCEPT !.own = w]]
      BY <1>3 DEF Sell, Goto
    <3>. HIDE DEF r, w
    <3>. QED
      BY <3>1, <2>2
  <2>4. w \in BOOLEAN /\ (w => SoldAs(turn[t], orders'))
    BY <2>1, <1>3 DEF Sell, market_repeats, SoldAs
  <2>5. r.own => \A u \in Loops \ {t} : turn[u].own => turn[u].reason # r.reason
    BY DEF LoopInv, Decided, Consistent, SoldAs, known
  <2>. HIDE DEF w
  <2>6. r \in Turn /\ r.qty <= r.size /\ "reply" \in Stages
    BY <1>1, <2>4 DEF Turn, Stages, Live
  <2>7. Consistent("reply", r, orders')
    BY <1>2, <2>1, <2>4 DEF Consistent, SoldAs
  <2>. HIDE DEF r
  <2>. QED
    BY <1>1, <2>1, <2>3, <2>5, <2>6, <2>7, LoopMoves
<1>4. CASE SellRaises(t)
  <2>1. AccountInv' /\ orders \subseteq orders'
    BY <1>4, BrokerUntouched DEF SellRaises, market_raises
  <2>2. NextTurn(t)
    BY <1>4 DEF SellRaises
  <2>. QED
    BY <1>1, <2>1, <2>2, ComesRound
<1>. QED
  BY <1>3, <1>4
-----------------------------------------------------------------------------
(* The specification.                                                      *)
LEMMA InitInv == Init => IInv
<1>. SUFFICES ASSUME Init PROVE IInv
  OBVIOUS
<1>. USE DEF Init, BrokerInit, ExitsInit, DmsInit
<1>1. AccountInv
  <2>1. \A side \in {"buy", "sell"} : Filled(side) = 0
    <3>. TAKE side \in {"buy", "sell"}
    <3>1. {o \in orders : o.side = side} = {}
      OBVIOUS
    <3>. QED
      BY <3>1, SumOfNothing DEF Filled
  <2>2. IsFiniteSet(orders)
    BY FS_EmptySet
  <2>. QED
    BY <2>1, <2>2, BrokerConstantsOK
    DEF AccountInv, BrokerTypeOK, BalanceIsLedger, OneOrderPerClientId
<1>2. ExitsTypeOK
  <2>1. turn \in [Loops -> Turn] /\ \A t \in Loops : turn[t].qty <= turn[t].size
    BY FreshTurn
  <2>. QED
    BY <2>1, BrokerConstantsOK DEF ExitsTypeOK, Turn
<1>3. Decided /\ Apart
  BY FreshTurn DEF Decided, Apart, Consistent
<1>4. SwitchInv
  BY DEF SwitchInv
<1>. QED
  BY <1>1, <1>2, <1>3, <1>4 DEF IInv

\* The checks of the dead man's switch, its sale included.
LEMMA Switch ==
  ASSUME IInv, UNCHANGED <<price, exit_vars>>,
         \/ (check_begins \/ check_fails \/ recheck) /\ UNCHANGED broker_vars
         \/ sell_all
  PROVE  IInv'
<1>. USE DEF IInv
<1>1. SwitchInv'
  BY DEF check_begins, check_fails, recheck, sell_all, SwitchInv, MaxOf, exit_vars, ExitsTypeOK
<1>2. AccountInv' /\ orders \subseteq orders'
  <2>1. CASE UNCHANGED broker_vars
    BY <2>1, BrokerUntouched
  <2>2. CASE sell_all
    <3>1. dms_qty \in Nat \ {0}
      BY <2>2 DEF sell_all, SwitchInv
    <3>2. CASE market_executes("dms_auto_exit", "sell", dms_qty)
      BY <3>1, <3>2, MarketExecutes
    <3>3. CASE UNCHANGED broker_vars
      BY <3>3, BrokerUntouched
    <3>. QED
      BY <2>2, <3>2, <3>3 DEF sell_all, market_repeats, market_raises
  <2>. QED
    BY <2>1, <2>2
<1>3. LoopInv'
  BY <1>2, LoopsStay DEF LoopInv
<1>. QED
  BY <1>1, <1>2, <1>3 DEF LoopInv

LEMMA NextInv == IInv /\ [Next]_vars => IInv'
<1>. SUFFICES ASSUME IInv, [Next]_vars PROVE IInv'
  OBVIOUS
<1>0. AccountInv /\ LoopInv /\ SwitchInv /\ price \in Prices
  BY DEF IInv, LoopInv, SwitchInv
<1>1. SUFFICES ASSUME UNCHANGED dms_vars
               PROVE  AccountInv' /\ LoopInv' /\ price' \in Prices
  <2>1. CASE UNCHANGED dms_vars
    <3>1. AccountInv' /\ LoopInv' /\ price' \in Prices
      BY <2>1, <1>1
    <3>2. SwitchInv'
      BY <2>1, <3>1, <1>0 DEF SwitchInv, dms_vars
    <3>. QED
      BY <3>1, <3>2 DEF IInv, LoopInv
  <2>2. CASE ~UNCHANGED dms_vars
    <3>1. \/ /\ check_begins \/ check_fails \/ recheck
             /\ UNCHANGED <<price, broker_vars, exit_vars>>
          \/ sell_all /\ UNCHANGED <<price, exit_vars>>
      BY <2>2 DEF Next, vars, dms_vars
    <3>. QED
      BY <3>1, Switch
  <2>. QED
    BY <2>1, <2>2
<1>2. CASE UNCHANGED broker_vars /\ UNCHANGED exit_vars /\ price' \in Prices
  BY <1>0, <1>2, BrokerUntouched, LoopsStay
<1>3. CASE /\ \E c \in ClientIds : MarketOrder(c) \/ LimitOrder(c) \/ StopLossOrder(c)
           /\ UNCHANGED <<price, exit_vars, dms_vars>>
  BY <1>0, <1>3, OthersOrder, LoopsStay
<1>4. CASE /\ SyncPosition \/ stop \/ \E t \in Loops : start(t) \/ LoopNext(t)
           /\ UNCHANGED <<price, broker_vars, dms_vars>>
  <2>1. AccountInv'
    BY <1>0, <1>4, BrokerUntouched
  <2>2. LoopInv'
    BY <1>0, <1>4, LoopReads, LoopCloses, LoopsManaged DEF LoopNext
  <2>. QED
    BY <1>0, <1>4, <2>1, <2>2
<1>5. CASE (\E t \in Loops : Sell(t) \/ SellRaises(t)) /\ UNCHANGED <<price, dms_vars>>
  BY <1>0, <1>5, LoopSells
<1>6. CASE \/ MovePrice /\ UNCHANGED <<exit_vars, dms_vars>>
           \/ (check_begins \/ check_fails \/ recheck) /\ UNCHANGED <<price, broker_vars, exit_vars>>
           \/ UNCHANGED vars
  BY <1>0, <1>2, <1>6 DEF MovePrice, vars
<1>7. CASE sell_all /\ UNCHANGED <<price, exit_vars>>
  BY <1>0, <1>7, Switch DEF IInv, LoopInv
<1>. QED
  BY <1>3, <1>4, <1>5, <1>6, <1>7 DEF Next
-----------------------------------------------------------------------------
LEMMA InvHolds == Spec => []IInv
<1>. QED
  BY InitInv, NextInv, PTL DEF Spec

(* Types of the variables of broker, exits and switch; no loop plans to    *)
(* sell more than it read (protective_exits.py:217-262).                   *)
THEOREM SafetyNetTyped == Spec => []TypeOK
<1>1. IInv => TypeOK
  BY DEF IInv, AccountInv, SwitchInv, TypeOK
<1>. QED
  BY <1>1, InvHolds, PTL

(* The account holds what its orders say was bought and not yet sold, and  *)
(* an id trades once, whoever sends it and however often                   *)
(* (paper.py:283-481).                                                     *)
THEOREM AccountIsTrue == Spec => []AccountTrue
<1>1. IInv => AccountTrue
  BY DEF IInv, AccountInv, AccountTrue
<1>. QED
  BY <1>1, InvHolds, PTL

(* A loop that ended with all_closed after a stop loss or a take profit    *)
(* was answered with its own order for all that it had read of the         *)
(* position, half of it filled at least, which no other loop takes for its *)
(* own; or there had been an order of that name before, whatever was       *)
(* cancelled, refused or raised on the way (protective_exits.py:160-331).  *)
THEOREM ClosesAreBacked == Spec => []ClosedIsBacked
<1>1. IInv => ClosedIsBacked
  <2>. SUFFICES ASSUME IInv PROVE ClosedIsBacked
    OBVIOUS
  <2>1. ASSUME NEW t \in Loops, Closed(t)
        PROVE  IF turn[t].own THEN SoldFor(t) ELSE known(turn[t].reason)
    <3>1. Consistent(loop[t], turn[t], orders) /\ loop[t] = "closed" /\ turn[t].reason # "none"
      BY <2>1 DEF IInv, Decided, Closed
    <3>2. turn[t].reason \in {"none", "SL", "TP1", "TP2"}
      BY DEF IInv, ExitsTypeOK
    <3>. QED
      BY <3>1, <3>2 DEF Consistent, SoldAs, SoldFor, known
  <2>. QED
    BY <2>1 DEF ClosedIsBacked, IInv, Apart
<1>. QED
  BY <1>1, InvHolds, PTL
=============================================================================
