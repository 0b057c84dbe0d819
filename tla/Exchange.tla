------------------------------ MODULE Exchange ------------------------------
(***************************************************************************)
(* Two ways to the exchange.  CcxtBroker (brokers/ccxt_adapter.py) puts    *)
(* every request behind a token bucket, a circuit breaker of its kind and  *)
(* a timeout, and repeats a refused order.  BaseBroker (brokers/base.py)   *)
(* checks its arguments and a bucket of its own.  Both buckets let a       *)
(* caller that found too little sleep for what is missing of a token, and  *)
(* then let it go whatever the others did: that is why the rate they keep  *)
(* depends on how many callers there are.                                  *)
(*                                                                         *)
(* A token is earned in a unit of time, of Unit ticks; what the bucket     *)
(* holds is counted in ticks' worth, so that it holds fractions of a token *)
(* and a sleep is any part of a unit.  Amounts are in tenths of the base   *)
(* currency.  The exchange itself is outside the code: it may refuse, stay *)
(* silent, or take an order and stay silent, and it takes one order per    *)
(* client order id.  The breaker's module (utils/circuit_breaker.py) is    *)
(* not in the repository either: Shut and what the answers do to it are    *)
(* what its use and its parameters say of it.                              *)
(***************************************************************************)
EXTENDS Integers, Sequences, FiniteSets

CONSTANTS Callers,     \* coroutines that use one broker
          Operations,  \* what they call, of those that Requests lists
          Named,       \* those that carry a client order id
          Unit,        \* ticks of the clock that earn one token
          Capacity,    \* tokens the bucket holds at most
          Attempts,    \* _retry: max_attempts
          Backoff,     \* ticks of the pause before the second
          Threshold,   \* failures that open a breaker
          ResetAfter,  \* ticks until an open breaker lets one through
          Quote,       \* what a buy spends, in the quote currency
          Asked,       \* what a sell sells, in tenths
          Prices,      \* prices the exchange answers, divisors of 10 * Quote
                       \* or 0, which is no price
          Markets,     \* descriptions [tick, min, cost] of the market
          MaxTime      \* bound on the clock

ASSUME BucketOK == Unit \in Nat \ {0} /\ Capacity \in Nat /\ IsFiniteSet(Callers)

VARIABLES now, broker, bucket, breaker, markets, market, call, sent, booked

exchangeVars == <<now, broker, bucket, breaker, markets, market, call, sent, booked>>

Kinds == {"markets", "ticker", "balance", "create", "order"}

(* The requests an operation makes, in their order; a market list is only  *)
(* asked for when there is none.                                           *)
Requests ==
  [fetch_ticker     |-> <<"markets", "ticker">>,
   fetch_balance    |-> <<"markets", "balance">>,
   fetch_order      |-> <<"markets", "order">>,
   create_market_buy_quote |-> <<"markets", "markets", "ticker", "create">>,
   create_market_sell_base |-> <<"markets", "markets", "ticker", "create">>]

Orders == {"create_market_buy_quote", "create_market_sell_base"}

ASSUME ExchangeConstantsOK ==
  /\ Operations \subseteq DOMAIN Requests
  /\ Attempts \in Nat \ {0}
  /\ Quote \in Nat /\ Asked \in Nat /\ Prices \subseteq Nat
  /\ Markets \subseteq [tick : Nat, min : Nat, cost : Nat]

Buys(c) == call[c].op = "create_market_buy_quote"

Idle == [op |-> "none", stage |-> "idle", plan |-> <<>>, tries |-> 0, wake |-> 0, price |-> 0, amount |-> 0]

ExchangeInit ==
  /\ now = 0
  /\ broker \in {"base", "ccxt"}
  /\ bucket = [tokens |-> Capacity * Unit, last |-> 0]
  /\ breaker = [k \in Kinds |-> [fails |-> 0, opened |-> -1]]
  /\ markets = FALSE
  /\ market \in Markets
  /\ call = [c \in Callers |-> Idle]
  /\ sent = 0
  /\ booked = [c \in Callers |-> 0]

----------------------------------------------------------------------------
(* Prices and amounts *)

Nothing == [tick |-> 0, min |-> 0, cost |-> 0]

(* No list of markets, no description: nothing is rounded or refused.      *)
Described == IF markets THEN market ELSE Nothing

\* Slip: to the nearest step, not down.
QuantNearest(x, step) == IF step = 0 THEN x ELSE ((x + (step \div 2)) \div step) * step

Quant(x, step) == IF step = 0 THEN x ELSE (x \div step) * step

(* The step is the precision, and for want of one the least amount.        *)
ApplyPrecision(x) ==
  Quant(x, IF Described.tick # 0 THEN Described.tick ELSE Described.min)

Amount(c, price) ==
  ApplyPrecision(IF Buys(c) THEN (10 * Quote) \div price ELSE Asked)

(* A price above 0 and a value the market accepts.                         *)
Orderable(c, price) ==
  price > 0 /\ Amount(c, price) * price >= 10 * Described.cost

----------------------------------------------------------------------------
(* A call and its steps.  A caller makes one after another, under a new    *)
(* client order id each. *)

Free(c) == call[c].stage \in {"idle", "done", "failed"}

Become(c, r) == call' = [call EXCEPT ![c] = r]

StageOf(c, s) == [call[c] EXCEPT !.stage = s]

(* An operation of CcxtBroker is called.                                   *)
Call(c, op) ==
  /\ broker = "ccxt" /\ Free(c)
  /\ Become(c, [Idle EXCEPT !.op = op, !.stage = "plan", !.plan = Requests[op]])
  /\ booked' = [booked EXCEPT ![c] = 0]
  /\ UNCHANGED <<now, broker, bucket, breaker, markets, market, sent>>

(* An operation of BaseBroker is called: bad arguments end it, and what it *)
(* sends is one request.                                                   *)
CallBase(c, valid) ==
  /\ broker = "base" /\ Free(c)
  /\ Become(c, [Idle EXCEPT !.op = "base", !.plan = <<"order">>,
                            !.stage = IF valid THEN "plan" ELSE "failed"])
  /\ UNCHANGED <<now, broker, bucket, breaker, markets, market, sent, booked>>

\* Slip: the time since the last refill is not written down.
RefilledAgain ==
  LET earned == bucket.tokens + now - bucket.last IN
  [bucket EXCEPT !.tokens = IF earned < Capacity * Unit THEN earned ELSE Capacity * Unit]

(* The bucket after the time since it was last looked at.                  *)
Refilled ==
  LET earned == bucket.tokens + now - bucket.last IN
  [tokens |-> IF earned < Capacity * Unit THEN earned ELSE Capacity * Unit, last |-> now]

KindOf(c) == Head(call[c].plan)

Shut(k) ==
  /\ broker = "ccxt" /\ breaker[k].opened >= 0
  /\ now - breaker[k].opened < ResetAfter

(* Whatever went wrong, an order is tried again and nothing else is.       *)
AfterFailure(c) ==
  IF broker = "ccxt" /\ KindOf(c) = "create" /\ call[c].tries + 1 < Attempts
  THEN [StageOf(c, "backoff") EXCEPT !.tries = @ + 1, !.wake = now + Backoff * 2 ^ call[c].tries]
  ELSE StageOf(c, "failed")

(* The request leaves, or a shut breaker refuses it.                       *)
Leave(c) ==
  IF Shut(KindOf(c)) THEN Become(c, AfterFailure(c)) /\ UNCHANGED sent
  ELSE Become(c, StageOf(c, "flight")) /\ sent' = sent + 1

(* A token, or a sleep as long as the rest of one takes to be earned.      *)
Ask(c) ==
  /\ IF Refilled.tokens >= Unit
     THEN bucket' = [Refilled EXCEPT !.tokens = @ - Unit] /\ Leave(c)
     ELSE /\ bucket' = Refilled
          /\ Become(c, [StageOf(c, "sleep") EXCEPT !.wake = now + (Unit - Refilled.tokens)])
          /\ UNCHANGED sent
  /\ UNCHANGED <<now, broker, breaker, markets, market, booked>>

(* What an operation goes on to: nothing is left, or it needs the list of  *)
(* markets and there is one, or it has a request.                          *)
Proceed(c) ==
  /\ call[c].stage = "plan"
  /\ IF call[c].plan # <<>> /\ ~(KindOf(c) = "markets" /\ markets) THEN Ask(c)
     ELSE /\ Become(c, IF call[c].plan = <<>> THEN StageOf(c, "done")
                       ELSE [call[c] EXCEPT !.plan = Tail(@)])
          /\ UNCHANGED <<now, broker, bucket, breaker, markets, market, sent, booked>>

(* After the sleep CcxtBroker goes on and takes nothing; BaseBroker sets   *)
(* the bucket to one token, whatever it holds by now, and takes that.      *)
(* Neither writes down that time has passed, so what was slept through is  *)
(* earned once more by the next to ask.                                    *)
WakeUp(c) ==
  /\ call[c].stage = "sleep" /\ now >= call[c].wake
  /\ bucket' = IF broker = "base" THEN [bucket EXCEPT !.tokens = 0] ELSE bucket
  /\ Leave(c)
  /\ UNCHANGED <<now, broker, breaker, markets, market, booked>>

(* The pause before an order is repeated is over.                          *)
Again(c) ==
  /\ call[c].stage = "backoff" /\ now >= call[c].wake
  /\ Ask(c)

----------------------------------------------------------------------------
(* The answer *)

(* The exchange takes the order; it knows a client order id again.         *)
Book(c) ==
  /\ broker = "ccxt" /\ KindOf(c) = "create"
  /\ ~(call[c].op \in Named /\ booked[c] > 0)
  /\ booked' = [booked EXCEPT ![c] = @ + 1]

(* The price an order waited for: it is sized, or cannot be made.          *)
Sized(c, price) ==
  IF call[c].op \notin Orders THEN call[c]
  ELSE IF ~Orderable(c, price) THEN StageOf(c, "failed")
  ELSE [call[c] EXCEPT !.price = price, !.amount = Amount(c, price)]

(* A good answer: it closes the breaker, and a list of markets may be      *)
(* empty, which leaves the broker without one.                             *)
Answered(c, filled, price) ==
  LET after == IF KindOf(c) = "ticker" THEN Sized(c, price) ELSE call[c] IN
  /\ call[c].stage = "flight"
  /\ IF broker = "ccxt" /\ KindOf(c) = "create" THEN Book(c) ELSE UNCHANGED booked
  /\ breaker' = IF broker = "base" THEN breaker
                ELSE [breaker EXCEPT ![KindOf(c)] = [fails |-> 0, opened |-> -1]]
  /\ markets' = (markets \/ (KindOf(c) = "markets" /\ filled))
  /\ Become(c, [after EXCEPT !.stage = IF @ = "failed" THEN @ ELSE "plan",
                             !.plan = Tail(@)])
  /\ UNCHANGED <<now, broker, bucket, market, sent>>

(* A bad answer or none in time: the order may have been taken all the     *)
(* same.  The breaker counts it, and opens at the threshold.               *)
Failed(c) ==
  LET fails == breaker[KindOf(c)].fails + 1 IN
  /\ call[c].stage = "flight"
  /\ Book(c) \/ UNCHANGED booked
  /\ breaker' = IF broker = "base" THEN breaker
                ELSE [breaker EXCEPT ![KindOf(c)] =
                       [fails |-> fails, opened |-> IF fails >= Threshold THEN now ELSE -1]]
  /\ Become(c, AfterFailure(c))
  /\ UNCHANGED <<now, broker, bucket, markets, market, sent>>

Pass ==
  /\ now < MaxTime
  /\ now' = now + 1
  /\ UNCHANGED <<broker, bucket, breaker, markets, market, call, sent, booked>>

ExchangeNext ==
  \/ Pass
  \/ \E c \in Callers :
       \/ \E op \in Operations : Call(c, op)
       \/ \E valid \in BOOLEAN : CallBase(c, valid)
       \/ Proceed(c) \/ WakeUp(c) \/ Again(c)
       \/ \E filled \in BOOLEAN, price \in Prices : Answered(c, filled, price)
       \/ Failed(c)

ExchangeSpec == ExchangeInit /\ [][ExchangeNext]_exchangeVars

----------------------------------------------------------------------------
(* Properties *)

\* Units of time begun.
Begun == (now + Unit - 1) \div Unit

(* However calls overlap and repeat, no more requests leave than the       *)
(* bucket earned and, for each caller and unit of time begun, one that     *)
(* slept instead of taking a token, two with BaseBroker, whose sleepers    *)
(* leave the time they slept to be earned again: the rate grows with the   *)
(* callers, but has a limit.                                               *)
RequestsBounded ==
  sent <= Capacity
            + Begun * (1 + Cardinality(Callers) * (IF broker = "base" THEN 2 ELSE 1))

(* What a call for an order leaves at the exchange: an order under a       *)
(* client order id is there at most once, however often it was repeated,   *)
(* one without an id at most once per attempt; one reported as made is     *)
(* there; and a buy costs no more than was to be spent, a sell sells no    *)
(* more than was to be sold.                                               *)
OrdersAsAsked ==
  \A c \in Callers :
    /\ booked[c] <= IF call[c].op \in Named THEN 1 ELSE Attempts
    /\ call[c].stage = "done" /\ call[c].op \in Orders => booked[c] > 0
    /\ IF Buys(c) THEN call[c].amount * call[c].price <= 10 * Quote
       ELSE call[c].amount <= Asked
=============================================================================
