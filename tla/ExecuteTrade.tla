---------------------------- MODULE ExecuteTrade ----------------------------
(***************************************************************************)
(* core/application/use_cases/execute_trade.py: the one path by which an   *)
(* order reaches the exchange.  A call of ExecuteTrade.execute is a        *)
(* coroutine; other calls run whenever it awaits the storage, the event    *)
(* bus or the broker, so each action below is the code between two awaits. *)
(* The storage and the exchange outlive the process; the calls do not.     *)
(* The broker is modelled from its in-repo implementation PaperBroker: it  *)
(* keeps one order per client order id and answers a repeated id with the  *)
(* order it already has.                                                   *)
(***************************************************************************)
EXTENDS Naturals, FiniteSets

CONSTANTS
  Calls,         \* identities of the execute() coroutines
  Symbols,       \* trading pairs
  NoSymbol,      \* the empty symbol
  Requests,      \* the argument lists execute() is called with
  CallerIds,     \* client order ids chosen by a caller
  NoId,          \* client_order_id not given
  FixedAmount,   \* settings.FIXED_AMOUNT, 0 when unset
  MaxRetries,    \* the argument max_retries
  Verdicts,      \* what RiskManager.check_trade may answer
  Faults,        \* which ports may raise besides the broker: "storage", "bus"
  MaxMinute,     \* bound on the clock, in minutes
  MaxSession     \* bound on the restarts that draw a new SESSION_ID

Sides == {"buy", "sell"}

ASSUME ConstantsOK ==
  /\ NoSymbol \notin Symbols
  /\ NoId \notin CallerIds
  /\ FixedAmount \in Nat
  /\ MaxRetries \in Nat
  /\ MaxMinute \in Nat
  /\ MaxSession \in Nat
  /\ Verdicts \subseteq {"allow", "warn", "reduce", "block"}
  /\ Faults \subseteq {"storage", "bus"}
  /\ Requests \subseteq [symbol : Symbols \cup {NoSymbol}, side : Sides,
                         amount : Nat, quote_amount : Nat,
                         client_order_id : CallerIds \cup {NoId}]

VARIABLES
  pc,          \* where each call is suspended
  req,         \* the arguments of each call
  key,         \* idem_key of each call
  cid,         \* the client order id the call sends
  verdict,     \* the risk answer the call got
  attempt,     \* orders sent so far by the retry loop
  result,      \* what execute() returned, raised, or was cut off by
  unchecked,   \* calls whose idempotency check raised and was waved through
  saved_keys,  \* idempotency keys in the order storage
  wire,        \* attempts on their way to the exchange
  served,      \* attempts the exchange has answered
  orders,      \* orders at the exchange
  minute,      \* utcnow() to the minute
  session      \* settings.SESSION_ID

vars == <<pc, req, key, cid, verdict, attempt, result, unchecked,
          saved_keys, wire, served, orders, minute, session>>

(* What a call carries, and what is remembered about the past of a call.   *)
identity == <<req, key, cid>>
exchange == <<wire, served, orders>>
clocks   == <<minute, session>>

NoKey == [symbol |-> NoSymbol]

Keys == [symbol : Symbols, side : Sides, amount : Nat \ {0},
         session : Nat, minute : Nat]

Order == [client_order_id : CallerIds \cup Keys, symbol : Symbols,
          side : Sides, amount : Nat \ {0}, key : Keys, call : Calls,
          attempt : Nat]

Running == {"check", "save", "send", "inflight", "publish"}

Skips == {"invalid_side", "invalid_amount", "duplicate", "risk_blocked"}

Results == Skips \cup {"none", "executed", "broker_error", "raised", "cancelled"}
-----------------------------------------------------------------------------
(* BUY spends quote_amount or, failing that, FIXED_AMOUNT; SELL needs a    *)
(* base amount.  Zero and "not given" are the same to Python's truth test. *)
calculate_amount(r) ==
  IF r.side = "sell" THEN r.amount
  ELSE IF r.quote_amount # 0 THEN r.quote_amount ELSE FixedAmount

(* The reason _validate_inputs gives, "none" when the request is good.     *)
validate_inputs(r) ==
  IF r.symbol = NoSymbol THEN "invalid_side"
  ELSE IF calculate_amount(r) = 0 THEN "invalid_amount"
  ELSE "none"

(* symbol, side, amount, session and minute; the digest is injective here. *)
generate_key(r) ==
  [symbol |-> r.symbol, side |-> r.side, amount |-> calculate_amount(r),
   session |-> session, minute |-> minute]

\* Slip: the answer of the risk manager is not looked at.
AllowedAlways(v) == TRUE

Allowed(v) == v # "block"

(* The order attempt n of call c asks for; key, call and attempt record    *)
(* where it came from.                                                     *)
NewOrder(c, n) ==
  [client_order_id |-> cid[c], symbol |-> key[c].symbol, side |-> key[c].side,
   amount |-> key[c].amount, key |-> key[c], call |-> c, attempt |-> n]

Goto(c, l) == pc' = [pc EXCEPT ![c] = l]

Return(c, r) == /\ Goto(c, "done")
                /\ result' = [result EXCEPT ![c] = r]

Init ==
  /\ pc = [c \in Calls |-> "idle"]
  /\ req \in [Calls -> Requests]
  /\ key = [c \in Calls |-> NoKey]
  /\ cid = [c \in Calls |-> NoId]
  /\ verdict = [c \in Calls |-> "none"]
  /\ attempt = [c \in Calls |-> 0]
  /\ result = [c \in Calls |-> "none"]
  /\ unchecked = {}
  /\ saved_keys = {}
  /\ wire = [c \in Calls |-> {}]
  /\ served = [c \in Calls |-> {}]
  /\ orders = {}
  /\ minute = 0
  /\ session = 0
-----------------------------------------------------------------------------
(* execute() of a request _validate_inputs refuses: reported as blocked.   *)
BeginInvalid(c) ==
  /\ pc[c] = "idle"
  /\ validate_inputs(req[c]) # "none"
  /\ Return(c, validate_inputs(req[c]))
  /\ UNCHANGED <<identity, verdict, attempt, unchecked, saved_keys, exchange,
                 clocks>>

\* Slip: the key is reserved before it is looked up.
BeginReserving(c) ==
  /\ pc[c] = "idle"
  /\ validate_inputs(req[c]) = "none"
  /\ key' = [key EXCEPT ![c] = generate_key(req[c])]
  /\ saved_keys' = saved_keys \cup {generate_key(req[c])}
  /\ Goto(c, "check")
  /\ UNCHANGED <<req, cid, verdict, attempt, result, unchecked, exchange, clocks>>

(* execute() of a good request: the key is drawn at this moment's minute   *)
(* and is_idempotent_key_used is awaited.                                  *)
Begin(c) ==
  /\ pc[c] = "idle"
  /\ validate_inputs(req[c]) = "none"
  /\ key' = [key EXCEPT ![c] = generate_key(req[c])]
  /\ Goto(c, "check")
  /\ UNCHANGED <<req, cid, verdict, attempt, result, unchecked, saved_keys,
                 exchange, clocks>>

(* The key was used: TRADE_BLOCKED, and the call is over.                  *)
FoundDuplicate(c) ==
  /\ pc[c] = "check"
  /\ key[c] \in saved_keys
  /\ Return(c, "duplicate")
  /\ UNCHANGED <<identity, verdict, attempt, unchecked, saved_keys, exchange,
                 clocks>>

(* It was not; save_idempotent_key is a second call, awaited in its turn.  *)
FoundFresh(c) ==
  /\ pc[c] = "check"
  /\ key[c] \notin saved_keys
  /\ Goto(c, "save")
  /\ UNCHANGED <<identity, verdict, attempt, result, unchecked, saved_keys,
                 exchange, clocks>>

\* Slip: the blocked call is reported but not returned from.
check_riskFallsThrough(c) == \E v \in Verdicts :
  /\ verdict' = [verdict EXCEPT ![c] = v]
  /\ cid' = [cid EXCEPT ![c] = IF req[c].client_order_id = NoId
                               THEN key[c] ELSE req[c].client_order_id]
  /\ Goto(c, "send")
  /\ result' = [result EXCEPT ![c] = IF Allowed(v) THEN @ ELSE "risk_blocked"]

(* _check_risk follows check_duplicate without an await.  Only the flag    *)
(* "allowed" of the answer is read: REDUCE trades the full amount.         *)
(* RISK_BLOCKED is published without a guard, so a bus that raises makes   *)
(* execute() raise.                                                        *)
check_risk(c) == \E v \in Verdicts :
  /\ verdict' = [verdict EXCEPT ![c] = v]
  /\ \/ /\ Allowed(v)
        /\ cid' = [cid EXCEPT ![c] = IF req[c].client_order_id = NoId
                                     THEN key[c] ELSE req[c].client_order_id]
        /\ Goto(c, "send")
        /\ UNCHANGED result
     \/ /\ ~Allowed(v)
        /\ \/ Return(c, "risk_blocked")
           \/ "bus" \in Faults /\ Return(c, "raised")
        /\ UNCHANGED cid

SaveKey(c) ==
  /\ pc[c] = "save"
  /\ saved_keys' = saved_keys \cup {key[c]}
  /\ check_risk(c)
  /\ UNCHANGED <<req, key, attempt, unchecked, exchange, clocks>>

(* Either storage call raises, before or after its effect: check_duplicate *)
(* answers False and the trade goes on.                                    *)
StorageRaises(c) ==
  /\ "storage" \in Faults
  /\ \/ pc[c] = "check" /\ UNCHANGED saved_keys
     \/ pc[c] = "save" /\ saved_keys' \in {saved_keys, saved_keys \cup {key[c]}}
  /\ unchecked' = unchecked \cup {c}
  /\ check_risk(c)
  /\ UNCHANGED <<req, key, attempt, exchange, clocks>>
-----------------------------------------------------------------------------

(* One turn of the retry loop: ORDER_CREATED, then create_market_order.    *)
Send(c) ==
  /\ pc[c] = "send"
  /\ attempt[c] < MaxRetries
  /\ attempt' = [attempt EXCEPT ![c] = @ + 1]
  /\ wire' = [wire EXCEPT ![c] = @ \cup {attempt[c] + 1}]
  /\ Goto(c, "inflight")
  /\ UNCHANGED <<identity, verdict, result, unchecked, saved_keys, served,
                 orders, clocks>>

(* The loop is exhausted: ORDER_FAILED, TRADE_FAILED.                      *)
GiveUp(c) ==
  /\ pc[c] = "send"
  /\ attempt[c] = MaxRetries
  /\ Return(c, "broker_error")
  /\ UNCHANGED <<identity, verdict, attempt, unchecked, saved_keys, exchange,
                 clocks>>

\* Slip: the exchange does not look the client order id up.
ServeAlways(c) == \E n \in wire[c] :
  /\ wire' = [wire EXCEPT ![c] = @ \ {n}]
  /\ served' = [served EXCEPT ![c] = @ \cup {n}]
  /\ orders' = orders \cup {NewOrder(c, n)}
  /\ UNCHANGED <<pc, identity, verdict, attempt, result, unchecked,
                 saved_keys, clocks>>

(* The exchange takes a request: an id it knows is answered with the order *)
(* it has, a new one is executed.  A request may arrive long after its     *)
(* caller stopped waiting; one that is refused or lost is never taken.     *)
Serve(c) == \E n \in wire[c] :
  /\ wire' = [wire EXCEPT ![c] = @ \ {n}]
  /\ served' = [served EXCEPT ![c] = @ \cup {n}]
  /\ orders' = IF \E o \in orders : o.client_order_id = cid[c]
               THEN orders
               ELSE orders \cup {NewOrder(c, n)}
  /\ UNCHANGED <<pc, identity, verdict, attempt, result, unchecked,
                 saved_keys, clocks>>

\* Slip: the attempt is taken for executed without an answer.
ReplyAssumed(c) ==
  /\ pc[c] = "inflight"
  /\ Goto(c, "publish")
  /\ UNCHANGED <<identity, verdict, attempt, result, unchecked, saved_keys,
                 exchange, clocks>>

(* The order comes back and goes to _persist_order, whose exceptions are   *)
(* logged and swallowed.                                                   *)
Reply(c) ==
  /\ pc[c] = "inflight"
  /\ attempt[c] \in served[c]
  /\ Goto(c, "publish")
  /\ UNCHANGED <<identity, verdict, attempt, result, unchecked, saved_keys,
                 exchange, clocks>>

(* create_market_order raises, whether or not the request got through; the *)
(* loop sleeps and comes round.                                            *)
Raise(c) ==
  /\ pc[c] = "inflight"
  /\ Goto(c, "send")
  /\ UNCHANGED <<identity, verdict, attempt, result, unchecked, saved_keys,
                 exchange, clocks>>

(* ORDER_EXECUTED is published without a guard, TRADE_COMPLETED with one.  *)
PublishSuccess(c) ==
  /\ pc[c] = "publish"
  /\ \/ Return(c, "executed")
     \/ "bus" \in Faults /\ Return(c, "raised")
  /\ UNCHANGED <<identity, verdict, attempt, unchecked, saved_keys, exchange,
                 clocks>>
-----------------------------------------------------------------------------
(* CancelledError is not an Exception: it passes every handler above.  The *)
(* orchestrator cancels its evaluation loop this way.                      *)
Cancel(c) ==
  /\ pc[c] \in Running
  /\ Return(c, "cancelled")
  /\ UNCHANGED <<identity, verdict, attempt, unchecked, saved_keys, exchange,
                 clocks>>

(* The process dies and is started again: every call is cut off; SESSION_ID *)
(* is the one pinned in the environment or a fresh one.                    *)
Restart ==
  /\ \E c \in Calls : pc[c] \in Running
  /\ session' \in {session, session + 1}
  /\ session' <= MaxSession
  /\ pc' = [c \in Calls |-> IF pc[c] \in Running THEN "done" ELSE pc[c]]
  /\ result' = [c \in Calls |->
                  IF pc[c] \in Running THEN "cancelled" ELSE result[c]]
  /\ UNCHANGED <<identity, verdict, attempt, unchecked, saved_keys, exchange,
                 minute>>

Tick ==
  /\ minute < MaxMinute
  /\ minute' = minute + 1
  /\ UNCHANGED <<pc, identity, verdict, attempt, result, unchecked,
                 saved_keys, exchange, session>>

(* The steps a call takes of its own accord once it has begun.             *)
Step(c) ==
  \/ FoundDuplicate(c) \/ FoundFresh(c) \/ SaveKey(c) \/ StorageRaises(c)
  \/ Send(c) \/ GiveUp(c) \/ Reply(c) \/ Raise(c) \/ PublishSuccess(c)

Next ==
  \/ \E c \in Calls : \/ BeginInvalid(c) \/ Begin(c) \/ Cancel(c)
                      \/ Step(c) \/ Serve(c)
  \/ Restart
  \/ Tick

Spec == Init /\ [][Next]_vars
-----------------------------------------------------------------------------
(* Types of the variables of a run of execute() calls.                     *)
TypeOK ==
  /\ pc \in [Calls -> Running \cup {"idle", "done"}]
  /\ req \in [Calls -> Requests]
  /\ key \in [Calls -> Keys \cup {NoKey}]
  /\ cid \in [Calls -> CallerIds \cup Keys \cup {NoId}]
  /\ verdict \in [Calls -> Verdicts \cup {"none"}]
  /\ attempt \in [Calls -> 0..MaxRetries]
  /\ result \in [Calls -> Results]
  /\ unchecked \subseteq Calls
  /\ saved_keys \subseteq Keys
  /\ wire \in [Calls -> SUBSET (1..MaxRetries)]
  /\ served \in [Calls -> SUBSET (1..MaxRetries)]
  /\ orders \subseteq Order
  /\ minute \in Nat
  /\ session \in Nat

(* "Idempotency is mandatory" (execute_trade.py:6): the retries of a call, *)
(* late requests and calls racing between the check and the save never put *)
(* two orders at the exchange for one idempotency key.                     *)
OneOrderPerKey ==
  \A o1, o2 \in orders : o1.key = o2.key => o1 = o2

(* "ALL orders MUST go through this module", "Risk checks are mandatory"   *)
(* (execute_trade.py:5-7): every order was let through by the risk manager *)
(* and had its key saved first, unless the storage itself failed the call. *)
OrdersPassedTheGates ==
  \A o \in orders :
    /\ verdict[o.call] \in {"allow", "warn", "reduce"}
    /\ o.key \in saved_keys \/ o.call \in unchecked

(* A call that returns executed=True has the trade it asked for at the     *)
(* exchange, although its order may have been placed by an attempt whose   *)
(* reply was lost, or by another call with the same key.                   *)
ExecutedIsReal ==
  \A c \in Calls : result[c] = "executed" =>
    \E o \in orders : /\ o.client_order_id = cid[c]
                      /\ o.symbol = req[c].symbol
                      /\ o.side = req[c].side
                      /\ o.amount = calculate_amount(req[c])

(* A trade is skipped as a duplicate only because another call, which was  *)
(* not itself a duplicate, saved the same key: no call blocks itself and   *)
(* two racing calls never block each other.                                *)
DuplicateHasOriginal ==
  \A c \in Calls : result[c] = "duplicate" =>
    \E d \in Calls \ {c} : /\ key[d] = key[c]
                           /\ result[d] # "duplicate"
                           /\ pc[d] \notin {"idle", "check"}

(* The calls implement TradeOnce: the intent of a call is its key, being   *)
(* cut off is no report.                                                   *)
Once == INSTANCE TradeOnce WITH
  Intents  <- Keys,
  NoIntent <- NoKey,
  Reports  <- Results \ {"none", "cancelled"},
  intent   <- key,
  placed   <- {<<o.key, o.call>> : o \in orders},
  report   <- [c \in Calls |->
                 IF result[c] = "cancelled" THEN "none" ELSE result[c]]

ImplementsOnce == Once!Spec
=============================================================================
