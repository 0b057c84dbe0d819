-------------------------------- MODULE Gate --------------------------------
(***************************************************************************)
(* An evaluation that becomes an order under a market regime: eval_and_    *)
(* execute() takes a strategy's decision and the risk check's verdict,     *)
(* execute_trade() sends the order and sends it again when that fails,     *)
(* GatedBroker (core/application/regime/gated_broker.py) lets it pass,     *)
(* halves or refuses it, and RegimeDetector (core/domain/macro/            *)
(* regime_detector.py) tells the regime from its cache or refreshes it.    *)
(* Callers share one detector; every await is a step of its own.           *)
(***************************************************************************)
EXTENDS Signals, Strategies

CONSTANTS
  Callers,
  Policies,        \* what create_gated_broker() may be asked for
  Readings,        \* what the macro sources may tell
  Weighting,       \* STRATEGY_MODE, its weights and its least confidence
  Opinions,        \* what the strategies may say in one cycle
  Amount,          \* of an order, divisible by 100
  UpdateInterval,  \* of the detector, in ticks
  MaxAttempts,     \* of an order
  MaxClock

ASSUME GateOK == UpdateInterval \in Nat \ {0} /\ MaxAttempts \in Nat \ {0} /\ Amount % 100 = 0

VARIABLES
  clock,
  policy,
  cache,       \* _last_snapshot and _last_update; read, when its data was told
  last_state,  \* _last_state
  told,        \* the regime the bus delivered last
  caller,      \* where each caller is
  orders,      \* what the market executed under each caller's client order id
  doubtful     \* refreshes overlapped, or the bus failed

gate_vars == <<clock, policy, cache, last_state, told, caller, orders, doubtful>>

NoRegime == "unknown"
Sources == {"dxy", "dom", "fomc"}
Idle == [pc |-> "idle", side |-> "none", attempt |-> 0, since |-> 0, at |-> 0, regime |-> NoRegime,
         amount |-> 0, seen |-> {}]
NothingCached == [state |-> NoRegime, at |-> 0, read |-> 0]
-----------------------------------------------------------------------------
(* The factor of the policy is kept within 0..100 per cent.                *)
create_gated_broker(settings) == [settings EXCEPT !.factor = Clamp(@, 0, 100)]

Blocks(regime) ==
  \/ regime = "risk_off" /\ policy.off
  \/ regime = "neutral" /\ policy.neutral
Sized(regime) ==
  IF regime = "risk_small" /\ policy.reduce THEN (Amount * policy.factor) \div 100 ELSE Amount

\* An exception of the broker: execute_trade() tries again, or gives up.
Ended(r, how) == [Idle EXCEPT !.pc = how, !.side = r.side, !.seen = r.seen]
Raised(r) ==
  IF r.attempt < MaxAttempts THEN [Ended(r, "asleep") EXCEPT !.attempt = r.attempt] ELSE Ended(r, "failed")

\* _filter_buy_order() and _check_regime_for_sells(), once the regime is
\* known: seen is what this caller was told, at when that was read.
Filtered(r, regime, at) ==
  LET now == [r EXCEPT !.regime = regime, !.at = at, !.seen = @ \cup {regime}, !.amount = Sized(regime)]
  IN  IF r.side = "sell"
      THEN IF regime \in {"risk_off", "neutral"} THEN Raised(now) ELSE [now EXCEPT !.amount = Amount, !.pc = "place"]
      ELSE IF Blocks(regime) THEN Raised(now)
      ELSE IF regime = "risk_small" /\ policy.reduce /\ policy.emit THEN [now EXCEPT !.pc = "reducing"]
      ELSE [now EXCEPT !.pc = "place"]
-----------------------------------------------------------------------------
GateInit ==
  /\ clock = 0
  /\ policy \in {create_gated_broker(s) : s \in Policies}
  /\ cache = NothingCached
  /\ last_state = NoRegime
  /\ told = NoRegime
  /\ caller = [c \in Callers |-> Idle]
  /\ orders = [c \in Callers |-> 0]
  /\ doubtful = FALSE

Tick ==
  /\ clock < MaxClock /\ clock' = clock + 1
  /\ UNCHANGED <<policy, cache, last_state, told, caller, orders, doubtful>>

Become(c, r) == caller' = [caller EXCEPT ![c] = r]
Idling == UNCHANGED <<clock, policy, orders>>

(* eval_and_execute(): a decision to hold and a verdict against the trade  *)
(* end the cycle.                                                          *)
Evaluate(c) ==
  /\ caller[c].pc = "idle"
  /\ \E opinions \in Opinions, allowed \in BOOLEAN :
       LET action == decide(Weighting, opinions)
       IN  Become(c, IF action = "hold" \/ ~allowed THEN [Idle EXCEPT !.pc = "skipped"]
                     ELSE [Idle EXCEPT !.pc = "asleep", !.side = action])
  /\ Idling /\ UNCHANGED <<cache, last_state, told, doubtful>>

(* The next attempt of execute_trade() enters the gate: a sale passes it   *)
(* without a look unless exits are restricted.                             *)
Attempt(c) ==
  /\ caller[c].pc = "asleep"
  /\ Become(c, [caller[c] EXCEPT !.attempt = @ + 1, !.amount = Amount,
                  !.pc = IF caller[c].side = "sell" /\ policy.exits THEN "place" ELSE "ask"])
  /\ Idling /\ UNCHANGED <<cache, last_state, told, doubtful>>

(* get_snapshot(): the cache while it is fresh.                            *)
Fresh == cache.state # NoRegime /\ clock - cache.at < UpdateInterval
Refreshing(c) == caller[c].pc \in {"fetching", "telling", "told"}
AskNobody(c) ==
  /\ caller[c].pc = "ask" /\ ~policy.detector
  /\ Become(c, Filtered(caller[c], "risk_on", clock))
  /\ Idling /\ UNCHANGED <<cache, last_state, told, doubtful>>
AskCache(c) ==
  /\ caller[c].pc = "ask" /\ policy.detector /\ Fresh
  /\ Become(c, Filtered([caller[c] EXCEPT !.since = clock], cache.state, cache.read))
  /\ Idling /\ UNCHANGED <<cache, last_state, told, doubtful>>
AskSources(c) ==
  /\ caller[c].pc = "ask" /\ policy.detector /\ ~Fresh
  /\ Become(c, [caller[c] EXCEPT !.pc = "fetching", !.since = clock])
  /\ doubtful' = (doubtful \/ \E d \in Callers \ {c} : Refreshing(d))
  /\ Idling /\ UNCHANGED <<cache, last_state, told>>

\* The cache is stamped with the time the refresh began.
\* Slip: it is stamped with the time the refresh ended.
SaveAtEnd(r, state) == cache' = [state |-> state, at |-> clock, read |-> r.at]
Save(r, state) == cache' = [state |-> state, at |-> r.since, read |-> r.at]

(* The sources answered, those in lost with nothing.                       *)
Fetched(c) ==
  /\ caller[c].pc = "fetching"
  /\ \E reading \in Readings, lost \in SUBSET Sources :
       LET state == resolve_state([k \in Sources \ lost |-> reading[k]])
           r == [caller[c] EXCEPT !.at = clock]
       IN  IF state # last_state
           THEN Become(c, [r EXCEPT !.pc = "telling", !.regime = state]) /\ UNCHANGED cache
           ELSE Save(r, state) /\ Become(c, Filtered(r, state, clock))
  /\ Idling /\ UNCHANGED <<last_state, told, doubtful>>

(* _on_regime_change(): the bus delivers the change, or fails and is not   *)
(* minded; only then is the change remembered, and the cache renewed.      *)
Deliver(c) ==
  /\ caller[c].pc = "telling"
  /\ Become(c, [caller[c] EXCEPT !.pc = "told"])
  /\ \/ told' = caller[c].regime /\ UNCHANGED doubtful
     \/ doubtful' = TRUE /\ UNCHANGED told
  /\ Idling /\ UNCHANGED <<cache, last_state>>
\* Slip: the change is told and not remembered.
ReturnForgotten(c) ==
  LET r == caller[c]
  IN  /\ r.pc = "told"
      /\ Save(r, r.regime)
      /\ Become(c, Filtered(r, r.regime, r.at))
      /\ Idling /\ UNCHANGED <<last_state, told, doubtful>>
Return(c) ==
  LET r == caller[c]
  IN  /\ r.pc = "told"
      /\ last_state' = r.regime
      /\ Save(r, r.regime)
      /\ Become(c, Filtered(r, r.regime, r.at))
      /\ Idling /\ UNCHANGED <<told, doubtful>>

(* The event of a reduced order is awaited: when it fails, so does the     *)
(* order.                                                                  *)
TellReduced(c) ==
  /\ caller[c].pc = "reducing"
  /\ \/ Become(c, [caller[c] EXCEPT !.pc = "place"])
     \/ Become(c, Raised(caller[c]))
  /\ Idling /\ UNCHANGED <<cache, last_state, told, doubtful>>

(* The inner broker: the request or its answer may be lost, and a request  *)
(* under a client order id that was executed is answered with that order.  *)
Place(c) ==
  /\ caller[c].pc = "place"
  /\ \/ /\ Become(c, Raised(caller[c]))
        /\ UNCHANGED orders
     \/ /\ orders' = [orders EXCEPT ![c] = IF @ # 0 THEN @ ELSE caller[c].amount]
        /\ \/ Become(c, Ended(caller[c], "done"))
           \/ Become(c, Raised(caller[c]))
  /\ UNCHANGED <<clock, policy, cache, last_state, told, doubtful>>

GateNext ==
  \/ Tick
  \/ \E c \in Callers :
       \/ Evaluate(c) \/ Attempt(c) \/ AskNobody(c) \/ AskCache(c) \/ AskSources(c)
       \/ Fetched(c) \/ Deliver(c) \/ Return(c) \/ TellReduced(c) \/ Place(c)

GateSpec == GateInit /\ [][GateNext]_gate_vars
-----------------------------------------------------------------------------
FreshRegime ==
  \A c \in Callers :
    caller[c].pc \in {"reducing", "place"} /\ caller[c].regime # NoRegime =>
      caller[c].at > caller[c].since - UpdateInterval

SizedByARegime ==
  \A c \in Callers :
    caller[c].side = "buy" /\ orders[c] # 0 =>
      \E regime \in caller[c].seen :
        /\ ~Blocks(regime) /\ orders[c] = Sized(regime)
        /\ policy.off /\ policy.neutral => regime = NoRegime \/ allows_entry(regime)
(* No order leaves under a regime that was out of date when it was asked   *)
(* for: the data is not older than the interval of the detector, however   *)
(* long a refresh took and however many overlapped.  And what was bought   *)
(* is the whole amount or the reduced one as a regime said that this       *)
(* caller was told, none if all of them block: an order sent again is not  *)
(* reduced again (gated_broker.py: create_market_order).  Under the policy *)
(* by default that is a regime that allows entries.                        *)
JudgedByARegime == FreshRegime /\ SizedByARegime

(* While refreshes do not overlap and the bus delivers, subscribers know   *)
(* the regime the detector last announced, and it is the one orders are    *)
(* judged by: a failed source is a change of regime like any other.        *)
TruthTold ==
  ~doubtful /\ (\A c \in Callers : ~Refreshing(c)) =>
    told = last_state /\ (cache # NothingCached => cache.state = last_state)
=============================================================================
