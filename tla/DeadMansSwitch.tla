--------------------------- MODULE DeadMansSwitch ---------------------------
(***************************************************************************)
(* core/infrastructure/safety/dead_mans_switch.py beside the protective    *)
(* exits: both sell the same position on the same account, neither knows   *)
(* of the other, and other clients trade on the account meanwhile.  The    *)
(* scheduler runs check() again only when the last one has returned.       *)
(***************************************************************************)
EXTENDS ProtectiveExits

CONSTANT max_impact_pct

ASSUME SwitchConstantsOK == max_impact_pct \in 0..100

VARIABLES
  healthy,  \* _last_healthy_price, 0 when there is none
  check,    \* where check() is
  cur,      \* the price it is selling at
  dms_qty   \* what it is selling

dms_vars == <<healthy, check, cur, dms_qty>>
vars == <<price, broker_vars, exit_vars, dms_vars>>

MaxOf(a, b) == IF a > b THEN a ELSE b

DmsInit == healthy = 0 /\ check = "idle" /\ cur = 0 /\ dms_qty = 0

(* The first price is healthy.  Later ones are read once more after a      *)
(* pause; the reading before the pause is not used.                        *)
check_begins ==
  /\ check = "idle"
  /\ IF healthy = 0 THEN healthy' = price /\ UNCHANGED check
                    ELSE check' = "recheck" /\ UNCHANGED healthy
  /\ UNCHANGED <<cur, dms_qty>>

(* fetch_ticker raises, and check() with it.                               *)
check_fails ==
  /\ check = "recheck"
  /\ check' = "idle"
  /\ UNCHANGED <<healthy, cur, dms_qty>>

dropped == 100 * price < (100 - max_impact_pct) * healthy

(* The price is compared and the position read; without a position the     *)
(* switch only reports, and the baseline moves all the same.               *)
recheck ==
  /\ check = "recheck"
  /\ IF dropped /\ position > 0
     THEN check' = "sell" /\ cur' = price /\ dms_qty' = position /\ UNCHANGED healthy
     ELSE /\ check' = "idle"
          /\ healthy' = IF dropped THEN price ELSE MaxOf(healthy, price)
          /\ UNCHANGED <<cur, dms_qty>>

(* The order reaches the exchange or raises; the baseline moves either way.*)
sell_all ==
  /\ check = "sell"
  /\ \/ market_executes("dms_auto_exit", "sell", dms_qty)
     \/ market_repeats("dms_auto_exit")
     \/ market_raises("dms_auto_exit")
  /\ check' = "idle"
  /\ healthy' = cur
  /\ cur' = 0 /\ dms_qty' = 0
-----------------------------------------------------------------------------
Init == BrokerInit /\ ExitsInit /\ DmsInit

Next ==
  \/ MovePrice /\ UNCHANGED <<exit_vars, dms_vars>>
  \/ /\ \E c \in ClientIds : MarketOrder(c) \/ LimitOrder(c) \/ StopLossOrder(c)
     /\ UNCHANGED <<price, exit_vars, dms_vars>>
  \/ /\ SyncPosition \/ stop \/ \E t \in Loops : start(t) \/ LoopNext(t)
     /\ UNCHANGED <<price, broker_vars, dms_vars>>
  \/ (\E t \in Loops : Sell(t) \/ SellRaises(t)) /\ UNCHANGED <<price, dms_vars>>
  \/ /\ check_begins \/ check_fails \/ recheck
     /\ UNCHANGED <<price, broker_vars, exit_vars>>
  \/ sell_all /\ UNCHANGED <<price, exit_vars>>

Spec == Init /\ [][Next]_vars
-----------------------------------------------------------------------------
(* Types of the variables of broker, exits and switch.                     *)
TypeOK ==
  /\ BrokerTypeOK /\ ExitsTypeOK
  /\ healthy \in Prices \cup {0} /\ cur \in Prices \cup {0}
  /\ check \in {"idle", "recheck", "sell"}
  /\ dms_qty \in Nat
=============================================================================
