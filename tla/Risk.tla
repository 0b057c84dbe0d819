-------------------------------- MODULE Risk --------------------------------
(***************************************************************************)
(* Traders behind one gate of the risk code: the RiskManager, or one of    *)
(* the rule objects.  A trader asks, and if it is let through places its   *)
(* order; the trade is recorded later, and others ask in between.  The     *)
(* gate is drawn once, with its settings: the gates share no state.        *)
(***************************************************************************)
EXTENDS RiskRules

CONSTANTS
  Callers,    \* traders that may ask at the same time
  Symbols,
  Settings,   \* what the gate may be: records with the fields
              \* gate, symbols, trades (what one may bring: pnl, cost, fee), ...
  Marks,      \* sets of at most one open result
  Spreads,    \* spreads the provider may tell, in per cent
  MaxTrades,  \* bound on the trades
  MaxClock    \* bound on the clock

ASSUME BoundsOK == MaxTrades \in Nat /\ MaxClock \in Nat

\* What a configuration may hold, as far as the limits turn on it.
ASSUME SettingsOK ==
  /\ IsFiniteSet(Callers)
  /\ \A K \in Settings :
       /\ K.symbols \subseteq Symbols
       /\ IsFiniteSet(K.trades) /\ K.trades # {}
       /\ \A t \in K.trades : t.pnl \in Int /\ t.cost \in Nat /\ t.fee \in Nat
       /\ K.gate = "manager" =>
            K.orders \in Int /\ K.turnover \in Int /\ K.loss_streak \in Int
       /\ K.gate = "cooldown" =>
            /\ K.base \in Nat /\ K.after_win \in Nat /\ K.after_loss \in Nat
            /\ K.progressive \in BOOLEAN /\ K.factor \in Nat \ {0} /\ K.saturated \in Nat
            /\ K.progressive_max \in Nat /\ K.same_symbol \in Nat
       /\ K.gate = "daily_loss" => K.limit \in Nat /\ K.reset_hour \in 0..(Day - 1)
       /\ K.gate = "correlation" => \A i \in DOMAIN K.groups :
            /\ i \in Nat /\ K.groups[i].max \in Int
            /\ IsFiniteSet(K.groups[i].symbols) /\ K.groups[i].symbols \subseteq Symbols

VARIABLES
  clock,
  config,    \* the gate and its settings
  memory,    \* what the rule remembers
  provider,  \* whether the manager's spread rule has been given a provider
  trades,    \* the table of trades
  open,      \* what is held of each symbol
  call       \* what each trader is placing, or waits for

vars == <<clock, config, memory, provider, trades, open, call>>
-----------------------------------------------------------------------------
Idle == [phase |-> "idle"]
Placing(s, closing) == [phase |-> "placing", sym |-> s, closing |-> closing]
\* The daily loss rule awaits the trades of a period that ends now.
Loading(s, mark) ==
  [phase |-> "loading", sym |-> s, mark |-> mark, at |-> clock, since |-> Len(trades)]

\* The objects as their constructors leave them.
Fresh(K) ==
  CASE K.gate = "cooldown" -> [s \in Symbols |-> [early |-> 0, since |-> Nothing]]
    [] K.gate = "daily_loss" -> [start |-> -Day, mark |-> 0, realized |-> 0]
    [] K.gate = "max_drawdown" -> [s \in Symbols |-> 0]
    [] OTHER -> <<>>

Init ==
  /\ clock = Day
  /\ config \in Settings
  /\ memory = Fresh(config)
  /\ provider = FALSE
  /\ trades = <<>>
  /\ open = [s \in Symbols |-> 0]
  /\ call = [c \in Callers |-> Idle]

\* The caller goes on unless it is told to stop.
Answered(c, s, closing, answer) ==
  /\ call' = IF Allowed(answer) THEN [call EXCEPT ![c] = Placing(s, closing)] ELSE call
  /\ UNCHANGED <<clock, config, trades, open>>

Asks(c, gate) == call[c] = Idle /\ config.gate = gate
Remembers(r) == memory' = r.memory

\* check_trade(): the side is no argument of any rule, a sale is like a purchase.
AskManager(c) == \E s \in config.symbols, given \in BOOLEAN, spread \in Spreads :
  LET passed == blocking_rules(config, config.repo, trades, s, clock) = {}
      knows == provider \/ (passed /\ given)
  IN  /\ Asks(c, "manager")
      /\ provider' = knows
      /\ Answered(c, s, FALSE, check_trade(config, config.repo,
                  IF knows THEN spread ELSE NoProvider, trades, s, clock))
      /\ UNCHANGED memory

AskCooldown(c) == \E s \in config.symbols, closing \in BOOLEAN :
  LET r == CooldownCheck(config, memory, trades, s, closing, clock)
  IN  /\ Asks(c, "cooldown") /\ Remembers(r) /\ Answered(c, s, closing, r.answer)
      /\ UNCHANGED provider

\* Up to the await: entries whose figure is kept are answered at once.
AskDailyLoss(c) == \E s \in config.symbols, closing \in BOOLEAN, mark \in Marks :
  LET r == DailyLossCheck(config, refreshed(config, memory, mark))
  IN  /\ Asks(c, "daily_loss")
      /\ \/ /\ config.limit = 0 \/ closing
            /\ Answered(c, s, closing, Allow)
            /\ UNCHANGED memory
         \/ /\ config.limit > 0 /\ ~closing /\ kept(config, memory, clock)
            /\ Remembers(r) /\ Answered(c, s, closing, r.answer)
         \/ /\ config.limit > 0 /\ ~closing /\ ~kept(config, memory, clock)
            /\ call' = [call EXCEPT ![c] = Loading(s, Marked(config, mark, 0))]
            /\ UNCHANGED <<clock, config, memory, trades, open>>
      /\ UNCHANGED provider

\* The trades arrive, as they stood at some moment since; none, when every
\* method of the repository failed.  Whatever is kept by now is replaced.
DailyLoaded(c) ==
  /\ call[c].phase = "loading"
  /\ \E n \in {0} \cup call[c].since..Len(trades) :
       LET r == DailyLossCheck(config, calculate_daily_metrics(
                  config, SubSeq(trades, 1, n), call[c].sym, call[c].mark, call[c].at))
       IN  /\ Remembers(r)
           /\ call' = [call EXCEPT ![c] =
                IF Allowed(r.answer) THEN Placing(call[c].sym, FALSE) ELSE Idle]
  /\ UNCHANGED <<clock, config, provider, trades, open>>

AskMaxDrawdown(c) == \E s \in config.symbols, mark \in Marks :
  LET r == MaxDrawdownCheck(config, memory, trades, s, mark, clock)
  IN  /\ Asks(c, "max_drawdown") /\ Remembers(r) /\ Answered(c, s, FALSE, r.answer)
      /\ UNCHANGED provider

AskLossStreak(c) == \E s \in config.symbols :
  /\ Asks(c, "loss_streak")
  /\ Answered(c, s, FALSE, AdvancedLossStreakCheck(config, trades, s, clock))
  /\ UNCHANGED <<memory, provider>>

AskCorrelation(c) == \E s \in config.symbols, closing \in BOOLEAN :
  /\ Asks(c, "correlation")
  /\ Answered(c, s, closing, CorrelationCheck(config, open, s, closing, 1))
  /\ UNCHANGED <<memory, provider>>

AskSpreadCap(c) ==
  \E s \in config.symbols, closing, emergency \in BOOLEAN, quoted \in Spreads \cup {Nothing},
     ticker \in [spread : Spreads, mid : {0, 100}] :
  /\ Asks(c, "spread_cap")
  /\ Answered(c, s, closing, SpreadCapCheck(config, closing, emergency, quoted, ticker))
  /\ UNCHANGED <<memory, provider>>

\* The order is filled and the trade recorded.
Recorded(c) == \E t \in config.trades :
  LET s == call[c].sym
  IN  /\ call[c].phase = "placing" /\ Len(trades) < MaxTrades
      /\ trades' = Append(trades, [sym |-> s, at |-> clock, pnl |-> t.pnl,
                                   cost |-> t.cost, fee |-> t.fee])
      /\ open' = [open EXCEPT ![s] = IF call[c].closing THEN 0 ELSE @ + 1]
      /\ call' = [call EXCEPT ![c] = Idle]
      /\ UNCHANGED <<clock, config, memory, provider>>

\* The order comes to nothing, or the trader is cancelled while it waits.
Dropped(c) ==
  /\ call[c] # Idle
  /\ call' = [call EXCEPT ![c] = Idle]
  /\ UNCHANGED <<clock, config, memory, provider, trades, open>>

\* reset_progressive_counter(), reset_cache() and reset_daily_peak().
Reset ==
  /\ memory # Fresh(config)
  /\ \/ /\ config.gate \in {"cooldown", "max_drawdown"}
        /\ \E s \in Symbols : memory' = [memory EXCEPT ![s] = Fresh(config)[s]]
     \/ config.gate = "daily_loss" /\ memory' = Fresh(config)
  /\ UNCHANGED <<clock, config, provider, trades, open, call>>

Tick ==
  /\ clock < MaxClock
  /\ clock' = clock + 1
  /\ UNCHANGED <<config, memory, provider, trades, open, call>>

Next ==
  \/ \E c \in Callers :
       \/ AskManager(c) \/ AskCooldown(c) \/ AskDailyLoss(c) \/ DailyLoaded(c)
       \/ AskMaxDrawdown(c) \/ AskLossStreak(c) \/ AskCorrelation(c) \/ AskSpreadCap(c)
       \/ Recorded(c) \/ Dropped(c)
  \/ Reset \/ Tick

Spec == Init /\ [][Next]_vars
-----------------------------------------------------------------------------
Others == Cardinality(Callers) - 1
PlacingSymbol(s) == \E c \in Callers : call[c].phase = "placing" /\ call[c].sym = s

(* The manager counts what is recorded, not what is on its way: with n     *)
(* traders a day's budget is passed by at most the n - 1 orders that were  *)
(* let through beside the last one, never by more.                         *)
BudgetsBounded ==
  config.gate = "manager" =>
    \A s \in Symbols :
      /\ config.orders > 0 /\ "count_orders_last_minutes" \in config.repo =>
           count_orders_last(trades, s, clock, Day) <= config.orders + Others
      /\ config.turnover > 0 /\ "daily_turnover_quote" \in config.repo =>
           daily_turnover_quote(trades, s, clock)
             <= config.turnover - 1 + Cardinality(Callers) * Max({t.cost : t \in config.trades})

(* A symbol stopped for its losing streak is stopped for good: only a      *)
(* trade could end the streak, and closing sales are refused like entries. *)
StreakIsFinal ==
  [][\A s \in Symbols :
       /\ config.gate = "manager" /\ config.loss_streak > 0 /\ "get_loss_streak" \in config.repo
       /\ get_loss_streak(trades, s) >= config.loss_streak
       /\ ~PlacingSymbol(s)
       => Indices(trades', s) = Indices(trades, s) /\ ~PlacingSymbol(s)']_vars

(* However often it was asked too early, the cooldown rule refuses no      *)
(* entry later than the longest cooldown after the last trade, and lets    *)
(* none pass before the shortest: the progressive limit cuts a base        *)
(* cooldown that is longer.  A base of zero switches the rule off.         *)
CooldownWindow ==
  config.gate = "cooldown" /\ config.base > 0 =>
    \A s \in {x \in Symbols : Indices(trades, x) # {}} :
      LET last == trades[Max(Indices(trades, s))]
          base == get_cooldown_for_outcome(config, last.pnl)
          ends == {base} \cup (IF config.progressive THEN {config.progressive_max} ELSE {})
          age == clock - last.at
          blocked == ~Allowed(CooldownCheck(config, memory, trades, s, FALSE, clock).answer)
      IN  /\ blocked => age < Max(ends \cup {config.same_symbol})
          /\ ~blocked => age >= Max({Min(ends), config.same_symbol})

(* The daily loss rule refuses an entry at once only if, in this period,   *)
(* some symbol had lost the limit: yesterday's loss is over with its       *)
(* period, though trades arrive late and checks of two periods overlap.    *)
RefusalIsEarned ==
  config.gate = "daily_loss" /\ ~config.unrealized /\ config.limit > 0
    /\ kept(config, memory, clock)
    /\ ~Allowed(DailyLossCheck(config, memory).answer)
  => \E s \in config.symbols, n \in 0..Len(trades) :
       realized_pnl(config, SubSeq(trades, 1, n), s, clock) <= -config.limit

(* "Blocks trading when daily realized PnL reaches configured threshold"   *)
(* (daily_loss.py:4): no entry once a symbol's trades of the period come   *)
(* to the limit.                                                           *)
DailyLimitStopsEntries ==
  [][\A c \in Callers :
       /\ config.gate = "daily_loss" /\ config.limit > 0
       /\ call[c].phase # "placing" /\ call'[c].phase = "placing" /\ ~call'[c].closing
       => realized_pnl(config, trades, call'[c].sym, clock) > -config.limit]_vars

(* Symbols that exclude one another are held together only by traders that *)
(* asked at the same time; a symbol obeys the first of its groups alone.   *)
ExclusionBounded ==
  config.gate = "correlation" /\ config.block_on_violation =>
    \A i \in DOMAIN config.groups :
      LET g == config.groups[i]
          held == {s \in g.symbols : open[s] > 0 /\ find_group(config, s) = g}
      IN  Cardinality(held) <= (IF g.anti THEN 1 ELSE max_positions(g)) + Others

(* README.md (365-369) has the daily limit stop all trading: no entry      *)
(* once a symbol has lost more than that today.                            *)
LossStopsEntries ==
  [][\A c \in Callers :
       /\ config.gate = "manager" /\ config.daily_loss > 0
       /\ call[c] = Idle /\ call'[c] # Idle /\ ~call'[c].closing
       => get_daily_pnl(trades, call'[c].sym, clock) >= -config.daily_loss]_vars
=============================================================================
