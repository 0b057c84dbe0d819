------------------------------ MODULE RiskProofs ------------------------------
(***************************************************************************)
(* What the gates of the risk code let through, for any traders, symbols,  *)
(* settings, spreads and marks.                                            *)
(***************************************************************************)
EXTENDS Risk, Sums

Trade == [sym : Symbols, at : Int, pnl : Int, cost : Nat, fee : Nat]

CallOK(r) ==
  \/ r = Idle
  \/ \E s \in Symbols, closing \in BOOLEAN : r = Placing(s, closing)
  \/ r.phase = "loading" /\ r.sym \in Symbols /\ config.gate = "daily_loss"

Typed ==
  /\ clock \in Nat /\ clock >= Day
  /\ config \in Settings
  /\ trades \in Seq(Trade) /\ \A i \in DOMAIN trades : trades[i].at <= clock
  /\ \A i, j \in DOMAIN trades : i <= j => trades[i].at <= trades[j].at
  /\ open \in [Symbols -> Nat]
  /\ call = [c \in Callers |-> call[c]] /\ \A c \in Callers : CallOK(call[c])
-----------------------------------------------------------------------------
(* Days.                                                                   *)
LEMMA DayIs ==
  ASSUME NEW t \in Int
  PROVE  Today(t) \in Int /\ Day * Today(t) <= t /\ t < Day * Today(t) + Day
<1>1. Day \in Nat \ {0}
  BY DayOK
<1>2. t \div Day \in Int
  BY <1>1
<1>3. Day * (t \div Day) <= t
  BY <1>1
<1>4. t < Day * (t \div Day) + Day
  BY <1>1
<1>. QED
  BY <1>2, <1>3, <1>4 DEF Today

LEMMA DaysApart ==
  ASSUME NEW a \in Int, NEW b \in Int, b < a
  PROVE  Day * b \in Int /\ Day * a \in Int /\ Day * b + Day <= Day * a
<1>1. Day \in Nat \ {0}
  BY DayOK
<1>2. PICK n \in Nat : a = b + 1 + n
  <2>1. a = b + 1 + (a - b - 1) /\ a - b - 1 \in Nat
    OBVIOUS
  <2>. QED
    BY <2>1
<1>3. Day * n \in Nat
  BY <1>1
<1>4. Day * (b + 1 + n) = Day * b + Day + Day * n
  BY <1>1
<1>5. Day * b \in Int /\ Day * a \in Int
  BY <1>1
<1>. QED
  BY <1>1, <1>2, <1>3, <1>4, <1>5

LEMMA DaysFollow ==
  ASSUME NEW t \in Int, NEW u \in Int, t <= u
  PROVE  Today(t) <= Today(u)
<1>. DEFINE a == Today(t)
            b == Today(u)
<1>1. a \in Int /\ b \in Int /\ Day * a <= t /\ u < Day * b + Day /\ Day \in Nat \ {0}
  BY DayIs, DayOK
<1>2. SUFFICES ASSUME b < a PROVE FALSE
  BY <1>1
<1>. HIDE DEF a, b
<1>3. Day * b \in Int /\ Day * a \in Int /\ Day * b + Day <= Day * a
  BY <1>1, <1>2, DaysApart
<1>. QED
  BY <1>1, <1>3

LEMMA PeriodsFollow ==
  ASSUME NEW K, K.reset_hour \in 0..(Day - 1), NEW t \in Int, t >= Day
  PROVE  /\ period_start(K, t) \in Nat
         /\ period_start(K, t) <= period_start(K, t + 1)
<1>. DEFINE a == Today(t)
            b == Today(t + 1)
<1>1. /\ a \in Int /\ b \in Int /\ Day * a <= t /\ t < Day * a + Day /\ t + 1 < Day * b + Day
      /\ Day * b <= t + 1 /\ a <= b /\ Day \in Nat \ {0}
  BY DayIs, DaysFollow, DayOK
<1>2. period_start(K, t) = IF t >= Day * a + K.reset_hour THEN Day * a + K.reset_hour
                           ELSE Day * a + K.reset_hour - Day
  BY <1>1 DEF period_start
<1>3. period_start(K, t + 1) = IF t + 1 >= Day * b + K.reset_hour THEN Day * b + K.reset_hour
                               ELSE Day * b + K.reset_hour - Day
  BY <1>1 DEF period_start
<1>. HIDE DEF a, b
<1>4. Day * a \in Int /\ Day * b \in Int
  BY <1>1
<1>5. Day * a >= Day
  <2>1. CASE a >= 1
    <3>1. Day * 0 = 0
      BY <1>1
    <3>. QED
      BY <1>1, <2>1, <3>1, DaysApart
  <2>2. CASE a < 1
    <3>1. Day * 1 = Day
      BY <1>1
    <3>. QED
      BY <1>1, <2>2, <3>1, DaysApart
  <2>. QED
    BY <1>1, <2>1, <2>2
<1>6. b = a \/ Day * b >= Day * a + Day
  BY <1>1, DaysApart
<1>. HIDE DEF period_start
<1>7. period_start(K, t) \in Nat
  BY <1>1, <1>2, <1>4, <1>5
<1>. QED
  BY <1>1, <1>2, <1>3, <1>4, <1>6, <1>7
-----------------------------------------------------------------------------
(* Trades and calls.                                                       *)

\* The trade that Recorded() appends.
Made(c, t) == [sym |-> call[c].sym, at |-> clock, pnl |-> t.pnl, cost |-> t.cost, fee |-> t.fee]

LEMMA Appended ==
  ASSUME NEW old \in Seq(Trade), NEW t \in Trade, NEW new, new = Append(old, t)
  PROVE  /\ new \in Seq(Trade) /\ DOMAIN new = DOMAIN old \cup {Len(old) + 1}
         /\ Len(old) + 1 \notin DOMAIN old /\ DOMAIN old \subseteq Nat
         /\ IsFiniteSet(DOMAIN old)
         /\ \A i \in DOMAIN old : new[i] = old[i]
         /\ new[Len(old) + 1] = t
<1>1. /\ new \in Seq(Trade) /\ DOMAIN new = DOMAIN old \cup {Len(old) + 1}
      /\ Len(old) + 1 \notin DOMAIN old /\ DOMAIN old \subseteq Nat
      /\ \A i \in DOMAIN old : new[i] = old[i]
      /\ new[Len(old) + 1] = t
  OBVIOUS
<1>2. IsFiniteSet(DOMAIN old)
  <2>1. DOMAIN old = 1..Len(old) /\ Len(old) \in Int
    OBVIOUS
  <2>. QED
    BY <2>1, FS_Interval
<1>. QED
  BY <1>1, <1>2

LEMMA IndicesAppended ==
  ASSUME NEW old \in Seq(Trade), NEW t \in Trade, NEW s
  PROVE  /\ Indices(Append(old, t), s) =
              Indices(old, s) \cup (IF t.sym = s THEN {Len(old) + 1} ELSE {})
         /\ Len(old) + 1 \notin Indices(old, s)
BY Appended DEF Indices

LEMMA IndicesAre ==
  ASSUME NEW old \in Seq(Trade), NEW s
  PROVE  /\ IsFiniteSet(Indices(old, s))
         /\ \A i \in Indices(old, s) : old[i] \in Trade /\ i \in DOMAIN old
<1>1. IsFiniteSet(DOMAIN old)
  <2>1. DOMAIN old = 1..Len(old) /\ Len(old) \in Int
    OBVIOUS
  <2>. QED
    BY <2>1, FS_Interval
<1>. QED
  BY <1>1, FS_Subset DEF Indices

LEMMA MadeIs ==
  ASSUME Typed, NEW c \in Callers, call[c].phase = "placing", NEW t \in config.trades
  PROVE  /\ Made(c, t) \in Trade /\ Made(c, t).at = clock /\ Made(c, t).sym = call[c].sym
         /\ Made(c, t).cost = t.cost /\ call[c].sym \in Symbols
<1>1. PICK s \in Symbols, closing \in BOOLEAN : call[c] = Placing(s, closing)
  <2>1. CallOK(call[c]) /\ call[c] # Idle
    BY DEF Typed, Idle
  <2>. QED
    BY <2>1 DEF CallOK
<1>2. t.pnl \in Int /\ t.cost \in Nat /\ t.fee \in Nat /\ clock \in Int
  BY SettingsOK DEF Typed
<1>3. call[c].sym \in Symbols
  BY <1>1 DEF Placing
<1>. QED
  BY <1>2, <1>3 DEF Made, Trade

LEMMA RecordedIs ==
  ASSUME Typed, NEW c \in Callers, Recorded(c)
  PROVE  \E t \in config.trades :
           /\ call[c].phase = "placing" /\ trades' = Append(trades, Made(c, t))
           /\ open' = [open EXCEPT ![call[c].sym] = IF call[c].closing THEN 0 ELSE @ + 1]
           /\ call' = [call EXCEPT ![c] = Idle]
           /\ UNCHANGED <<clock, config, memory, provider>>
BY Zenon DEF Recorded, Made

\* What every ask leaves, and what it may do to the calls.
Asked(c) ==
  /\ UNCHANGED <<clock, config, trades, open>> /\ call[c] = Idle
  /\ \/ call' = call
     \/ \E s \in config.symbols, closing \in BOOLEAN : call' = [call EXCEPT ![c] = Placing(s, closing)]

\* What the daily loss rule may do to them, before and after it waits.
Waits(c) ==
  /\ UNCHANGED <<clock, config, trades, open>> /\ config.gate = "daily_loss"
  /\ call' = call \/ \E r : CallOK(r) /\ call' = [call EXCEPT ![c] = r]

LEMMA AsksAre ==
  ASSUME NEW c \in Callers
  PROVE  /\ AskManager(c) => Asked(c) /\ config.gate = "manager"
         /\ AskCooldown(c) => Asked(c) /\ config.gate = "cooldown"
         /\ AskDailyLoss(c) /\ Typed => Waits(c)
         /\ DailyLoaded(c) /\ Typed => Waits(c)
         /\ AskMaxDrawdown(c) => Asked(c) /\ config.gate = "max_drawdown"
         /\ AskLossStreak(c) => Asked(c) /\ config.gate = "loss_streak"
         /\ AskCorrelation(c) => Asked(c) /\ config.gate = "correlation"
         /\ AskSpreadCap(c) => Asked(c) /\ config.gate = "spread_cap"
<1>1. ASSUME NEW s \in config.symbols, NEW closing \in BOOLEAN, NEW answer, NEW gate,
             Answered(c, s, closing, answer), Asks(c, gate)
      PROVE  Asked(c) /\ config.gate = gate
  BY <1>1 DEF Answered, Asks, Asked
<1>2. AskManager(c) => Asked(c) /\ config.gate = "manager"
  BY <1>1 DEF AskManager
<1>3. AskCooldown(c) => Asked(c) /\ config.gate = "cooldown"
  BY <1>1 DEF AskCooldown
<1>4. ASSUME AskDailyLoss(c), Typed PROVE Waits(c)
  <2>1. PICK s \in config.symbols, closing \in BOOLEAN, mark \in Marks :
          /\ Asks(c, "daily_loss")
          /\ UNCHANGED <<clock, config, trades, open>>
          /\ \/ \E answer : Answered(c, s, closing, answer)
             \/ call' = [call EXCEPT ![c] = Loading(s, Marked(config, mark, 0))]
    BY <1>4 DEF AskDailyLoss, Answered
  <2>2. s \in Symbols
    BY <1>4, SettingsOK DEF Typed
  <2>3. CASE \E answer : Answered(c, s, closing, answer)
    <3>1. CallOK(Placing(s, closing))
      BY <2>2 DEF CallOK
    <3>. QED
      BY <2>1, <2>3, <3>1 DEF Answered, Asks, Waits
  <2>4. CASE call' = [call EXCEPT ![c] = Loading(s, Marked(config, mark, 0))]
    <3>1. CallOK(Loading(s, Marked(config, mark, 0)))
      BY <2>1, <2>2 DEF CallOK, Loading, Asks
    <3>. QED
      BY <2>1, <2>4, <3>1 DEF Asks, Waits
  <2>. QED
    BY <2>1, <2>3, <2>4
<1>9. ASSUME DailyLoaded(c), Typed PROVE Waits(c)
  <2>1. /\ call[c].phase = "loading" /\ UNCHANGED <<clock, config, trades, open>>
        /\ \E r \in {Idle, Placing(call[c].sym, FALSE)} : call' = [call EXCEPT ![c] = r]
    BY <1>9 DEF DailyLoaded
  <2>2. call[c].sym \in Symbols /\ config.gate = "daily_loss"
    BY <1>9, <2>1 DEF Typed, CallOK, Idle, Placing
  <2>3. CallOK(Idle) /\ CallOK(Placing(call[c].sym, FALSE))
    BY <2>2 DEF CallOK
  <2>. QED
    BY <2>1, <2>2, <2>3 DEF Waits
<1>5. AskMaxDrawdown(c) => Asked(c) /\ config.gate = "max_drawdown"
  BY <1>1 DEF AskMaxDrawdown
<1>6. AskLossStreak(c) => Asked(c) /\ config.gate = "loss_streak"
  BY <1>1 DEF AskLossStreak
<1>7. AskCorrelation(c) => Asked(c) /\ config.gate = "correlation"
  BY <1>1 DEF AskCorrelation
<1>8. AskSpreadCap(c) => Asked(c) /\ config.gate = "spread_cap"
  BY <1>1 DEF AskSpreadCap
<1>. QED
  BY <1>2, <1>3, <1>4, <1>5, <1>6, <1>7, <1>8, <1>9

\* A step of Next is one of the gate's own.
LEMMA GateAsks ==
  ASSUME Typed, Next
  PROVE  \/ \E c \in Callers :
              \/ config.gate = "manager" /\ AskManager(c)
              \/ config.gate = "cooldown" /\ AskCooldown(c)
              \/ config.gate = "daily_loss" /\ (AskDailyLoss(c) \/ DailyLoaded(c))
              \/ config.gate = "max_drawdown" /\ AskMaxDrawdown(c)
              \/ config.gate = "loss_streak" /\ AskLossStreak(c)
              \/ config.gate = "correlation" /\ AskCorrelation(c)
              \/ config.gate = "spread_cap" /\ AskSpreadCap(c)
              \/ Recorded(c) \/ Dropped(c)
         \/ Reset \/ Tick
BY AsksAre DEF Next, Waits

\* A call that comes to nothing where nobody waits was placing an order.
LEMMA DroppedIs ==
  ASSUME Typed, NEW c \in Callers, Dropped(c)
  PROVE  /\ config.gate # "daily_loss" => call[c].phase = "placing"
         /\ call' = [call EXCEPT ![c] = Idle] /\ CallOK(Idle)
         /\ UNCHANGED <<clock, config, memory, provider, trades, open>>
BY DEF Typed, CallOK, Dropped, Placing

(* The settings of a run are never changed. *)
LEMMA SettingsKept ==
  ASSUME [Next]_vars
  PROVE  config' = config
<1>1. \A c \in Callers : Asked(c) => config' = config
  BY DEF Asked
<1>2. \A c \in Callers : Recorded(c) \/ Dropped(c) => config' = config
  BY DEF Recorded, Dropped
<1>4. \A c \in Callers : AskDailyLoss(c) \/ DailyLoaded(c) => config' = config
  BY DEF AskDailyLoss, DailyLoaded, Answered
<1>3. Reset \/ Tick \/ UNCHANGED vars => config' = config
  BY DEF Reset, Tick, vars
<1>. QED
  BY <1>1, <1>2, <1>3, <1>4, AsksAre DEF Next

LEMMA InitTyped ==
  ASSUME Init
  PROVE  Typed
<1>1. Day \in Nat /\ Day >= Day
  BY DayOK
<1>2. \A c \in Callers : CallOK(call[c])
  BY DEF Init, CallOK
<1>3. trades \in Seq(Trade) /\ DOMAIN trades = {}
  BY DEF Init
<1>. QED
  BY <1>1, <1>2, <1>3 DEF Init, Typed

LEMMA TypedInv ==
  ASSUME Typed, [Next]_vars
  PROVE  Typed'
<1>1. ASSUME NEW c \in Callers, Asked(c) PROVE Typed'
  <2>1. /\ call' = [d \in Callers |-> call'[d]]
        /\ \A d \in Callers : CallOK(call'[d])
    <3>1. CASE call' = call
      BY <3>1 DEF Typed
    <3>2. ASSUME NEW s \in config.symbols, NEW closing \in BOOLEAN,
                 call' = [call EXCEPT ![c] = Placing(s, closing)]
          PROVE  /\ call' = [d \in Callers |-> call'[d]]
                 /\ \A d \in Callers : CallOK(call'[d])
      <4>1. s \in Symbols
        BY SettingsOK DEF Typed
      <4>2. CallOK(Placing(s, closing))
        BY <4>1 DEF CallOK
      <4>. QED
        BY <3>2, <4>2 DEF Typed
    <3>. QED
      BY <1>1, <3>1, <3>2 DEF Asked
  <2>2. \A d \in Callers : CallOK(call[d])'
    BY <1>1, <2>1 DEF Asked, CallOK
  <2>. QED
    BY <1>1, <2>1, <2>2 DEF Typed, Asked
<1>7. ASSUME NEW c \in Callers, Waits(c) PROVE Typed'
  <2>1. /\ call' = [d \in Callers |-> call'[d]]
        /\ \A d \in Callers : CallOK(call'[d])
    <3>1. CASE call' = call
      BY <3>1 DEF Typed
    <3>2. ASSUME NEW r, CallOK(r), call' = [call EXCEPT ![c] = r]
          PROVE  /\ call' = [d \in Callers |-> call'[d]]
                 /\ \A d \in Callers : CallOK(call'[d])
      <4>1. call = [d \in Callers |-> call[d]] /\ \A d \in Callers : CallOK(call[d])
        BY DEF Typed
      <4>2. \A d \in Callers : call'[d] = IF d = c THEN r ELSE call[d]
        BY <3>2, <4>1
      <4>3. \A d \in Callers : CallOK(call'[d])
        BY <3>2, <4>1, <4>2
      <4>. QED
        BY <3>2, <4>1, <4>3
    <3>. QED
      BY <1>7, <3>1, <3>2 DEF Waits
  <2>2. \A d \in Callers : CallOK(call[d])'
    BY <1>7, <2>1 DEF Waits, CallOK
  <2>. QED
    BY <1>7, <2>1, <2>2 DEF Typed, Waits
<1>2. ASSUME NEW c \in Callers, Recorded(c) PROVE Typed'
  <2>1. PICK t \in config.trades :
           /\ call[c].phase = "placing" /\ trades' = Append(trades, Made(c, t))
           /\ open' = [open EXCEPT ![call[c].sym] = IF call[c].closing THEN 0 ELSE @ + 1]
           /\ call' = [call EXCEPT ![c] = Idle]
           /\ UNCHANGED <<clock, config, memory, provider>>
    BY <1>2, RecordedIs
  <2>2. Made(c, t) \in Trade /\ Made(c, t).at = clock /\ call[c].sym \in Symbols
    BY <2>1, MadeIs
  <2>3. trades \in Seq(Trade)
    BY DEF Typed
  <2>4. trades' \in Seq(Trade) /\ \A i \in DOMAIN trades' : trades'[i].at <= clock'
    BY <2>1, <2>2, <2>3, Appended DEF Typed
  <2>7. \A i, j \in DOMAIN trades' : i <= j => trades'[i].at <= trades'[j].at
    <3>. DEFINE t1 == Made(c, t)
    <3>1. /\ trades' = Append(trades, t1) /\ t1 \in Trade /\ t1.at = clock
          /\ \A i \in DOMAIN trades : trades[i].at <= clock
          /\ \A i, j \in DOMAIN trades : i <= j => trades[i].at <= trades[j].at
      BY <2>1, <2>2 DEF Typed
    <3>. HIDE DEF t1
    <3>2. /\ DOMAIN trades' = DOMAIN trades \cup {Len(trades) + 1}
          /\ trades'[Len(trades) + 1] = t1
          /\ \A i \in DOMAIN trades : trades'[i] = trades[i]
          /\ \A i \in DOMAIN trades : i \in Nat /\ i < Len(trades) + 1
      BY <2>3, <3>1, Appended
    <3>3. trades'[Len(trades) + 1].at = clock /\ clock \in Int
      BY <3>1, <3>2 DEF Typed
    <3>. SUFFICES ASSUME NEW i \in DOMAIN trades', NEW j \in DOMAIN trades', i <= j
                  PROVE  trades'[i].at <= trades'[j].at
      OBVIOUS
    <3>4. CASE j \in DOMAIN trades
      <4>1. i \in DOMAIN trades
        BY <2>3, <3>2, <3>4
      <4>. QED
        BY <3>1, <3>2, <3>4, <4>1
    <3>5. CASE j = Len(trades) + 1 /\ i \in DOMAIN trades
      BY <3>1, <3>2, <3>3, <3>5
    <3>6. CASE j = Len(trades) + 1 /\ i = Len(trades) + 1
      BY <3>3, <3>6
    <3>. QED
      BY <3>2, <3>4, <3>5, <3>6
  <2>5. open' \in [Symbols -> Nat]
    BY <2>1, <2>2 DEF Typed
  <2>6. call' = [d \in Callers |-> call'[d]] /\ \A d \in Callers : CallOK(call'[d])
    BY <2>1 DEF Typed, CallOK
  <2>8. \A d \in Callers : CallOK(call[d])'
    BY <2>1, <2>6 DEF CallOK
  <2>. QED
    BY <2>1, <2>4, <2>5, <2>6, <2>7, <2>8 DEF Typed
<1>3. ASSUME NEW c \in Callers, Dropped(c) PROVE Typed'
  <2>1. call' = [d \in Callers |-> call'[d]] /\ \A d \in Callers : CallOK(call'[d])
    BY <1>3, DroppedIs DEF Typed
  <2>2. \A d \in Callers : CallOK(call[d])'
    BY <1>3, <2>1, DroppedIs DEF CallOK
  <2>. QED
    BY <1>3, <2>1, <2>2, DroppedIs DEF Typed
<1>4. CASE Reset
  <2>1. UNCHANGED <<clock, config, provider, trades, open, call>>
    BY <1>4 DEF Reset
  <2>2. \A d \in Callers : CallOK(call[d])'
    BY <2>1 DEF Typed, CallOK
  <2>. QED
    BY <2>1, <2>2 DEF Typed
<1>5. CASE Tick
  <2>1. \A i \in DOMAIN trades : trades[i].at \in Int
    <3>1. \A i \in DOMAIN trades : trades[i] \in Trade
      BY DEF Typed
    <3>. QED
      BY <3>1 DEF Trade
  <2>2. clock' \in Nat /\ clock' >= Day /\ \A i \in DOMAIN trades : trades[i].at <= clock'
    BY <1>5, <2>1, DayOK DEF Tick, Typed
  <2>3. \A d \in Callers : CallOK(call[d])'
    BY <1>5 DEF Tick, Typed, CallOK
  <2>. QED
    BY <1>5, <2>2, <2>3 DEF Tick, Typed
<1>6. CASE UNCHANGED vars
  <2>1. \A d \in Callers : CallOK(call[d])'
    BY <1>6 DEF vars, Typed, CallOK
  <2>. QED
    BY <1>6, <2>1 DEF vars, Typed
<1>. QED
  BY <1>1, <1>2, <1>3, <1>4, <1>5, <1>6, <1>7, AsksAre DEF Next
-----------------------------------------------------------------------------
(* The manager.                                                            *)
LEMMA ManagerBlocks ==
  ASSUME NEW L, NEW repo, NEW tell, NEW done, NEW s, NEW now
  PROVE  Allowed(check_trade(L, repo, tell, done, s, now)) <=>
           blocking_rules(L, repo, done, s, now) = {}
BY DEF check_trade, Allowed, Answer

LEMMA RulesBlock ==
  ASSUME NEW L, NEW repo, NEW done, NEW s, NEW now, blocking_rules(L, repo, done, s, now) = {}
  PROVE  /\ "get_loss_streak" \in repo => ~LossStreakRule(L, done, s, now)
         /\ "count_orders_last_minutes" \in repo => ~BudgetOrdersRule(L, done, s, now)
         /\ "daily_turnover_quote" \in repo => ~BudgetTurnoverRule(L, done, s, now)
<1>1. \A i \in DOMAIN critical_rules : ~Blocks(critical_rules[i], L, repo, done, s, now)
  BY DEF blocking_rules
<1>2. /\ 1 \in DOMAIN critical_rules /\ critical_rules[1] = "loss_streak"
      /\ 4 \in DOMAIN critical_rules /\ critical_rules[4] = "budget_orders"
      /\ 5 \in DOMAIN critical_rules /\ critical_rules[5] = "budget_turnover"
  BY DEF critical_rules
<1>3. /\ ~Blocks("loss_streak", L, repo, done, s, now)
      /\ ~Blocks("budget_orders", L, repo, done, s, now)
      /\ ~Blocks("budget_turnover", L, repo, done, s, now)
  BY <1>1, <1>2
<1>. QED
  BY <1>3 DEF Blocks

\* An order that the manager lets through was asked for within the limits.
LEMMA ManagerAsked ==
  ASSUME Typed, NEW c \in Callers, AskManager(c)
  PROVE  \/ call' = call
         \/ \E s \in config.symbols :
              /\ call' = [call EXCEPT ![c] = Placing(s, FALSE)]
              /\ "get_loss_streak" \in config.repo => ~LossStreakRule(config, trades, s, clock)
              /\ "count_orders_last_minutes" \in config.repo => ~BudgetOrdersRule(config, trades, s, clock)
              /\ "daily_turnover_quote" \in config.repo => ~BudgetTurnoverRule(config, trades, s, clock)
<1>1. \E s \in config.symbols : \E tell :
        Answered(c, s, FALSE, check_trade(config, config.repo, tell, trades, s, clock))
  BY Zenon DEF AskManager
<1>. PICK s \in config.symbols :
        \E tell : Answered(c, s, FALSE, check_trade(config, config.repo, tell, trades, s, clock))
  BY <1>1
<1>. PICK tell :
        Answered(c, s, FALSE, check_trade(config, config.repo, tell, trades, s, clock))
  OBVIOUS
<1>2. CASE Allowed(check_trade(config, config.repo, tell, trades, s, clock))
  BY <1>1, <1>2, ManagerBlocks, RulesBlock DEF Answered
<1>3. CASE ~Allowed(check_trade(config, config.repo, tell, trades, s, clock))
  BY <1>1, <1>3 DEF Answered
<1>. QED
  BY <1>2, <1>3

(* A symbol stopped by loss_streak_limit stays so: nothing of it is        *)
(* traded any more, for whatever happens to the others (manager.py:244-266,*)
(* 539-575).                                                               *)
THEOREM StreakEndsNever == Spec => StreakIsFinal
<1>1. Init => Typed
  BY InitTyped
<1>2. Typed /\ [Next]_vars => Typed'
  BY TypedInv
<1>3. Typed /\ [Next]_vars =>
        [\A s \in Symbols :
           /\ config.gate = "manager" /\ config.loss_streak > 0 /\ "get_loss_streak" \in config.repo
           /\ get_loss_streak(trades, s) >= config.loss_streak
           /\ ~PlacingSymbol(s)
           => Indices(trades', s) = Indices(trades, s) /\ ~PlacingSymbol(s)']_vars
  <2>. SUFFICES ASSUME Typed, Next, NEW s \in Symbols,
                       config.gate = "manager", config.loss_streak > 0,
                       "get_loss_streak" \in config.repo,
                       get_loss_streak(trades, s) >= config.loss_streak,
                       ~PlacingSymbol(s)
                PROVE  Indices(trades', s) = Indices(trades, s) /\ ~PlacingSymbol(s)'
    OBVIOUS
  <2>1. ASSUME NEW c \in Callers, AskManager(c)
        PROVE  Indices(trades', s) = Indices(trades, s) /\ ~PlacingSymbol(s)'
    <3>1. trades' = trades
      BY <2>1, AsksAre DEF Asked
    <3>2. CASE call' = call
      BY <3>1, <3>2 DEF PlacingSymbol
    <3>3. ASSUME NEW r \in config.symbols, call' = [call EXCEPT ![c] = Placing(r, FALSE)],
                 ~LossStreakRule(config, trades, r, clock)
          PROVE  ~PlacingSymbol(s)'
      <4>1. r # s
        BY <3>3 DEF LossStreakRule
      <4>. QED
        BY <3>3, <4>1 DEF PlacingSymbol, Placing, Typed
    <3>. QED
      BY <2>1, <3>1, <3>2, <3>3, ManagerAsked
  <2>2. ASSUME NEW c \in Callers, Recorded(c)
        PROVE  Indices(trades', s) = Indices(trades, s) /\ ~PlacingSymbol(s)'
    <3>1. PICK t \in config.trades :
             /\ call[c].phase = "placing" /\ trades' = Append(trades, Made(c, t))
             /\ call' = [call EXCEPT ![c] = Idle]
      BY <2>2, RecordedIs
    <3>2. Made(c, t) \in Trade /\ Made(c, t).sym # s
      BY <3>1, MadeIs DEF PlacingSymbol
    <3>3. Indices(trades', s) = Indices(trades, s)
      <4>. DEFINE t1 == Made(c, t)
      <4>1. trades \in Seq(Trade) /\ trades' = Append(trades, t1) /\ t1 \in Trade /\ t1.sym # s
        BY <3>1, <3>2 DEF Typed
      <4>. HIDE DEF t1
      <4>2. Indices(trades', s) = Indices(trades, s) \cup (IF t1.sym = s THEN {Len(trades) + 1} ELSE {})
        BY <4>1, IndicesAppended
      <4>. QED
        BY <4>1, <4>2
    <3>4. call = [d \in Callers |-> call[d]]
      BY DEF Typed
    <3>5. \A d \in Callers : call'[d] = IF d = c THEN Idle ELSE call[d]
      BY <3>1, <3>4
    <3>. QED
      BY <3>3, <3>5 DEF PlacingSymbol, Idle
  <2>3. ASSUME NEW c \in Callers, Dropped(c)
        PROVE  Indices(trades', s) = Indices(trades, s) /\ ~PlacingSymbol(s)'
    BY <2>3 DEF Dropped, PlacingSymbol, Typed, Idle
  <2>4. CASE Reset
    <3>1. trades' = trades /\ call' = call
      BY <2>4 DEF Reset
    <3>. QED
      BY <3>1 DEF PlacingSymbol
  <2>5. CASE Tick
    BY <2>5 DEF Tick, PlacingSymbol
  <2>. QED
    BY <2>1, <2>2, <2>3, <2>4, <2>5, AsksAre, GateAsks DEF Next
<1>. QED
  BY <1>1, <1>2, <1>3, PTL DEF Spec, StreakIsFinal
-----------------------------------------------------------------------------
(* The budgets: each trader that is placing an order may still add to what *)
(* is recorded.                                                            *)
Placers(s) == {c \in Callers : call[c].phase = "placing" /\ call[c].sym = s}
Dearest == Max({t.cost : t \in config.trades})
Recent(done, s, now) == {i \in Indices(done, s) : done[i].at > now - Day}
OfToday(done, s, now) == {i \in Indices(done, s) : Today(done[i].at) = Today(now)}

OrdersInv ==
  config.gate = "manager" => \A s \in Symbols :
    config.orders > 0 /\ "count_orders_last_minutes" \in config.repo =>
      Cardinality(Recent(trades, s, clock)) + Cardinality(Placers(s))
        <= config.orders + Others

TurnoverInv ==
  config.gate = "manager" => \A s \in Symbols :
    config.turnover > 0 /\ "daily_turnover_quote" \in config.repo =>
      daily_turnover_quote(trades, s, clock) + Cardinality(Placers(s)) * Dearest
        <= config.turnover - 1 + Cardinality(Callers) * Dearest

LEMMA PlacersAre ==
  ASSUME Typed, NEW s
  PROVE  /\ IsFiniteSet(Placers(s)) /\ Cardinality(Placers(s)) \in Nat
         /\ Cardinality(Callers) \in Nat /\ Others \in Int /\ Others = Cardinality(Callers) - 1
         /\ Cardinality(Placers(s)) <= Cardinality(Callers)
<1>1. IsFiniteSet(Callers) /\ Placers(s) \subseteq Callers
  BY SettingsOK DEF Placers
<1>2. /\ IsFiniteSet(Placers(s)) /\ Cardinality(Placers(s)) <= Cardinality(Callers)
      /\ Cardinality(Placers(s)) \in Nat /\ Cardinality(Callers) \in Nat
  BY <1>1, FS_Subset, FS_CardinalityType
<1>. QED
  BY <1>2 DEF Others

\* A call that begins or ends.
LEMMA PlacersBegin ==
  ASSUME Typed, NEW c \in Callers, NEW r \in Symbols, call[c] = Idle,
         call' = [call EXCEPT ![c] = Placing(r, FALSE)], NEW s
  PROVE  /\ Cardinality(Placers(s)') = Cardinality(Placers(s)) + (IF r = s THEN 1 ELSE 0)
         /\ Cardinality(Placers(s)') <= Cardinality(Callers)
<1>1. call = [d \in Callers |-> call[d]] /\ IsFiniteSet(Placers(s))
  BY PlacersAre DEF Typed
<1>2. \A d \in Callers : call'[d] = IF d = c THEN Placing(r, FALSE) ELSE call[d]
  BY <1>1
<1>3. Placers(s)' = Placers(s) \cup (IF r = s THEN {c} ELSE {}) /\ c \notin Placers(s)
  BY <1>2 DEF Placers, Placing, Idle
<1>4. r = s => Cardinality(Placers(s)') = Cardinality(Placers(s)) + 1
  BY <1>1, <1>3, FS_AddElement
<1>5. r # s => Cardinality(Placers(s)') = Cardinality(Placers(s)) + 0
  <2>1. Cardinality(Placers(s)) \in Nat
    BY PlacersAre
  <2>. QED
    BY <1>3, <2>1
<1>6. Placers(s)' \subseteq Callers /\ IsFiniteSet(Callers)
  BY SettingsOK DEF Placers
<1>. QED
  BY <1>4, <1>5, <1>6, FS_Subset

LEMMA PlacersEnd ==
  ASSUME Typed, NEW c \in Callers, call[c].phase = "placing",
         call' = [call EXCEPT ![c] = Idle], NEW s
  PROVE  Cardinality(Placers(s)') = Cardinality(Placers(s)) - (IF call[c].sym = s THEN 1 ELSE 0)
<1>1. call = [d \in Callers |-> call[d]] /\ IsFiniteSet(Placers(s))
  BY PlacersAre DEF Typed
<1>2. \A d \in Callers : call'[d] = IF d = c THEN Idle ELSE call[d]
  BY <1>1
<1>3. Placers(s)' = Placers(s) \ {c} /\ (c \in Placers(s) <=> call[c].sym = s)
  BY <1>2 DEF Placers, Idle
<1>4. CASE call[c].sym = s
  BY <1>1, <1>3, <1>4, FS_RemoveElement
<1>5. CASE call[c].sym # s
  <2>1. Placers(s)' = Placers(s) /\ Cardinality(Placers(s)) \in Nat
    BY <1>3, <1>5, PlacersAre
  <2>. QED
    BY <1>5, <2>1
<1>. QED
  BY <1>4, <1>5

\* The number of recent orders.
LEMMA CountIs ==
  ASSUME NEW done, NEW s, NEW now
  PROVE  count_orders_last(done, s, now, Day) = Cardinality(Recent(done, s, now))
BY DEF count_orders_last, Recent

LEMMA RecentIs ==
  ASSUME NEW done \in Seq(Trade), NEW s, NEW now
  PROVE  IsFiniteSet(Recent(done, s, now)) /\ Cardinality(Recent(done, s, now)) \in Nat
<1>1. IsFiniteSet(Recent(done, s, now))
  BY IndicesAre, FS_Subset DEF Recent
<1>. QED
  BY <1>1, FS_CardinalityType

LEMMA RecentAppended ==
  ASSUME NEW done \in Seq(Trade), NEW t \in Trade, NEW s, NEW now \in Int, t.at = now
  PROVE  Cardinality(Recent(Append(done, t), s, now)) =
           Cardinality(Recent(done, s, now)) + (IF t.sym = s THEN 1 ELSE 0)
<1>. DEFINE new == Append(done, t)
            n == Len(done) + 1
<1>1. /\ Indices(new, s) = Indices(done, s) \cup (IF t.sym = s THEN {n} ELSE {})
      /\ n \notin Indices(done, s)
  BY IndicesAppended
<1>2. new[n] = t /\ \A i \in DOMAIN done : new[i] = done[i]
  BY Appended
<1>3. \A i \in Indices(done, s) : new[i] = done[i]
  BY <1>2 DEF Indices
<1>4. t.at > now - Day
  BY DayOK
<1>. HIDE DEF new, n
<1>5. /\ Recent(new, s, now) = Recent(done, s, now) \cup (IF t.sym = s THEN {n} ELSE {})
      /\ n \notin Recent(done, s, now)
  BY <1>1, <1>2, <1>3, <1>4 DEF Recent
<1>6. CASE t.sym = s
  <2>1. Recent(new, s, now) = Recent(done, s, now) \cup {n}
    BY <1>5, <1>6
  <2>2. IsFiniteSet(Recent(done, s, now))
    BY RecentIs
  <2>3. Cardinality(Recent(new, s, now)) = Cardinality(Recent(done, s, now)) + 1
    BY <1>5, <2>1, <2>2, FS_AddElement
  <2>. QED
    BY <1>6, <2>3 DEF new
<1>7. CASE t.sym # s
  <2>1. Recent(new, s, now) = Recent(done, s, now) /\ Cardinality(Recent(done, s, now)) \in Nat
    BY <1>5, <1>7, RecentIs
  <2>. QED
    BY <1>7, <2>1 DEF new
<1>. QED
  BY <1>6, <1>7

LEMMA RecentLater ==
  ASSUME NEW done \in Seq(Trade), NEW s, NEW now \in Int
  PROVE  Cardinality(Recent(done, s, now + 1)) <= Cardinality(Recent(done, s, now))
<1>1. Recent(done, s, now + 1) \subseteq Recent(done, s, now)
  <2>1. \A i \in Indices(done, s) : done[i].at \in Int
    BY IndicesAre DEF Trade
  <2>. QED
    BY <2>1, DayOK DEF Recent
<1>2. IsFiniteSet(Recent(done, s, now))
  BY RecentIs
<1>. QED
  BY <1>1, <1>2, FS_Subset

LEMMA OrdersStep ==
  ASSUME Typed, OrdersInv, [Next]_vars
  PROVE  OrdersInv'
<1>. SUFFICES ASSUME config.gate = "manager", config' = config, NEW s \in Symbols,
                     config.orders > 0, "count_orders_last_minutes" \in config.repo
              PROVE  Cardinality(Recent(trades', s, clock')) + Cardinality(Placers(s)')
                       <= config.orders + Others
  <2>1. config' = config
    BY SettingsKept
  <2>. QED
    BY <2>1 DEF OrdersInv, Others
<1>1. /\ Cardinality(Recent(trades, s, clock)) + Cardinality(Placers(s)) <= config.orders + Others
      /\ config.orders \in Int /\ trades \in Seq(Trade) /\ clock \in Int
  BY SettingsOK DEF OrdersInv, Typed
<1>2. /\ Cardinality(Recent(trades, s, clock)) \in Nat /\ Cardinality(Placers(s)) \in Nat
      /\ Others = Cardinality(Callers) - 1 /\ Cardinality(Callers) \in Nat
  BY <1>1, RecentIs, PlacersAre
<1>3. CASE trades' = trades /\ clock' = clock /\ call' = call
  <2>1. Placers(s)' = Placers(s)
    BY <1>3 DEF Placers
  <2>. QED
    BY <1>1, <1>3, <2>1
<1>4. ASSUME NEW c \in Callers, AskManager(c)
      PROVE  Cardinality(Recent(trades', s, clock')) + Cardinality(Placers(s)') <= config.orders + Others
  <2>1. trades' = trades /\ clock' = clock /\ call[c] = Idle
    BY <1>4, AsksAre DEF Asked
  <2>2. CASE call' = call
    BY <2>1, <2>2, <1>3
  <2>3. ASSUME NEW r \in config.symbols, call' = [call EXCEPT ![c] = Placing(r, FALSE)],
               ~BudgetOrdersRule(config, trades, r, clock)
        PROVE  Cardinality(Recent(trades', s, clock')) + Cardinality(Placers(s)')
                 <= config.orders + Others
    <3>1. r \in Symbols
      BY SettingsOK DEF Typed
    <3>2. /\ Cardinality(Placers(s)') = Cardinality(Placers(s)) + (IF r = s THEN 1 ELSE 0)
          /\ Cardinality(Placers(s)') <= Cardinality(Callers)
      BY <2>1, <2>3, <3>1, PlacersBegin
    <3>3. CASE r = s
      <4>1. Cardinality(Recent(trades, s, clock)) < config.orders
        BY <1>1, <1>2, <2>3, <3>3, CountIs DEF BudgetOrdersRule
      <4>. QED
        BY <1>1, <1>2, <2>1, <3>2, <3>3, <4>1
    <3>4. CASE r # s
      BY <1>1, <1>2, <2>1, <3>2, <3>4
    <3>. QED
      BY <3>3, <3>4
  <2>. QED
    BY <1>4, <2>2, <2>3, ManagerAsked
<1>5. ASSUME NEW c \in Callers, Recorded(c)
      PROVE  Cardinality(Recent(trades', s, clock')) + Cardinality(Placers(s)') <= config.orders + Others
  <2>1. PICK t \in config.trades :
           /\ call[c].phase = "placing" /\ trades' = Append(trades, Made(c, t))
           /\ call' = [call EXCEPT ![c] = Idle] /\ clock' = clock
    BY <1>5, RecordedIs
  <2>2. Made(c, t) \in Trade /\ Made(c, t).at = clock /\ Made(c, t).sym = call[c].sym
    BY <2>1, MadeIs
  <2>3. Cardinality(Recent(trades', s, clock)) =
          Cardinality(Recent(trades, s, clock)) + (IF call[c].sym = s THEN 1 ELSE 0)
    BY <1>1, <2>1, <2>2, RecentAppended
  <2>4. Cardinality(Placers(s)') = Cardinality(Placers(s)) - (IF call[c].sym = s THEN 1 ELSE 0)
    BY <2>1, PlacersEnd
  <2>. QED
    BY <1>1, <1>2, <2>1, <2>3, <2>4
<1>6. ASSUME NEW c \in Callers, Dropped(c)
      PROVE  Cardinality(Recent(trades', s, clock')) + Cardinality(Placers(s)') <= config.orders + Others
  <2>1. /\ call[c].phase = "placing" /\ call' = [call EXCEPT ![c] = Idle]
        /\ trades' = trades /\ clock' = clock
    BY <1>1, <1>6, DroppedIs
  <2>2. Cardinality(Placers(s)') = Cardinality(Placers(s)) - (IF call[c].sym = s THEN 1 ELSE 0)
    BY <2>1, PlacersEnd
  <2>. QED
    BY <1>1, <1>2, <2>1, <2>2
<1>7. CASE Tick
  <2>1. clock' = clock + 1 /\ trades' = trades /\ call' = call
    BY <1>7 DEF Tick
  <2>2. Placers(s)' = Placers(s)
    BY <2>1 DEF Placers
  <2>3. /\ Cardinality(Recent(trades, s, clock + 1)) <= Cardinality(Recent(trades, s, clock))
        /\ Cardinality(Recent(trades, s, clock + 1)) \in Nat
    BY <1>1, RecentLater, RecentIs
  <2>. QED
    BY <1>1, <1>2, <2>1, <2>2, <2>3
<1>8. CASE Reset
  BY <1>3, <1>8 DEF Reset
<1>9. CASE UNCHANGED vars
  BY <1>3, <1>9 DEF vars
<1>. QED
  BY <1>1, <1>4, <1>5, <1>6, <1>7, <1>8, <1>9, AsksAre, GateAsks DEF Next
-----------------------------------------------------------------------------
(* What was traded for today.                                              *)
Costs(done) == [i \in DOMAIN done |-> done[i].cost]

LEMMA TurnoverIs ==
  ASSUME NEW done, NEW s, NEW now
  PROVE  daily_turnover_quote(done, s, now) = SumFunctionOnSet(Costs(done), OfToday(done, s, now))
BY Zenon DEF daily_turnover_quote, Total, Cost, Costs, OfToday

LEMMA TodayIs ==
  ASSUME NEW done \in Seq(Trade), NEW s, NEW now
  PROVE  /\ IsFiniteSet(OfToday(done, s, now))
         /\ \A i \in OfToday(done, s, now) : i \in DOMAIN done /\ Costs(done)[i] \in Nat
         /\ daily_turnover_quote(done, s, now) \in Nat
<1>1. IsFiniteSet(OfToday(done, s, now))
  BY IndicesAre, FS_Subset DEF OfToday
<1>2. \A i \in OfToday(done, s, now) : i \in DOMAIN done /\ done[i] \in Trade
  BY IndicesAre DEF OfToday
<1>3. \A i \in OfToday(done, s, now) : i \in DOMAIN done /\ Costs(done)[i] \in Nat
  BY <1>2 DEF Trade, Costs
<1>. QED
  BY <1>1, <1>3, SumIsNatural, TurnoverIs

LEMMA TurnoverAppended ==
  ASSUME NEW done \in Seq(Trade), NEW t \in Trade, NEW s, NEW now \in Int, t.at = now
  PROVE  daily_turnover_quote(Append(done, t), s, now) =
           daily_turnover_quote(done, s, now) + (IF t.sym = s THEN t.cost ELSE 0)
<1>. DEFINE new == Append(done, t)
            n == Len(done) + 1
            S == OfToday(done, s, now)
            T == OfToday(new, s, now)
<1>1. /\ Indices(new, s) = Indices(done, s) \cup (IF t.sym = s THEN {n} ELSE {})
      /\ n \notin Indices(done, s)
  BY IndicesAppended
<1>2. /\ new \in Seq(Trade) /\ new[n] = t /\ DOMAIN new = DOMAIN done \cup {n}
      /\ \A i \in DOMAIN done : new[i] = done[i]
  BY Appended
<1>3. \A i \in Indices(done, s) : new[i] = done[i]
  BY <1>2 DEF Indices
<1>4. T = S \cup (IF t.sym = s THEN {n} ELSE {}) /\ n \notin S
  <2>. HIDE DEF new, n
  <2>. QED
    BY <1>1, <1>2, <1>3 DEF OfToday
<1>5. /\ IsFiniteSet(S) /\ IsFiniteSet(T)
      /\ \A i \in S : i \in DOMAIN done
      /\ \A i \in T : Costs(new)[i] \in Nat
      /\ daily_turnover_quote(done, s, now) \in Nat
  BY <1>2, TodayIs
<1>6. Costs(new)[n] = t.cost /\ \A i \in DOMAIN done : Costs(new)[i] = Costs(done)[i]
  <2>. HIDE DEF new, n
  <2>. QED
    BY <1>2 DEF Costs
<1>7. /\ daily_turnover_quote(done, s, now) = SumFunctionOnSet(Costs(done), S)
      /\ daily_turnover_quote(new, s, now) = SumFunctionOnSet(Costs(new), T)
  BY TurnoverIs
<1>. HIDE DEF S, T, n, new
<1>8. SumFunctionOnSet(Costs(done), S) = SumFunctionOnSet(Costs(new), S)
  <2>1. Alike(Costs(done), Costs(new), S)
    BY <1>5, <1>6 DEF Alike
  <2>. QED
    BY <1>5, <2>1, SumOfSame
<1>9. CASE t.sym = s
  <2>1. n \in T /\ T \ {n} = S /\ \A i \in T : Costs(new)[i] \in Int
    BY <1>4, <1>5, <1>9
  <2>2. SumFunctionOnSet(Costs(new), T) = Costs(new)[n] + SumFunctionOnSet(Costs(new), T \ {n})
    BY <1>5, <2>1, SumWithout
  <2>3. t.cost \in Nat
    BY DEF Trade
  <2>4. SumFunctionOnSet(Costs(new), T) = t.cost + SumFunctionOnSet(Costs(new), S)
    BY <1>6, <2>1, <2>2
  <2>5. daily_turnover_quote(new, s, now) = t.cost + daily_turnover_quote(done, s, now)
    BY <1>7, <1>8, <2>4
  <2>. QED
    BY <1>5, <1>9, <2>3, <2>5 DEF new
<1>10. CASE t.sym # s
  <2>1. daily_turnover_quote(new, s, now) = daily_turnover_quote(done, s, now) + 0
    BY <1>4, <1>5, <1>7, <1>8, <1>10
  <2>. QED
    BY <1>10, <2>1 DEF new
<1>. QED
  BY <1>9, <1>10

\* A new day begins with nothing.
LEMMA TurnoverLater ==
  ASSUME NEW done \in Seq(Trade), NEW s, NEW now \in Int, \A i \in DOMAIN done : done[i].at <= now
  PROVE  daily_turnover_quote(done, s, now + 1) <= daily_turnover_quote(done, s, now)
<1>1. /\ daily_turnover_quote(done, s, now) \in Nat
      /\ daily_turnover_quote(done, s, now + 1) \in Nat
  BY TodayIs
<1>2. Today(now) \in Int /\ Today(now + 1) \in Int /\ Today(now) <= Today(now + 1)
  BY DayIs, DaysFollow
<1>3. CASE Today(now) = Today(now + 1)
  <2>1. OfToday(done, s, now + 1) = OfToday(done, s, now)
    BY <1>3 DEF OfToday
  <2>2. daily_turnover_quote(done, s, now + 1) = daily_turnover_quote(done, s, now)
    BY <2>1, TurnoverIs
  <2>. QED
    BY <1>1, <2>2
<1>4. CASE Today(now) < Today(now + 1)
  <2>1. ASSUME NEW i \in Indices(done, s) PROVE Today(done[i].at) # Today(now + 1)
    <3>1. done[i] \in Trade /\ i \in DOMAIN done
      BY <2>1, IndicesAre
    <3>2. done[i].at \in Int /\ done[i].at <= now
      <4>1. done[i].at \in Int
        BY <3>1 DEF Trade
      <4>. QED
        BY <3>1, <4>1
    <3>3. Today(done[i].at) \in Int /\ Today(done[i].at) <= Today(now)
      BY <3>2, DayIs, DaysFollow
    <3>. QED
      BY <1>2, <1>4, <3>3
  <2>2. OfToday(done, s, now + 1) = {}
    BY <2>1 DEF OfToday
  <2>3. daily_turnover_quote(done, s, now + 1) = 0
    BY <2>2, TurnoverIs, SumOfNothing
  <2>. QED
    BY <1>1, <2>3
<1>. QED
  BY <1>2, <1>3, <1>4
-----------------------------------------------------------------------------
LEMMA DearestIs ==
  ASSUME Typed
  PROVE  Dearest \in Nat /\ \A t \in config.trades : t.cost \in Nat /\ t.cost <= Dearest
<1>. DEFINE S == config.trades
            N == {t.cost : t \in S}
            f == [t \in S |-> t.cost]
<1>1. IsFiniteSet(S) /\ S # {} /\ \A t \in S : t.cost \in Nat
  BY SettingsOK DEF Typed
<1>2. f \in Surjection(S, N)
  BY DEF Surjection
<1>3. N # {} /\ \A k \in N : k \in Int
  BY <1>1
<1>4. Dearest = Max(N) /\ \A t \in S : t.cost \in N
  BY DEF Dearest
<1>5. \A k \in N : k \in Nat
  BY <1>1
<1>. HIDE DEF S, N, f
<1>6. IsFiniteSet(N)
  BY <1>1, <1>2, FS_Surjection
<1>7. Max(N) \in N /\ \A k \in N : k <= Max(N)
  BY <1>3, <1>6, GreatestNumber
<1>. QED
  BY <1>1, <1>4, <1>5, <1>7 DEF S

LEMMA Times ==
  ASSUME NEW a \in Nat, NEW b \in Nat, a <= b, NEW d \in Nat
  PROVE  a * d \in Nat /\ b * d \in Nat /\ a * d <= b * d /\ (a + 1) * d = a * d + d
<1>1. a * d \in Nat /\ b * d \in Nat
  OBVIOUS
<1>2. PICK k \in Nat : b = a + k
  <2>1. b = a + (b - a) /\ b - a \in Nat
    OBVIOUS
  <2>. QED
    BY <2>1
<1>3. (a + k) * d = a * d + k * d /\ k * d \in Nat
  OBVIOUS
<1>4. (a + 1) * d = a * d + d
  OBVIOUS
<1>. QED
  BY <1>1, <1>2, <1>3, <1>4

LEMMA TurnoverStep ==
  ASSUME Typed, TurnoverInv, [Next]_vars
  PROVE  TurnoverInv'
<1>. DEFINE Bound(n, p) == n + p * Dearest <= config.turnover - 1 + Cardinality(Callers) * Dearest
<1>. SUFFICES ASSUME config.gate = "manager", config' = config, NEW s \in Symbols,
                     config.turnover > 0, "daily_turnover_quote" \in config.repo
              PROVE  Bound(daily_turnover_quote(trades', s, clock'), Cardinality(Placers(s)'))
  <2>1. config' = config
    BY SettingsKept
  <2>. QED
    BY <2>1 DEF TurnoverInv, Dearest
<1>. DEFINE n == daily_turnover_quote(trades, s, clock)
            p == Cardinality(Placers(s))
<1>1. /\ n + p * Dearest <= config.turnover - 1 + Cardinality(Callers) * Dearest
      /\ config.turnover \in Int /\ trades \in Seq(Trade) /\ clock \in Int
      /\ \A i \in DOMAIN trades : trades[i].at <= clock
  BY SettingsOK DEF TurnoverInv, Typed
<1>2. /\ n \in Nat /\ p \in Nat /\ Cardinality(Callers) \in Nat /\ p <= Cardinality(Callers)
      /\ Dearest \in Nat /\ \A t \in config.trades : t.cost \in Nat /\ t.cost <= Dearest
  BY <1>1, TodayIs, PlacersAre, DearestIs
<1>3. CASE trades' = trades /\ clock' = clock /\ call' = call
  <2>1. Placers(s)' = Placers(s)
    BY <1>3 DEF Placers
  <2>. QED
    BY <1>1, <1>3, <2>1
<1>4. ASSUME NEW c \in Callers, AskManager(c)
      PROVE  Bound(daily_turnover_quote(trades', s, clock'), Cardinality(Placers(s)'))
  <2>1. trades' = trades /\ clock' = clock /\ call[c] = Idle
    BY <1>4, AsksAre DEF Asked
  <2>2. CASE call' = call
    BY <2>1, <2>2, <1>3
  <2>3. ASSUME NEW r \in config.symbols, call' = [call EXCEPT ![c] = Placing(r, FALSE)],
               ~BudgetTurnoverRule(config, trades, r, clock)
        PROVE  Bound(n, Cardinality(Placers(s)'))
    <3>1. r \in Symbols
      BY SettingsOK DEF Typed
    <3>2. /\ Cardinality(Placers(s)') = p + (IF r = s THEN 1 ELSE 0)
          /\ Cardinality(Placers(s)') <= Cardinality(Callers)
      BY <2>1, <2>3, <3>1, PlacersBegin
    <3>3. CASE r = s
      <4>1. ~(n >= config.turnover)
        BY <2>3, <3>3 DEF BudgetTurnoverRule
      <4>. HIDE DEF n, p
      <4>2. n <= config.turnover - 1
        BY <1>1, <1>2, <4>1
      <4>3. /\ (p + 1) * Dearest <= Cardinality(Callers) * Dearest
            /\ (p + 1) * Dearest \in Nat /\ Cardinality(Callers) * Dearest \in Nat
        BY <1>2, <3>2, <3>3, Times
      <4>. QED
        BY <1>1, <1>2, <3>2, <3>3, <4>2, <4>3
    <3>4. CASE r # s
      <4>1. Cardinality(Placers(s)') = p
        BY <1>2, <3>2, <3>4
      <4>. QED
        BY <1>1, <4>1
    <3>. QED
      BY <3>3, <3>4
  <2>. QED
    BY <1>4, <2>1, <2>2, <2>3, ManagerAsked
<1>5. ASSUME NEW c \in Callers, Recorded(c)
      PROVE  Bound(daily_turnover_quote(trades', s, clock'), Cardinality(Placers(s)'))
  <2>1. PICK t \in config.trades :
           /\ call[c].phase = "placing" /\ trades' = Append(trades, Made(c, t))
           /\ call' = [call EXCEPT ![c] = Idle] /\ clock' = clock
    BY <1>5, RecordedIs
  <2>2. /\ Made(c, t) \in Trade /\ Made(c, t).at = clock /\ Made(c, t).sym = call[c].sym
        /\ Made(c, t).cost = t.cost
    BY <2>1, MadeIs
  <2>3. daily_turnover_quote(trades', s, clock') = n + (IF call[c].sym = s THEN t.cost ELSE 0)
    <3>. DEFINE t1 == Made(c, t)
    <3>1. /\ trades' = Append(trades, t1) /\ t1 \in Trade /\ t1.at = clock
          /\ t1.sym = call[c].sym /\ t1.cost = t.cost
      BY <2>1, <2>2
    <3>. HIDE DEF t1
    <3>2. trades \in Seq(Trade) /\ clock \in Int
      BY <1>1
    <3>3. daily_turnover_quote(Append(trades, t1), s, clock) =
            daily_turnover_quote(trades, s, clock) + (IF t1.sym = s THEN t1.cost ELSE 0)
      BY <3>1, <3>2, TurnoverAppended
    <3>. QED
      BY <2>1, <3>1, <3>3
  <2>4. Cardinality(Placers(s)') = p - (IF call[c].sym = s THEN 1 ELSE 0)
    BY <2>1, PlacersEnd
  <2>5. Cardinality(Placers(s)') \in Nat
    <3>1. Placers(s)' \subseteq Callers /\ IsFiniteSet(Callers)
      BY SettingsOK DEF Placers
    <3>. QED
      BY <3>1, FS_Subset, FS_CardinalityType
  <2>. DEFINE q == Cardinality(Placers(s)')
  <2>. HIDE DEF n, p, q
  <2>6. CASE call[c].sym = s
    <3>1. q \in Nat /\ p = q + 1 /\ q <= p
      BY <1>2, <2>4, <2>5, <2>6 DEF q
    <3>2. p * Dearest = q * Dearest + Dearest /\ q * Dearest \in Nat /\ p * Dearest \in Nat
          /\ Cardinality(Callers) * Dearest \in Nat
      BY <1>2, <3>1, Times
    <3>3. daily_turnover_quote(trades', s, clock') = n + t.cost /\ t.cost \in Nat /\ t.cost <= Dearest
      BY <1>2, <2>3, <2>6
    <3>4. n + t.cost + q * Dearest <= config.turnover - 1 + Cardinality(Callers) * Dearest
      <4>. DEFINE x == q * Dearest
                  y == p * Dearest
                  w == Cardinality(Callers) * Dearest
      <4>1. n + y <= config.turnover - 1 + w /\ y = x + Dearest /\ x \in Nat /\ y \in Nat /\ w \in Nat
        BY <1>1, <3>2
      <4>2. n \in Nat /\ Dearest \in Nat /\ config.turnover \in Int
        BY <1>1, <1>2
      <4>. HIDE DEF x, y, w
      <4>3. n + t.cost + x <= config.turnover - 1 + w
        BY <3>3, <4>1, <4>2
      <4>. QED
        BY <4>3 DEF x, w
    <3>. QED
      BY <3>3, <3>4 DEF q
  <2>7. CASE call[c].sym # s
    <3>1. q = p /\ daily_turnover_quote(trades', s, clock') = n
      BY <1>2, <2>3, <2>4, <2>7 DEF q
    <3>. QED
      BY <1>1, <2>1, <3>1 DEF q
  <2>. QED
    BY <2>6, <2>7
<1>6. ASSUME NEW c \in Callers, Dropped(c)
      PROVE  Bound(daily_turnover_quote(trades', s, clock'), Cardinality(Placers(s)'))
  <2>1. /\ call[c].phase = "placing" /\ call' = [call EXCEPT ![c] = Idle]
        /\ trades' = trades /\ clock' = clock
    BY <1>1, <1>6, DroppedIs
  <2>2. Cardinality(Placers(s)') = p - (IF call[c].sym = s THEN 1 ELSE 0)
    BY <2>1, PlacersEnd
  <2>3. Cardinality(Placers(s)') \in Nat
    <3>1. Placers(s)' \subseteq Callers /\ IsFiniteSet(Callers)
      BY SettingsOK DEF Placers
    <3>. QED
      BY <3>1, FS_Subset, FS_CardinalityType
  <2>. DEFINE q == Cardinality(Placers(s)')
  <2>. HIDE DEF n, p, q
  <2>4. q \in Nat /\ q <= p
    BY <1>2, <2>2, <2>3 DEF q
  <2>5. q * Dearest <= p * Dearest /\ q * Dearest \in Nat /\ p * Dearest \in Nat
        /\ Cardinality(Callers) * Dearest \in Nat
    BY <1>2, <2>4, Times
  <2>. QED
    BY <1>1, <1>2, <2>1, <2>5 DEF n, q
<1>7. CASE Tick
  <2>1. clock' = clock + 1 /\ trades' = trades /\ call' = call
    BY <1>7 DEF Tick
  <2>2. Placers(s)' = Placers(s)
    BY <2>1 DEF Placers
  <2>. DEFINE m == daily_turnover_quote(trades, s, clock + 1)
  <2>3. m <= n /\ m \in Nat
    BY <1>1, TurnoverLater, TodayIs
  <2>. HIDE DEF m, n
  <2>4. p * Dearest \in Nat /\ Cardinality(Callers) * Dearest \in Nat
    BY <1>2, Times
  <2>5. m + p * Dearest <= config.turnover - 1 + Cardinality(Callers) * Dearest
    <3>. DEFINE y == p * Dearest
                w == Cardinality(Callers) * Dearest
    <3>1. /\ n + y <= config.turnover - 1 + w /\ y \in Nat /\ w \in Nat
          /\ n \in Nat /\ config.turnover \in Int
      BY <1>1, <1>2, <2>4
    <3>. HIDE DEF y, w
    <3>2. m + y <= config.turnover - 1 + w
      BY <2>3, <3>1
    <3>. QED
      BY <3>2 DEF y, w
  <2>. QED
    BY <2>1, <2>2, <2>5 DEF m
<1>8. CASE Reset
  BY <1>3, <1>8 DEF Reset
<1>9. CASE UNCHANGED vars
  BY <1>3, <1>9 DEF vars
<1>. QED
  BY <1>1, <1>4, <1>5, <1>6, <1>7, <1>8, <1>9, AsksAre, GateAsks DEF Next
-----------------------------------------------------------------------------
(* The daily loss.  What is kept was worked out, at some time, from the    *)
(* trades that some symbol had by some time.                               *)
Metrics == [start : Int, mark : {0}, realized : Int]

Figure(done, n, s, at) == realized_pnl(config, SubSeq(done, 1, n), s, at)

WorkedOut(m) ==
  \E s \in config.symbols, n \in 0..Len(trades), at \in Day..clock :
    m.start = period_start(config, at) /\ m.realized = Figure(trades, n, s, at)

LossInv ==
  config.gate = "daily_loss" /\ ~config.unrealized =>
    /\ memory \in Metrics
    /\ memory.start # -Day => WorkedOut(memory)
    /\ \A c \in Callers : call[c].phase = "loading" =>
         /\ call[c].sym \in config.symbols /\ call[c].mark = 0
         /\ call[c].at \in Day..clock /\ call[c].since \in 0..Len(trades)

Results(K, done) == [i \in DOMAIN done |-> done[i].pnl - (IF K.fees THEN done[i].fee ELSE 0)]

LEMMA RealizedIs ==
  ASSUME NEW done \in Seq(Trade), NEW K, NEW s, NEW now
  PROVE  /\ realized_pnl(K, done, s, now)
              = SumFunctionOnSet(Results(K, done), period_trades(K, done, s, now))
         /\ realized_pnl(K, done, s, now) \in Int
<1>. DEFINE S == period_trades(K, done, s, now)
            g == Results(K, done)
<1>1. IsFiniteSet(S)
  BY IndicesAre, FS_Subset DEF period_trades
<1>2. \A i \in S : i \in DOMAIN done /\ done[i] \in Trade
  BY IndicesAre DEF period_trades
<1>3. \A i \in S : g[i] \in Int
  <2>1. \A t \in Trade : t.pnl \in Int /\ t.fee \in Int
    BY DEF Trade
  <2>. HIDE DEF S
  <2>. QED
    BY <1>2, <2>1 DEF Results
<1>5. realized_pnl(K, done, s, now) = SumFunctionOnSet(g, S)
  BY DEF realized_pnl, Total, Results
<1>. HIDE DEF S, g
<1>4. SumFunctionOnSet(g, S) \in Int
  BY <1>1, <1>3, SumIsInteger
<1>. QED
  BY <1>4, <1>5 DEF S, g

\* The first n trades.
LEMMA FirstTrades ==
  ASSUME NEW done \in Seq(Trade), NEW n \in 0..Len(done)
  PROVE  /\ SubSeq(done, 1, n) \in Seq(Trade) /\ DOMAIN SubSeq(done, 1, n) = 1..n
         /\ \A i \in 1..n : SubSeq(done, 1, n)[i] = done[i] /\ i \in DOMAIN done
         /\ \A t \in Trade : SubSeq(Append(done, t), 1, n) = SubSeq(done, 1, n)
<1>1. /\ SubSeq(done, 1, n) \in Seq(Trade) /\ DOMAIN SubSeq(done, 1, n) = 1..n
      /\ \A i \in 1..n : SubSeq(done, 1, n)[i] = done[i] /\ i \in DOMAIN done
  OBVIOUS
<1>2. ASSUME NEW t \in Trade PROVE SubSeq(Append(done, t), 1, n) = SubSeq(done, 1, n)
  OBVIOUS
<1>. QED
  BY <1>1, <1>2

LEMMA LaterPeriod ==
  ASSUME config.gate = "daily_loss", config \in Settings, NEW at \in Int, at >= Day
  PROVE  period_start(config, at) \in Nat
<1>1. config.reset_hour \in 0..(Day - 1)
  BY SettingsOK
<1>. QED
  BY <1>1, PeriodsFollow

\* What a check works out once the trades are there.
LEMMA LoadedIs ==
  ASSUME Typed, LossInv, config.gate = "daily_loss", ~config.unrealized,
         NEW c \in Callers, call[c].phase = "loading",
         NEW n \in {0} \cup call[c].since..Len(trades), NEW m,
         m = calculate_daily_metrics(config, SubSeq(trades, 1, n), call[c].sym, call[c].mark, call[c].at)
  PROVE  m \in Metrics /\ WorkedOut(m)
<1>. DEFINE s == call[c].sym
            at == call[c].at
<1>1. /\ s \in config.symbols /\ call[c].mark = 0 /\ at \in Day..clock
      /\ call[c].since \in 0..Len(trades)
  BY DEF LossInv
<1>2. trades \in Seq(Trade) /\ config \in Settings /\ clock \in Int /\ Day \in Nat
  BY DayOK DEF Typed
<1>3. n \in 0..Len(trades)
  BY <1>1, <1>2
<1>4. m = [start |-> period_start(config, at), mark |-> 0, realized |-> Figure(trades, n, s, at)]
  BY <1>1 DEF calculate_daily_metrics, Figure
<1>. HIDE DEF s, at
<1>5. Figure(trades, n, s, at) \in Int
  BY <1>2, <1>3, FirstTrades, RealizedIs DEF Figure
<1>6. period_start(config, at) \in Int
  BY <1>1, <1>2, LaterPeriod
<1>. QED
  BY <1>1, <1>3, <1>4, <1>5, <1>6 DEF Metrics, WorkedOut

\* Time and trades take nothing back.
LEMMA StillWorkedOut ==
  ASSUME Typed, NEW m, WorkedOut(m), config' = config, clock' \in Int, clock <= clock',
         trades' = trades \/ \E t \in Trade : trades' = Append(trades, t)
  PROVE  WorkedOut(m)'
<1>1. PICK s \in config.symbols, n \in 0..Len(trades), at \in Day..clock :
        m.start = period_start(config, at) /\ m.realized = Figure(trades, n, s, at)
  BY DEF WorkedOut
<1>2. trades \in Seq(Trade) /\ clock \in Int /\ Day \in Int
  BY DayOK DEF Typed
<1>3. at \in Day..clock' /\ n \in 0..Len(trades')
  BY <1>2
<1>4. Figure(trades', n, s, at) = Figure(trades, n, s, at)
  BY <1>2, FirstTrades DEF Figure
<1>5. realized_pnl(config', SubSeq(trades', 1, n), s, at) = Figure(trades, n, s, at)
  BY <1>4 DEF Figure
<1>. QED
  BY <1>1, <1>3, <1>5 DEF WorkedOut, Figure

LEMMA LossStep ==
  ASSUME Typed, LossInv, [Next]_vars
  PROVE  LossInv'
<1>. SUFFICES ASSUME config.gate = "daily_loss", ~config.unrealized, config' = config
              PROVE  LossInv'
  <2>1. config' = config
    BY SettingsKept
  <2>. QED
    BY <2>1 DEF LossInv
<1>. DEFINE Load(r, len, now) ==
              r.phase = "loading" =>
                /\ r.sym \in config.symbols /\ r.mark = 0
                /\ r.at \in Day..now /\ r.since \in 0..len
<1>1. /\ memory \in Metrics /\ (memory.start # -Day => WorkedOut(memory))
      /\ \A c \in Callers : Load(call[c], Len(trades), clock)
  BY DEF LossInv
<1>2. /\ clock \in Int /\ clock >= Day /\ Day \in Nat \ {0}
      /\ trades \in Seq(Trade) /\ Len(trades) \in Nat /\ config \in Settings
      /\ call = [c \in Callers |-> call[c]]
  BY DayOK DEF Typed
<1>3. ASSUME clock' \in Int, clock <= clock',
             trades' = trades \/ \E t \in Trade : trades' = Append(trades, t),
             memory' \in Metrics, memory'.start # -Day => WorkedOut(memory'),
             \A c \in Callers : call'[c] = call[c] \/ Load(call'[c], Len(trades), clock)
      PROVE  LossInv'
  <2>1. memory'.start # -Day => WorkedOut(memory)'
    <3>1. ASSUME WorkedOut(memory') PROVE WorkedOut(memory)'
      <4>1. PICK m : m = memory'
        OBVIOUS
      <4>2. PICK s \in config.symbols, n \in 0..Len(trades), at \in Day..clock :
              m.start = period_start(config, at) /\ m.realized = Figure(trades, n, s, at)
        BY <3>1, <4>1 DEF WorkedOut
      <4>3. at \in Day..clock' /\ n \in 0..Len(trades')
        BY <1>2, <1>3
      <4>4. Figure(trades', n, s, at) = Figure(trades, n, s, at)
        BY <1>2, <1>3, FirstTrades DEF Figure
      <4>. QED
        BY <4>1, <4>2, <4>3, <4>4 DEF WorkedOut, Figure
    <3>. QED
      BY <1>3, <3>1
  <2>2. Len(trades') \in Nat /\ Len(trades) <= Len(trades')
    BY <1>2, <1>3
  <2>3. \A c \in Callers : Load(call'[c], Len(trades'), clock')
    BY <1>1, <1>2, <1>3, <2>2
  <2>. QED
    BY <1>3, <2>1, <2>3 DEF LossInv
<1>. HIDE DEF Load
<1>4. ASSUME NEW c \in Callers, AskDailyLoss(c) PROVE LossInv'
  <2>1. PICK s \in config.symbols, closing \in BOOLEAN, mark \in Marks :
          /\ Asks(c, "daily_loss") /\ UNCHANGED <<clock, trades>>
          /\ \/ \E answer : Answered(c, s, closing, answer)
             \/ call' = [call EXCEPT ![c] = Loading(s, Marked(config, mark, 0))]
          /\ \/ memory' = memory
             \/ memory' = DailyLossCheck(config, refreshed(config, memory, mark)).memory
    BY <1>4 DEF AskDailyLoss, Answered, Remembers
  <2>2. memory' = memory
    <3>1. refreshed(config, memory, mark) = [memory EXCEPT !.mark = memory.mark]
      BY DEF refreshed, Marked
    <3>2. [memory EXCEPT !.mark = memory.mark] = memory
      BY <1>1 DEF Metrics
    <3>3. \A m : DailyLossCheck(config, m).memory = m
      BY DEF DailyLossCheck, Reply
    <3>. QED
      BY <2>1, <3>1, <3>2, <3>3
  <2>3. \A d \in Callers : call'[d] = call[d] \/ Load(call'[d], Len(trades), clock)
    <3>1. CASE call' = [call EXCEPT ![c] = Loading(s, Marked(config, mark, 0))]
      <4>1. Load(Loading(s, Marked(config, mark, 0)), Len(trades), clock)
        BY <1>2 DEF Load, Loading, Marked
      <4>. QED
        BY <1>2, <3>1, <4>1
    <3>2. CASE \E answer : Answered(c, s, closing, answer)
      <4>1. Load(Placing(s, closing), Len(trades), clock)
        BY DEF Load, Placing
      <4>. QED
        BY <1>2, <3>2, <4>1 DEF Answered
    <3>. QED
      BY <2>1, <3>1, <3>2
  <2>. QED
    BY <1>1, <1>2, <1>3, <2>1, <2>2, <2>3
<1>5. ASSUME NEW c \in Callers, DailyLoaded(c) PROVE LossInv'
  <2>1. call[c].phase = "loading" /\ UNCHANGED <<clock, trades>>
    BY <1>5 DEF DailyLoaded
  <2>2. PICK n \in {0} \cup call[c].since..Len(trades) :
          LET r == DailyLossCheck(config, calculate_daily_metrics(
                     config, SubSeq(trades, 1, n), call[c].sym, call[c].mark, call[c].at))
          IN  /\ memory' = r.memory
              /\ call' = [call EXCEPT ![c] =
                   IF Allowed(r.answer) THEN Placing(call[c].sym, FALSE) ELSE Idle]
    BY <1>5 DEF DailyLoaded, Remembers
  <2>. DEFINE m == calculate_daily_metrics(
                config, SubSeq(trades, 1, n), call[c].sym, call[c].mark, call[c].at)
  <2>3. memory' = m
    BY <2>2 DEF DailyLossCheck, Reply
  <2>4. m \in Metrics /\ WorkedOut(m)
    BY <2>1, LoadedIs
  <2>5. \A d \in Callers : call'[d] = call[d] \/ Load(call'[d], Len(trades), clock)
    <3>1. Load(Placing(call[c].sym, FALSE), Len(trades), clock) /\ Load(Idle, Len(trades), clock)
      BY DEF Load, Placing, Idle
    <3>2. \E r \in {Placing(call[c].sym, FALSE), Idle} : call' = [call EXCEPT ![c] = r]
      BY <2>2
    <3>. QED
      BY <1>2, <3>1, <3>2
  <2>. HIDE DEF m
  <2>. QED
    BY <1>2, <1>3, <2>1, <2>3, <2>4, <2>5
<1>6. CASE Reset
  <2>1. memory' = [start |-> -Day, mark |-> 0, realized |-> 0] /\ UNCHANGED <<clock, trades, call>>
    BY <1>6 DEF Reset, Fresh
  <2>2. memory' \in Metrics /\ memory'.start = -Day
    BY <1>2, <2>1 DEF Metrics
  <2>. QED
    BY <1>2, <1>3, <2>1, <2>2
<1>7. CASE Tick
  BY <1>1, <1>2, <1>3, <1>7 DEF Tick
<1>8. ASSUME NEW c \in Callers, Recorded(c) \/ Dropped(c) PROVE LossInv'
  <2>1. /\ UNCHANGED <<clock, memory>> /\ call' = [call EXCEPT ![c] = Idle]
        /\ trades' = trades \/ \E t \in Trade : trades' = Append(trades, t)
    <3>1. CASE Dropped(c)
      BY <3>1, DroppedIs
    <3>2. CASE Recorded(c)
      BY <3>2, RecordedIs, MadeIs
    <3>. QED
      BY <1>8, <3>1, <3>2
  <2>2. Load(Idle, Len(trades), clock)
    BY DEF Load, Idle
  <2>. QED
    BY <1>1, <1>2, <1>3, <2>1, <2>2
<1>9. CASE UNCHANGED vars
  BY <1>1, <1>2, <1>3, <1>9 DEF vars
<1>. QED
  BY <1>4, <1>5, <1>6, <1>7, <1>8, <1>9, AsksAre DEF Next, Asked, Waits

\* The trades of a symbol among the first n, up to a day, are those among
\* the first m: time goes on along the table.
LEMMA UpToDay ==
  ASSUME NEW done \in Seq(Trade), NEW n \in 0..Len(done), NEW at \in Int,
         \A i, j \in DOMAIN done : i <= j => done[i].at <= done[j].at
  PROVE  \E m \in 0..n : \A i \in 1..n : i <= m <=> Today(done[i].at) <= Today(at)
<1>. DEFINE S == {i \in 1..n : Today(done[i].at) <= Today(at)}
<1>1. \A i \in 1..n : i \in DOMAIN done /\ done[i].at \in Int /\ Today(done[i].at) \in Int
  <2>1. \A i \in 1..n : i \in DOMAIN done /\ done[i] \in Trade
    OBVIOUS
  <2>. QED
    BY <2>1, DayIs DEF Trade
<1>2. CASE S = {}
  <2>1. \A i \in 1..n : ~(i <= 0) /\ ~(Today(done[i].at) <= Today(at))
    BY <1>2
  <2>2. 0 \in 0..n
    OBVIOUS
  <2>. HIDE DEF S
  <2>. QED
    BY <2>1, <2>2
<1>3. CASE S # {}
  <2>1. IsFiniteSet(S) /\ \A k \in S : k \in Int
    <3>1. IsFiniteSet(1..n)
      BY FS_Interval
    <3>. QED
      BY <3>1, FS_Subset
  <2>2. Max(S) \in S /\ \A k \in S : k <= Max(S)
    <3>. HIDE DEF S
    <3>. QED
      BY <1>3, <2>1, GreatestNumber
  <2>3. PICK m \in S : \A k \in S : k <= m
    BY <2>2
  <2>4. ASSUME NEW i \in 1..n, i <= m PROVE Today(done[i].at) <= Today(at)
    <3>1. m \in 1..n /\ Today(done[m].at) <= Today(at)
      BY <2>3
    <3>2. done[i].at <= done[m].at
      BY <1>1, <2>4, <3>1
    <3>3. Today(done[i].at) <= Today(done[m].at)
      BY <1>1, <3>1, <3>2, DaysFollow
    <3>4. Today(at) \in Int
      BY DayIs
    <3>. QED
      BY <1>1, <3>1, <3>3, <3>4
  <2>. QED
    BY <2>3, <2>4
<1>. QED
  BY <1>2, <1>3

\* What is kept for the present period is what some symbol's trades in it
\* came to at some time.
LEMMA KeptIsOfPeriod ==
  ASSUME Typed, LossInv, config.gate = "daily_loss", ~config.unrealized, kept(config, memory, clock)
  PROVE  \E s \in config.symbols, n \in 0..Len(trades) :
           memory.realized = Figure(trades, n, s, clock)
<1>. DEFINE p == period_start(config, clock)
<1>1. /\ trades \in Seq(Trade) /\ config \in Settings /\ clock \in Int /\ clock >= Day /\ Day \in Nat \ {0}
      /\ \A i, j \in DOMAIN trades : i <= j => trades[i].at <= trades[j].at
      /\ \A i \in DOMAIN trades : trades[i].at <= clock
  BY DayOK DEF Typed
<1>2. memory.start = p /\ p \in Nat
  BY <1>1, LaterPeriod DEF kept
<1>3. PICK s \in config.symbols, n \in 0..Len(trades), at \in Day..clock :
        p = period_start(config, at) /\ memory.realized = Figure(trades, n, s, at)
  <2>1. memory.start # -Day
    BY <1>1, <1>2
  <2>. QED
    BY <1>2, <2>1 DEF LossInv, WorkedOut
<1>4. PICK m \in 0..n : \A i \in 1..n : i <= m <=> Today(trades[i].at) <= Today(at)
  <2>1. at \in Int
    BY <1>1
  <2>2. trades \in Seq(Trade) /\ n \in 0..Len(trades)
        /\ \A i, j \in DOMAIN trades : i <= j => trades[i].at <= trades[j].at
    BY <1>1
  <2>. HIDE DEF p
  <2>. QED
    BY <2>1, <2>2, UpToDay
<1>5. /\ m \in 0..Len(trades) /\ Today(at) \in Int /\ Today(clock) \in Int /\ Today(p) \in Int
      /\ Today(at) <= Today(clock)
  <2>1. m \in 0..Len(trades) /\ at \in Int /\ at <= clock /\ clock \in Int
    BY <1>1
  <2>2. p \in Int
    BY <1>2
  <2>. HIDE DEF p
  <2>. QED
    BY <2>1, <2>2, DayIs, DaysFollow
<1>. DEFINE a == SubSeq(trades, 1, n)
            b == SubSeq(trades, 1, m)
<1>6. /\ a \in Seq(Trade) /\ DOMAIN a = 1..n /\ b \in Seq(Trade) /\ DOMAIN b = 1..m
      /\ \A i \in 1..n : a[i] = trades[i] /\ i \in DOMAIN trades
      /\ \A i \in 1..m : b[i] = trades[i] /\ i \in 1..n
  BY <1>1, <1>5, FirstTrades
<1>7. \A i \in 1..n : Today(trades[i].at) \in Int /\ Today(trades[i].at) <= Today(clock)
  <2>1. \A i \in 1..n : trades[i] \in Trade /\ trades[i].at <= clock
    BY <1>1
  <2>2. \A i \in 1..n : trades[i].at \in Int
    BY <2>1 DEF Trade
  <2>. QED
    BY <1>1, <2>1, <2>2, DayIs, DaysFollow
<1>8. period_trades(config, a, s, at) = period_trades(config, b, s, clock)
  <2>. HIDE DEF a, b, p
  <2>1. Indices(a, s) = {i \in 1..n : trades[i].sym = s}
    BY <1>6 DEF Indices
  <2>2. Indices(b, s) = {i \in 1..m : trades[i].sym = s}
    BY <1>6 DEF Indices
  <2>3. period_trades(config, a, s, at) =
          {i \in 1..n : trades[i].sym = s /\ Today(trades[i].at) \in Today(p)..Today(at)}
    BY <1>3, <1>6, <2>1 DEF period_trades
  <2>4. period_trades(config, b, s, clock) =
          {i \in 1..m : trades[i].sym = s /\ Today(trades[i].at) \in Today(p)..Today(clock)}
    BY <1>6, <2>2 DEF period_trades, p
  <2>5. \A i \in 1..n : i \in 1..m <=> Today(trades[i].at) <= Today(at)
    BY <1>4
  <2>. QED
    BY <1>5, <1>6, <1>7, <2>3, <2>4, <2>5
<1>9. SumFunctionOnSet(Results(config, a), period_trades(config, a, s, at))
        = SumFunctionOnSet(Results(config, b), period_trades(config, b, s, clock))
  <2>. DEFINE S == period_trades(config, b, s, clock)
  <2>. HIDE DEF a, b
  <2>1. IsFiniteSet(S) /\ \A i \in S : i \in 1..m
    <3>1. IsFiniteSet(Indices(b, s)) /\ \A i \in Indices(b, s) : i \in 1..m
      BY <1>6, IndicesAre
    <3>. QED
      BY <3>1, FS_Subset DEF period_trades
  <2>2. \A i \in 1..m : Results(config, a)[i] = Results(config, b)[i]
    BY <1>6 DEF Results
  <2>3. Alike(Results(config, a), Results(config, b), S)
    BY <2>1, <2>2 DEF Alike
  <2>. HIDE DEF S
  <2>4. SumFunctionOnSet(Results(config, a), S) = SumFunctionOnSet(Results(config, b), S)
    BY <2>1, <2>3, SumOfSame
  <2>. QED
    BY <1>8, <2>4 DEF S
<1>10. Figure(trades, n, s, at) = Figure(trades, m, s, clock)
  <2>1. /\ Figure(trades, n, s, at) = realized_pnl(config, a, s, at)
        /\ Figure(trades, m, s, clock) = realized_pnl(config, b, s, clock)
    BY DEF Figure
  <2>. HIDE DEF a, b
  <2>. QED
    BY <1>6, <1>9, <2>1, RealizedIs
<1>. QED
  BY <1>3, <1>5, <1>10
-----------------------------------------------------------------------------
(* Symbols that exclude one another: held, or about to be.                 *)
Limit(g) == IF g.anti THEN 1 ELSE max_positions(g)
Entering(s) == \E c \in Callers : call[c].phase = "placing" /\ call[c].sym = s /\ ~call[c].closing
Taken(g) == {s \in g.symbols : find_group(config, s) = g /\ (open[s] > 0 \/ Entering(s))}

ExclusionInv ==
  config.gate = "correlation" /\ config.block_on_violation =>
    \A i \in DOMAIN config.groups :
      Cardinality(Taken(config.groups[i])) <= Limit(config.groups[i]) + Others

LEMMA LimitIs ==
  ASSUME NEW g, g.max \in Int
  PROVE  Limit(g) \in Nat /\ Limit(g) >= 1
<1>. DEFINE N == {1, g.max}
<1>1. /\ \A k \in N : k \in Int
      /\ IsFiniteSet(N) /\ N # {} /\ 1 \in N
  <2>1. IsFiniteSet({1}) /\ IsFiniteSet({g.max})
    BY FS_Singleton
  <2>2. N = {1} \cup {g.max}
    OBVIOUS
  <2>. HIDE DEF N
  <2>3. IsFiniteSet(N)
    BY <2>1, <2>2, FS_Union
  <2>. QED
    BY <2>3 DEF N
<1>. HIDE DEF N
<1>2. Max(N) \in N /\ 1 <= Max(N)
  BY <1>1, GreatestNumber
<1>3. Max(N) \in Int
  BY <1>1, <1>2
<1>4. ~g.anti => max_positions(g) = Max(N)
  BY DEF max_positions, N
<1>. QED
  BY <1>2, <1>3, <1>4 DEF Limit

LEMMA GroupIs ==
  ASSUME Typed, config.gate = "correlation", NEW i \in DOMAIN config.groups
  PROVE  /\ Limit(config.groups[i]) \in Nat /\ Limit(config.groups[i]) >= 1
         /\ config.groups[i].symbols \subseteq Symbols
         /\ IsFiniteSet(config.groups[i].symbols)
         /\ IsFiniteSet(Taken(config.groups[i])) /\ Cardinality(Taken(config.groups[i])) \in Nat
         /\ Cardinality(Callers) \in Nat /\ Others = Cardinality(Callers) - 1
<1>1. /\ config.groups[i].max \in Int /\ config.groups[i].symbols \subseteq Symbols
      /\ IsFiniteSet(config.groups[i].symbols) /\ IsFiniteSet(Callers)
  BY SettingsOK DEF Typed
<1>. DEFINE g == config.groups[i]
<1>2. Taken(g) \subseteq g.symbols
  BY DEF Taken
<1>. HIDE DEF g
<1>3. IsFiniteSet(Taken(g)) /\ Cardinality(Taken(g)) \in Nat /\ Cardinality(Callers) \in Nat
  BY <1>1, <1>2, FS_Subset, FS_CardinalityType DEF g
<1>. QED
  BY <1>1, <1>3, LimitIs DEF g, Others

\* What the rule lets enter finds fewer of the group than it allows.
LEMMA EntryFits ==
  ASSUME Typed, config.gate = "correlation", config.block_on_violation,
         NEW i \in DOMAIN config.groups, NEW g, g = config.groups[i],
         NEW s \in g.symbols, find_group(config, s) = g,
         Allowed(CorrelationCheck(config, open, s, FALSE, 1))
  PROVE  /\ IsFiniteSet({o \in g.symbols \ {s} : open[o] > 0})
         /\ Cardinality({o \in g.symbols \ {s} : open[o] > 0}) \in Nat
         /\ Cardinality({o \in g.symbols \ {s} : open[o] > 0}) <= Limit(g) - 1
<1>. DEFINE others == {o \in g.symbols \ {s} : open[o] > 0}
<1>1. GroupsOf(config, s) # {} /\ config.groups # <<>>
  BY DEF GroupsOf
<1>2. correlated_positions(config, open, s) = others
  BY <1>1 DEF correlated_positions
<1>3. IsFiniteSet(others) /\ Cardinality(others) \in Nat /\ Limit(g) \in Nat /\ Limit(g) >= 1
  <2>1. IsFiniteSet(g.symbols) /\ Limit(g) \in Nat /\ Limit(g) >= 1
    BY GroupIs
  <2>2. others \subseteq g.symbols
    OBVIOUS
  <2>. HIDE DEF others
  <2>. QED
    BY <2>1, <2>2, FS_Subset, FS_CardinalityType
<1>. HIDE DEF others
<1>4. ~(others # {} /\ (g.anti \/ Cardinality(others) >= max_positions(g)))
  <2>. SUFFICES ASSUME others # {}, g.anti \/ Cardinality(others) >= max_positions(g) PROVE FALSE
    OBVIOUS
  <2>1. CorrelationCheck(config, open, s, FALSE, 1) = Violation(config)
    BY <1>1, <1>2 DEF CorrelationCheck
  <2>2. Violation(config) = Block("correlation")
    BY DEF Violation
  <2>3. Block("correlation").action = "block"
    BY DEF Block, Answer
  <2>. QED
    BY <2>1, <2>2, <2>3 DEF Allowed
<1>5. CASE others = {}
  <2>1. Cardinality(others) = 0
    BY <1>5, FS_EmptySet
  <2>. QED
    BY <1>3, <2>1 DEF others
<1>6. CASE others # {}
  <2>1. ~g.anti /\ ~(Cardinality(others) >= max_positions(g)) /\ Limit(g) = max_positions(g)
    BY <1>4, <1>6 DEF Limit
  <2>2. Cardinality(others) <= Limit(g) - 1
    BY <1>3, <2>1
  <2>. QED
    BY <1>3, <2>2 DEF others
<1>. QED
  BY <1>5, <1>6

\* Others bring at most one symbol each.
LEMMA OthersBring ==
  ASSUME NEW c \in Callers
  PROVE  LET brought == {call[d].sym : d \in Callers \ {c}}
         IN  IsFiniteSet(brought) /\ Cardinality(brought) \in Nat /\ Cardinality(brought) <= Others
<1>. DEFINE S == Callers \ {c}
            T == {call[d].sym : d \in S}
            f == [d \in S |-> call[d].sym]
<1>1. f \in Surjection(S, T)
  BY DEF Surjection
<1>2. IsFiniteSet(S) /\ Cardinality(S) = Cardinality(Callers) - 1
  BY SettingsOK, FS_RemoveElement
<1>. HIDE DEF S, T, f
<1>3. IsFiniteSet(T) /\ Cardinality(T) <= Cardinality(S) /\ Cardinality(T) \in Nat
  BY <1>1, <1>2, FS_Surjection, FS_CardinalityType
<1>. QED
  BY <1>2, <1>3 DEF S, T, Others

\* An entry into the group finds room in it; a symbol of the others only
\* counts once.
LEMMA EntryLeavesRoom ==
  ASSUME Typed, config.gate = "correlation", config.block_on_violation,
         NEW i \in DOMAIN config.groups, NEW g, g = config.groups[i],
         NEW c \in Callers, NEW s \in g.symbols, find_group(config, s) = g,
         Allowed(CorrelationCheck(config, open, s, FALSE, 1)),
         NEW T, T \subseteq {o \in g.symbols \ {s} : open[o] > 0} \cup {s}
                             \cup {call[d].sym : d \in Callers \ {c}}
  PROVE  Cardinality(T) <= Limit(g) + Others
<1>. DEFINE others == {o \in g.symbols \ {s} : open[o] > 0}
            brought == {call[d].sym : d \in Callers \ {c}}
<1>1. /\ IsFiniteSet(others) /\ Cardinality(others) \in Nat /\ Cardinality(others) <= Limit(g) - 1
      /\ s \notin others
  BY EntryFits
<1>2. IsFiniteSet(brought) /\ Cardinality(brought) \in Nat /\ Cardinality(brought) <= Others
  BY OthersBring
<1>3. Limit(g) \in Nat /\ Others \in Int
  BY GroupIs DEF Others
<1>4. T \subseteq (others \cup {s}) \cup brought
  OBVIOUS
<1>. HIDE DEF others, brought
<1>5. IsFiniteSet(others \cup {s}) /\ Cardinality(others \cup {s}) = Cardinality(others) + 1
  BY <1>1, FS_AddElement
<1>6. /\ IsFiniteSet((others \cup {s}) \cup brought)
      /\ Cardinality((others \cup {s}) \cup brought) <= Cardinality(others) + 1 + Cardinality(brought)
  <2>. DEFINE A == others \cup {s}
  <2>. HIDE DEF A
  <2>1. IsFiniteSet(A) /\ IsFiniteSet(brought)
    BY <1>2, <1>5 DEF A
  <2>2. /\ IsFiniteSet(A \cup brought) /\ IsFiniteSet(A \cap brought)
        /\ Cardinality(A \cup brought) = Cardinality(A) + Cardinality(brought) - Cardinality(A \cap brought)
    BY <2>1, FS_Union, FS_Intersection
  <2>3. Cardinality(A \cap brought) \in Nat
    BY <2>2, FS_CardinalityType
  <2>. QED
    BY <1>1, <1>2, <1>5, <2>2, <2>3 DEF A
<1>7. IsFiniteSet(T) /\ Cardinality(T) <= Cardinality((others \cup {s}) \cup brought)
      /\ Cardinality(T) \in Nat /\ Cardinality((others \cup {s}) \cup brought) \in Nat
  BY <1>4, <1>6, FS_Subset, FS_CardinalityType
<1>. QED
  BY <1>1, <1>2, <1>3, <1>6, <1>7

LEMMA ExclusionStep ==
  ASSUME Typed, ExclusionInv, [Next]_vars
  PROVE  ExclusionInv'
<1>1. config' = config
  BY SettingsKept
<1>. SUFFICES ASSUME config.gate = "correlation", config.block_on_violation,
                     NEW i \in DOMAIN config.groups
              PROVE  Cardinality(Taken(config.groups[i])') <= Limit(config.groups[i]) + Others
  BY <1>1 DEF ExclusionInv, Taken, Limit, Others, max_positions
<1>. DEFINE g == config.groups[i]
            T == {s \in g.symbols : find_group(config, s) = g /\ (open'[s] > 0 \/ Entering(s)')}
<1>2. Taken(config.groups[i])' = T
  BY <1>1 DEF Taken
<1>3. /\ Cardinality(Taken(g)) <= Limit(g) + Others /\ IsFiniteSet(Taken(g))
      /\ Cardinality(Taken(g)) \in Nat /\ Limit(g) \in Nat /\ Others \in Int
      /\ g.symbols \subseteq Symbols
  BY GroupIs DEF ExclusionInv, Others
<1>4. ASSUME T \subseteq Taken(g) PROVE Cardinality(T) <= Limit(g) + Others
  <2>. HIDE DEF T, g
  <2>1. Cardinality(T) <= Cardinality(Taken(g)) /\ IsFiniteSet(T)
    BY <1>3, <1>4, FS_Subset
  <2>2. Cardinality(T) \in Nat
    BY <2>1, FS_CardinalityType
  <2>. QED
    BY <1>3, <2>1, <2>2
<1>5. ASSUME open' = open, call' = call PROVE T \subseteq Taken(g)
  BY <1>5 DEF Taken, Entering
<1>6. ASSUME NEW c \in Callers, AskCorrelation(c)
      PROVE  Cardinality(T) <= Limit(g) + Others
  <2>1. open' = open /\ call[c] = Idle
    BY <1>6, AsksAre DEF Asked
  <2>2. CASE call' = call
    BY <1>4, <1>5, <2>1, <2>2
  <2>3. ASSUME NEW s \in config.symbols, NEW closing \in BOOLEAN,
               call' = [call EXCEPT ![c] = Placing(s, closing)],
               Allowed(CorrelationCheck(config, open, s, closing, 1))
        PROVE  Cardinality(T) <= Limit(g) + Others
    <3>1. call = [d \in Callers |-> call[d]]
      BY DEF Typed
    <3>2. \A d \in Callers : call'[d] = IF d = c THEN Placing(s, closing) ELSE call[d]
      BY <2>3, <3>1
    <3>3. \A o : Entering(o)' => (o = s /\ ~closing)
                              \/ (\E d \in Callers \ {c} : call[d].phase = "placing"
                                     /\ call[d].sym = o /\ ~call[d].closing)
      BY <3>2 DEF Entering, Placing
    <3>4. CASE ~closing /\ s \in g.symbols /\ find_group(config, s) = g
      <4>1. T \subseteq {o \in g.symbols \ {s} : open[o] > 0} \cup {s}
                          \cup {call[d].sym : d \in Callers \ {c}}
        BY <2>1, <3>3
      <4>2. closing = FALSE
        BY <3>4
      <4>3. Allowed(CorrelationCheck(config, open, s, FALSE, 1))
        BY <2>3, <4>2
      <4>. HIDE DEF T
      <4>. QED
        BY <3>4, <4>1, <4>3, EntryLeavesRoom
    <3>5. CASE ~(~closing /\ s \in g.symbols /\ find_group(config, s) = g)
      <4>1. T \subseteq Taken(g)
        BY <2>1, <3>3, <3>5 DEF Taken, Entering
      <4>. QED
        BY <1>4, <4>1
    <3>. QED
      BY <3>4, <3>5
  <2>. QED
    BY <1>6, <2>2, <2>3 DEF AskCorrelation, Answered
<1>7. ASSUME NEW c \in Callers, Recorded(c)
      PROVE  T \subseteq Taken(g)
  <2>1. /\ call[c].phase = "placing"
        /\ open' = [open EXCEPT ![call[c].sym] = IF call[c].closing THEN 0 ELSE @ + 1]
        /\ call' = [call EXCEPT ![c] = Idle]
    BY <1>7, RecordedIs
  <2>2. call = [d \in Callers |-> call[d]] /\ open \in [Symbols -> Nat]
    BY DEF Typed
  <2>3. \A d \in Callers : call'[d] = IF d = c THEN Idle ELSE call[d]
    BY <2>1, <2>2
  <2>4. \A o : Entering(o)' => Entering(o)
    BY <2>3 DEF Entering, Idle
  <2>5. \A o \in Symbols : open'[o] > 0 => open[o] > 0 \/ Entering(o)
    BY <2>1, <2>2 DEF Entering
  <2>. QED
    BY <1>3, <2>4, <2>5 DEF Taken
<1>8. ASSUME NEW c \in Callers, Dropped(c)
      PROVE  T \subseteq Taken(g)
  <2>1. open' = open /\ call' = [call EXCEPT ![c] = Idle] /\ call = [d \in Callers |-> call[d]]
    BY <1>8 DEF Dropped, Typed
  <2>2. \A d \in Callers : call'[d] = IF d = c THEN Idle ELSE call[d]
    BY <2>1
  <2>3. \A o : Entering(o)' => Entering(o)
    BY <2>2 DEF Entering, Idle
  <2>. QED
    BY <2>1, <2>3 DEF Taken
<1>9. Reset \/ Tick => T \subseteq Taken(g)
  BY <1>5 DEF Reset, Tick
<1>10. UNCHANGED vars => T \subseteq Taken(g)
  BY <1>5 DEF vars
<1>. HIDE DEF T, g
<1>11. Cardinality(T) <= Limit(g) + Others
  <2>1. CASE \E c \in Callers : AskCorrelation(c)
    BY <1>6, <2>1
  <2>2. CASE \E c \in Callers : Recorded(c) \/ Dropped(c)
    BY <1>4, <1>7, <1>8, <2>2
  <2>3. CASE Reset \/ Tick
    BY <1>4, <1>9, <2>3
  <2>4. CASE UNCHANGED vars
    BY <1>4, <1>10, <2>4
  <2>. QED
    BY <2>1, <2>2, <2>3, <2>4, AsksAre, GateAsks DEF Next
<1>. QED
  BY <1>2, <1>11 DEF g
-----------------------------------------------------------------------------
(* The cooldown.  A power of a positive number is one: a fold of the same  *)
(* factor.                                                                 *)
Scaled == [p \in Nat \ {0} |-> [f \in Nat \ {0} |-> p * f]]

LEMMA PowerPositive ==
  ASSUME NEW x \in Nat \ {0}, NEW n \in Nat
  PROVE  Power(x, n) \in Nat \ {0}
<1>. DEFINE s == [i \in 1..n |-> x]
            k == Folding(Scaled, 1, s, n)
            Equation(f) == f = [t \in SUBSET DOMAIN s |->
              IF t = {} THEN 1 ELSE f[t \ {Max(t)}] * s[Max(t)]]
            c == CHOOSE f : Equation(f)
<1>1. DOMAIN s = 1..n /\ \A i \in 1..n : s[i] \in Nat \ {0}
  OBVIOUS
<1>2. Power(x, n) = c[DOMAIN s]
  BY DEF Power, FoldLeft, MapThenFoldSet
<1>3. \A p, f \in Nat \ {0} : Scaled[p][f] \in Nat \ {0} /\ Scaled[p][f] = p * f
  BY DEF Scaled
<1>4. IsFold(Scaled, 1, s, 1..n, k)
  BY FoldingFolds
<1>5. \A t \in SUBSET (1..n) : k[t] \in Nat \ {0}
  <2>1. 1 \in Nat \ {0}
    OBVIOUS
  <2>. HIDE DEF s
  <2>. QED
    BY <1>1, <1>3, <2>1, FoldOfTyped
<1>6. Equation(k)
  <2>. HIDE DEF k, s
  <2>1. ASSUME NEW t \in SUBSET (1..n), t # {}
        PROVE  k[t] = k[t \ {Max(t)}] * s[Max(t)]
    <3>1. Rest(t) \in SUBSET (1..n) /\ s[Max(t)] \in Nat \ {0}
      BY <1>1, <2>1, RestIsLess
    <3>2. k[t] = Scaled[k[Rest(t)]][s[Max(t)]]
      BY <1>4, <2>1 DEF IsFold
    <3>. QED
      BY <1>3, <1>5, <3>1, <3>2 DEF Rest
  <2>2. k[{}] = 1 /\ k = [t \in SUBSET (1..n) |-> k[t]]
    BY <1>4 DEF IsFold
  <2>. QED
    BY <1>1, <2>1, <2>2
<1>7. Equation(c)
  BY <1>6
<1>. HIDE DEF k, c, s
<1>8. k[{}] = c[{}]
  BY <1>1, <1>6, <1>7
<1>9. ASSUME NEW t \in SUBSET (1..n), t # {}, k[Rest(t)] = c[Rest(t)] PROVE k[t] = c[t]
  BY <1>1, <1>6, <1>7, <1>9 DEF Rest
<1>10. k[1..n] = c[1..n]
  BY <1>8, <1>9, FoldsAlike
<1>11. 1..n \in SUBSET (1..n)
  OBVIOUS
<1>. QED
  BY <1>1, <1>2, <1>5, <1>10, <1>11

Counts == [early : Nat, since : Int]

CoolInv == config.gate = "cooldown" => memory \in [Symbols -> Counts]

CoolSettings(K) ==
  /\ K.base \in Nat /\ K.after_win \in Nat /\ K.after_loss \in Nat
  /\ K.progressive \in BOOLEAN /\ K.factor \in Nat \ {0} /\ K.saturated \in Nat
  /\ K.progressive_max \in Nat /\ K.same_symbol \in Nat

LEMMA CoolSettingsOK ==
  ASSUME Typed, config.gate = "cooldown"
  PROVE  CoolSettings(config) /\ config.symbols \subseteq Symbols
BY SettingsOK DEF Typed, CoolSettings

\* An early check is counted, up to the bound.
LEMMA CountedTyped ==
  ASSUME NEW K, CoolSettings(K), NEW m \in Counts, NEW now \in Int, NEW early \in BOOLEAN
  PROVE  Counted(K, m, early, now) \in Counts
<1>. DEFINE from == IF m.since = Nothing \/ now - m.since > K.reset_after
                    THEN [early |-> 0, since |-> now] ELSE m
            one == from.early + 1
            cap == K.saturated
            up == Min({one, cap})
<1>1. from \in Counts
  BY DEF Counts
<1>2. Counted(K, m, early, now) = IF early THEN [from EXCEPT !.early = up] ELSE from
  BY DEF Counted
<1>. HIDE DEF from
<1>3. one \in Nat /\ cap \in Nat
  BY <1>1 DEF Counts, CoolSettings
<1>. HIDE DEF one, cap
<1>4. Min({one, cap}) \in {one, cap}
  BY <1>3, OfTwo
<1>5. up \in Nat
  BY <1>3, <1>4
<1>. HIDE DEF up
<1>6. [from EXCEPT !.early = up] \in Counts
  BY <1>1, <1>5 DEF Counts
<1>7. Counted(K, m, early, now) = IF early THEN [from EXCEPT !.early = up] ELSE from
  BY <1>2 DEF one, cap, up
<1>. QED
  BY <1>1, <1>6, <1>7

\* What is required lies between the base and the progressive limit.
LEMMA RequiredIs ==
  ASSUME NEW K, CoolSettings(K), NEW m, m.early \in Nat, NEW base \in Nat
  PROVE  LET need == calculate_required_cooldown(K, m, base)
         IN  /\ need \in Nat
             /\ need <= base \/ (K.progressive /\ need <= K.progressive_max)
             /\ need >= base \/ (K.progressive /\ need >= K.progressive_max)
<1>. DEFINE need == calculate_required_cooldown(K, m, base)
            p == Power(K.factor, m.early)
            grown == base * p
<1>1. p \in Nat \ {0} /\ K.progressive_max \in Nat
  BY PowerPositive DEF CoolSettings
<1>2. grown \in Nat /\ grown >= base
  <2>. HIDE DEF p
  <2>1. p = 1 + (p - 1) /\ p - 1 \in Nat
    BY <1>1
  <2>. DEFINE q == p - 1
              bq == base * q
  <2>2. grown = base + bq /\ bq \in Nat
    BY <2>1
  <2>. QED
    BY <2>2
<1>3. CASE K.progressive /\ m.early > 0
  <2>1. need = Min({grown, K.progressive_max})
    BY <1>3 DEF calculate_required_cooldown
  <2>. DEFINE cap == K.progressive_max
  <2>. HIDE DEF need, grown, p, cap
  <2>2. cap \in Nat
    BY <1>1 DEF cap
  <2>3. Min({grown, cap}) \in {grown, cap} /\ Min({grown, cap}) <= cap
    BY <1>2, <2>2, OfTwo
  <2>4. need = Min({grown, cap})
    BY <2>1 DEF cap
  <2>. QED
    BY <1>2, <1>3, <2>2, <2>3, <2>4 DEF need, cap
<1>4. CASE ~(K.progressive /\ m.early > 0)
  BY <1>4 DEF calculate_required_cooldown
<1>. QED
  BY <1>3, <1>4

\* What a check leaves behind, and how it answers an entry.
LEMMA CheckIs ==
  ASSUME Typed, CoolInv, config.gate = "cooldown", NEW s \in Symbols, NEW closing \in BOOLEAN
  PROVE  LET r == CooldownCheck(config, memory, trades, s, closing, clock)
         IN  /\ r.memory \in [Symbols -> Counts]
             /\ ~closing /\ config.base > 0 /\ Indices(trades, s) # {} =>
                  LET last == trades[Max(Indices(trades, s))]
                      base == get_cooldown_for_outcome(config, last.pnl)
                  IN  /\ base \in Nat /\ last.at \in Int
                      /\ \E need \in Nat :
                           /\ Allowed(r.answer) <=> clock - last.at >= need
                           /\ \/ need = config.same_symbol
                              \/ need <= base
                              \/ config.progressive /\ need <= config.progressive_max
                           /\ need >= config.same_symbol
                           /\ \/ need >= base
                              \/ config.progressive /\ need >= config.progressive_max
<1>. DEFINE K == config
            r == CooldownCheck(K, memory, trades, s, closing, clock)
            last == trades[Max(Indices(trades, s))]
            base == get_cooldown_for_outcome(K, last.pnl)
            m == IF K.progressive THEN Counted(K, memory[s], clock - last.at < base, clock)
                 ELSE memory[s]
            need == Max({calculate_required_cooldown(K, m, base), K.same_symbol})
<1>1. /\ CoolSettings(K) /\ memory \in [Symbols -> Counts] /\ memory[s] \in Counts
      /\ clock \in Int /\ trades \in Seq(Trade)
  BY CoolSettingsOK DEF CoolInv, Typed
<1>2. CASE K.base = 0 \/ closing \/ Indices(trades, s) = {}
  <2>1. r.memory = memory
    BY <1>2 DEF CooldownCheck, Reply
  <2>. QED
    BY <1>1, <1>2, <2>1
<1>3. CASE ~(K.base = 0 \/ closing \/ Indices(trades, s) = {})
  <2>1. r = Reply(IF clock - last.at < need THEN Block("cooldown") ELSE Allow,
                  [memory EXCEPT ![s] = m])
    BY <1>3 DEF CooldownCheck
  <2>2. last \in Trade
    <3>1. /\ IsFiniteSet(Indices(trades, s)) /\ \A i \in Indices(trades, s) : trades[i] \in Trade
      BY <1>1, IndicesAre
    <3>2. \A i \in Indices(trades, s) : i \in Int
      BY <1>1 DEF Indices
    <3>3. Max(Indices(trades, s)) \in Indices(trades, s)
      BY <1>3, <3>1, <3>2, GreatestNumber
    <3>. QED
      BY <3>1, <3>3
  <2>3. base \in Nat /\ last.at \in Int
    BY <1>1, <2>2 DEF Trade, get_cooldown_for_outcome, CoolSettings
  <2>. HIDE DEF last, base
  <2>4. m \in Counts
    <3>1. (clock - last.at < base) \in BOOLEAN
      OBVIOUS
    <3>. QED
      BY <1>1, <3>1, CountedTyped
  <2>. HIDE DEF m
  <2>. DEFINE c == calculate_required_cooldown(K, m, base)
              same == K.same_symbol
  <2>5. /\ c \in Nat
        /\ c <= base \/ (K.progressive /\ c <= K.progressive_max)
        /\ c >= base \/ (K.progressive /\ c >= K.progressive_max)
    <3>1. m.early \in Nat
      BY <2>4 DEF Counts
    <3>. HIDE DEF K
    <3>. QED
      BY <1>1, <2>3, <3>1, RequiredIs
  <2>6. same \in Nat /\ K.progressive_max \in Nat /\ need = Max({c, same})
    BY <1>1 DEF CoolSettings
  <2>. HIDE DEF c, same, need
  <2>7. need \in {c, same} /\ need >= c /\ need >= same
    <3>0. c \in Int /\ same \in Int
      BY <2>5, <2>6
    <3>1. /\ Max({c, same}) \in {c, same}
          /\ Max({c, same}) >= c /\ Max({c, same}) >= same
      BY <3>0, OfTwo
    <3>. QED
      BY <2>6, <3>1
  <2>8. Allowed(r.answer) <=> ~(clock - last.at < need)
    BY <2>1 DEF Reply, Allowed, Allow, Block, Answer
  <2>9. r.memory \in [Symbols -> Counts]
    BY <1>1, <2>1, <2>4 DEF Reply
  <2>. HIDE DEF r
  <2>10. /\ need \in Nat
         /\ Allowed(r.answer) <=> clock - last.at >= need
         /\ need = same \/ need <= base \/ (K.progressive /\ need <= K.progressive_max)
         /\ need >= same
         /\ need >= base \/ (K.progressive /\ need >= K.progressive_max)
    BY <1>1, <2>3, <2>5, <2>6, <2>7, <2>8
  <2>. QED
    BY <2>3, <2>9, <2>10 DEF r, last, base, same
<1>. QED
  BY <1>2, <1>3

LEMMA CoolStep ==
  ASSUME Typed, CoolInv, [Next]_vars
  PROVE  CoolInv'
<1>. SUFFICES ASSUME config'.gate = "cooldown" PROVE memory' \in [Symbols -> Counts]
  BY DEF CoolInv
<1>1. config' = config
  BY SettingsKept
<1>2. config.gate = "cooldown" /\ memory \in [Symbols -> Counts]
  BY <1>1 DEF CoolInv
<1>3. ASSUME NEW c \in Callers, AskCooldown(c) PROVE memory' \in [Symbols -> Counts]
  <2>1. PICK s \in config.symbols, closing \in BOOLEAN :
          memory' = CooldownCheck(config, memory, trades, s, closing, clock).memory
    BY <1>3 DEF AskCooldown, Remembers
  <2>2. s \in Symbols
    BY <1>2, CoolSettingsOK
  <2>. QED
    BY <1>2, <2>1, <2>2, CheckIs
<1>4. CASE Reset
  <2>1. PICK s \in Symbols : memory' = [memory EXCEPT ![s] = Fresh(config)[s]]
    BY <1>2, <1>4 DEF Reset
  <2>2. Fresh(config)[s] = [early |-> 0, since |-> Nothing]
    BY <1>2 DEF Fresh
  <2>3. Nothing \in Int
    BY DEF Nothing
  <2>4. Fresh(config)[s] \in Counts
    BY <2>2, <2>3 DEF Counts
  <2>. QED
    BY <1>2, <2>1, <2>4
<1>5. ASSUME NEW c \in Callers, Recorded(c) \/ Dropped(c) PROVE memory' = memory
  BY <1>5 DEF Recorded, Dropped
<1>6. CASE Tick \/ UNCHANGED vars
  BY <1>2, <1>6 DEF Tick, vars
<1>. QED
  BY <1>2, <1>3, <1>4, <1>5, <1>6, AsksAre, GateAsks DEF Next

LEMMA CoolHolds == Typed /\ CoolInv => CooldownWindow
<1>. SUFFICES ASSUME Typed, CoolInv, config.gate = "cooldown", config.base > 0,
                     NEW s \in Symbols, Indices(trades, s) # {}
     PROVE  LET last == trades[Max(Indices(trades, s))]
                base == get_cooldown_for_outcome(config, last.pnl)
                ends == {base} \cup (IF config.progressive THEN {config.progressive_max} ELSE {})
                age == clock - last.at
                blocked == ~Allowed(CooldownCheck(config, memory, trades, s, FALSE, clock).answer)
            IN  /\ blocked => age < Max(ends \cup {config.same_symbol})
                /\ ~blocked => age >= Max({Min(ends), config.same_symbol})
  BY DEF CooldownWindow
<1>. DEFINE last == trades[Max(Indices(trades, s))]
            base == get_cooldown_for_outcome(config, last.pnl)
            limit == config.progressive_max
            ends == {base} \cup (IF config.progressive THEN {limit} ELSE {})
            same == config.same_symbol
            all == ends \cup {same}
            age == clock - last.at
            blocked == ~Allowed(CooldownCheck(config, memory, trades, s, FALSE, clock).answer)
<1>1. /\ base \in Nat /\ last.at \in Int
      /\ \E need \in Nat :
           /\ ~blocked <=> age >= need
           /\ need = same \/ need <= base \/ (config.progressive /\ need <= limit)
           /\ need >= same
           /\ need >= base \/ (config.progressive /\ need >= limit)
  <2>1. FALSE \in BOOLEAN /\ ~FALSE
    OBVIOUS
  <2>. QED
    BY <2>1, CheckIs
<1>2. limit \in Nat /\ same \in Nat /\ clock \in Int
  BY CoolSettingsOK DEF CoolSettings, Typed
<1>. HIDE DEF last, base, limit, same, blocked
<1>3. age \in Int
  BY <1>1, <1>2
<1>. HIDE DEF age
<1>4. PICK need \in Nat :
           /\ ~blocked <=> age >= need
           /\ need = same \/ need <= base \/ (config.progressive /\ need <= limit)
           /\ need >= same
           /\ need >= base \/ (config.progressive /\ need >= limit)
  BY <1>1
<1>5. Max(all) \in all /\ \A k \in all : k <= Max(all)
  <2>1. IsFiniteSet(all)
    <3>1. IsFiniteSet({base})
      BY FS_Singleton
    <3>2. IsFiniteSet({base} \cup {limit})
      BY <3>1, FS_AddElement
    <3>3. IsFiniteSet(ends)
      BY <3>1, <3>2
    <3>. HIDE DEF ends
    <3>. QED
      BY <3>3, FS_AddElement
  <2>2. all # {} /\ \A k \in all : k \in Int
    BY <1>1, <1>2
  <2>. HIDE DEF all
  <2>. QED
    BY <2>1, <2>2, GreatestNumber
<1>6. Min(ends) \in ends /\ \A k \in ends : Min(ends) <= k
  <2>1. \E k \in ends : \A j \in ends : k <= j
    <3>1. CASE config.progressive /\ limit < base
      BY <1>1, <1>2, <3>1
    <3>2. CASE ~(config.progressive /\ limit < base)
      BY <1>1, <1>2, <3>2
    <3>. QED
      BY <3>1, <3>2
  <2>. HIDE DEF ends
  <2>. QED
    BY <2>1 DEF Min
<1>7. ASSUME blocked PROVE age < Max(all)
  <2>1. age < need
    BY <1>3, <1>4, <1>7
  <2>2. \E k \in all : need <= k
    BY <1>1, <1>2, <1>4
  <2>3. \A k \in all : k \in Int
    BY <1>1, <1>2
  <2>. HIDE DEF all
  <2>. QED
    BY <1>3, <1>5, <2>1, <2>2, <2>3
<1>8. ASSUME ~blocked PROVE age >= Max({Min(ends), same})
  <2>. DEFINE low == Min(ends)
  <2>1. age >= need
    BY <1>4, <1>8
  <2>2. \E k \in ends : k <= need
    BY <1>1, <1>2, <1>4
  <2>3. \A k \in ends : k \in Int
    BY <1>1, <1>2
  <2>4. low \in Int /\ low <= need
    <3>. HIDE DEF ends
    <3>. QED
      BY <1>6, <2>2, <2>3
  <2>. HIDE DEF low, ends
  <2>5. same \in Int
    BY <1>2
  <2>6. Max({low, same}) \in {low, same}
    BY <2>4, <2>5, OfTwo
  <2>. QED
    BY <1>3, <1>4, <2>1, <2>4, <2>5, <2>6 DEF low
<1>. QED
  BY <1>7, <1>8 DEF last, base, limit, same, blocked, age
-----------------------------------------------------------------------------
IInv == Typed /\ OrdersInv /\ TurnoverInv /\ LossInv /\ ExclusionInv /\ CoolInv

LEMMA InitInv ==
  ASSUME Init
  PROVE  IInv
<1>1. Typed
  BY InitTyped
<1>2. /\ trades = <<>> /\ clock = Day
      /\ \A s \in Symbols : open[s] = 0
      /\ \A c \in Callers : call[c] = Idle
  BY DEF Init
<1>3. DOMAIN trades = {} /\ \A s : Placers(s) = {} /\ ~Entering(s)
  BY <1>2 DEF Placers, Entering, Idle
<1>4. Cardinality({}) = 0 /\ Cardinality(Callers) \in Nat /\ Others = Cardinality(Callers) - 1
  BY <1>1, PlacersAre, FS_EmptySet
<1>5. OrdersInv
  <2>. SUFFICES ASSUME config.gate = "manager", NEW s \in Symbols, config.orders > 0
                PROVE  Cardinality(Recent(trades, s, clock)) + Cardinality(Placers(s))
                         <= config.orders + Others
    BY DEF OrdersInv
  <2>1. Recent(trades, s, clock) = {} /\ Placers(s) = {}
    BY <1>3 DEF Recent, Indices
  <2>2. config.orders \in Int
    BY <1>1, SettingsOK DEF Typed
  <2>3. Cardinality(Recent(trades, s, clock)) = 0 /\ Cardinality(Placers(s)) = 0
    BY <1>4, <2>1
  <2>. QED
    BY <1>4, <2>2, <2>3
<1>6. TurnoverInv
  <2>. SUFFICES ASSUME config.gate = "manager", NEW s \in Symbols, config.turnover > 0
                PROVE  daily_turnover_quote(trades, s, clock) + Cardinality(Placers(s)) * Dearest
                         <= config.turnover - 1 + Cardinality(Callers) * Dearest
    BY DEF TurnoverInv
  <2>1. OfToday(trades, s, clock) = {}
    BY <1>3 DEF OfToday, Indices
  <2>2. daily_turnover_quote(trades, s, clock) = 0
    BY <2>1, TurnoverIs, SumOfNothing
  <2>3. Dearest \in Nat /\ config.turnover \in Int
    BY <1>1, DearestIs, SettingsOK DEF Typed
  <2>. DEFINE y == Cardinality(Callers) * Dearest
  <2>4. 0 * Dearest = 0 /\ y \in Nat
    BY <1>4, <2>3
  <2>5. Cardinality(Placers(s)) * Dearest = 0
    BY <1>3, <1>4, <2>4
  <2>. HIDE DEF y
  <2>6. 0 + 0 <= config.turnover - 1 + y
    BY <2>3, <2>4
  <2>. QED
    BY <2>2, <2>5, <2>6 DEF y
<1>7. LossInv
  <2>. SUFFICES ASSUME config.gate = "daily_loss" PROVE LossInv
    BY DEF LossInv
  <2>1. memory = [start |-> -Day, mark |-> 0, realized |-> 0] /\ Day \in Nat
    BY DayOK DEF Init, Fresh
  <2>2. memory \in Metrics /\ memory.start = -Day
    BY <2>1 DEF Metrics
  <2>. QED
    BY <1>2, <2>2 DEF LossInv, Idle
<1>8. ExclusionInv
  <2>. SUFFICES ASSUME config.gate = "correlation", NEW i \in DOMAIN config.groups
                PROVE  Cardinality(Taken(config.groups[i])) <= Limit(config.groups[i]) + Others
    BY DEF ExclusionInv
  <2>1. /\ Limit(config.groups[i]) \in Nat /\ Limit(config.groups[i]) >= 1
        /\ config.groups[i].symbols \subseteq Symbols
    BY <1>1, GroupIs
  <2>2. Taken(config.groups[i]) = {}
    BY <1>2, <1>3, <2>1 DEF Taken
  <2>. QED
    BY <1>4, <2>1, <2>2
<1>9. CoolInv
  <2>. SUFFICES ASSUME config.gate = "cooldown" PROVE memory \in [Symbols -> Counts]
    BY DEF CoolInv
  <2>1. memory = [s \in Symbols |-> [early |-> 0, since |-> Nothing]]
    BY DEF Init, Fresh
  <2>2. Nothing \in Int
    BY DEF Nothing
  <2>3. [early |-> 0, since |-> Nothing] \in Counts
    BY <2>2 DEF Counts
  <2>. QED
    BY <2>1, <2>3
<1>. QED
  BY <1>1, <1>5, <1>6, <1>7, <1>8, <1>9 DEF IInv

LEMMA NextInv ==
  ASSUME IInv, [Next]_vars
  PROVE  IInv'
BY TypedInv, OrdersStep, TurnoverStep, LossStep, ExclusionStep, CoolStep DEF IInv

(* Whatever the traders do, a day's orders and its turnover pass their     *)
(* budget by no more than the others were placing: check_trade() counts    *)
(* what is recorded.                                                       *)
THEOREM BudgetsHold == Spec => []BudgetsBounded
<1>1. IInv => BudgetsBounded
  <2>. SUFFICES ASSUME IInv, config.gate = "manager", NEW s \in Symbols
                PROVE  /\ config.orders > 0 /\ "count_orders_last_minutes" \in config.repo =>
                            count_orders_last(trades, s, clock, Day) <= config.orders + Others
                       /\ config.turnover > 0 /\ "daily_turnover_quote" \in config.repo =>
                            daily_turnover_quote(trades, s, clock)
                              <= config.turnover - 1 + Cardinality(Callers) * Dearest
    BY DEF BudgetsBounded, Dearest
  <2>1. /\ Cardinality(Placers(s)) \in Nat /\ Cardinality(Callers) \in Nat /\ Others \in Int
        /\ trades \in Seq(Trade) /\ config.orders \in Int /\ config.turnover \in Int
    BY PlacersAre, SettingsOK DEF IInv, Typed
  <2>2. Cardinality(Recent(trades, s, clock)) \in Nat /\ daily_turnover_quote(trades, s, clock) \in Nat
    BY <2>1, RecentIs, TodayIs
  <2>3. ASSUME config.orders > 0, "count_orders_last_minutes" \in config.repo
        PROVE  count_orders_last(trades, s, clock, Day) <= config.orders + Others
    BY <2>1, <2>2, <2>3, CountIs DEF IInv, OrdersInv
  <2>4. ASSUME config.turnover > 0, "daily_turnover_quote" \in config.repo
        PROVE  daily_turnover_quote(trades, s, clock)
                 <= config.turnover - 1 + Cardinality(Callers) * Dearest
    <3>. DEFINE n == daily_turnover_quote(trades, s, clock)
                x == Cardinality(Placers(s)) * Dearest
                y == Cardinality(Callers) * Dearest
    <3>1. n + x <= config.turnover - 1 + y
      BY <2>4 DEF IInv, TurnoverInv
    <3>2. Dearest \in Nat
      BY DearestIs DEF IInv
    <3>3. x \in Nat /\ y \in Nat /\ n \in Nat
      BY <2>1, <2>2, <3>2
    <3>. HIDE DEF n, x, y
    <3>4. n <= config.turnover - 1 + y
      BY <2>1, <3>1, <3>3
    <3>. QED
      BY <3>4 DEF n, y
  <2>. QED
    BY <2>3, <2>4
<1>. QED
  BY InitInv, NextInv, <1>1, PTL DEF Spec

(* An entry that the daily loss rule turns away without a wait was not     *)
(* refused for another day: in this period the trades of some symbol had   *)
(* come to the limit (daily_loss.py:274-339).                              *)
THEOREM RefusalEarned == Spec => []RefusalIsEarned
<1>1. IInv => RefusalIsEarned
  <2>. SUFFICES ASSUME IInv, config.gate = "daily_loss", ~config.unrealized, config.limit > 0,
                       kept(config, memory, clock),
                       ~Allowed(DailyLossCheck(config, memory).answer)
                PROVE  \E s \in config.symbols, n \in 0..Len(trades) :
                         Figure(trades, n, s, clock) <= -config.limit
    BY DEF RefusalIsEarned, Figure
  <2>1. memory \in Metrics
    BY DEF IInv, LossInv
  <2>2. memory.realized + memory.mark <= -config.limit
    BY DEF DailyLossCheck, Reply, Allow, Block, Warn, Answer, Allowed
  <2>3. memory.realized <= -config.limit
    BY <2>1, <2>2 DEF Metrics
  <2>. QED
    BY <2>3, KeptIsOfPeriod DEF IInv
<1>. QED
  BY InitInv, NextInv, <1>1, PTL DEF Spec

(* With n traders, symbols of a group are held beyond its limit only by    *)
(* the n - 1 that asked before the first of them was recorded.             *)
THEOREM ExclusionHolds == Spec => []ExclusionBounded
<1>1. IInv => ExclusionBounded
  <2>. SUFFICES ASSUME IInv, config.gate = "correlation", config.block_on_violation,
                       NEW i \in DOMAIN config.groups
                PROVE  Cardinality({s \in config.groups[i].symbols :
                                      open[s] > 0 /\ find_group(config, s) = config.groups[i]})
                         <= Limit(config.groups[i]) + Others
    BY DEF ExclusionBounded, Limit
  <2>. DEFINE g == config.groups[i]
              held == {s \in g.symbols : open[s] > 0 /\ find_group(config, s) = g}
  <2>1. /\ Cardinality(Taken(g)) <= Limit(g) + Others /\ IsFiniteSet(Taken(g))
        /\ Cardinality(Taken(g)) \in Nat /\ Limit(g) \in Nat /\ Others \in Int
    BY GroupIs DEF IInv, ExclusionInv, Others
  <2>2. held \subseteq Taken(g)
    BY DEF Taken
  <2>. HIDE DEF g, held
  <2>3. IsFiniteSet(held) /\ Cardinality(held) <= Cardinality(Taken(g))
    BY <2>1, <2>2, FS_Subset
  <2>4. Cardinality(held) \in Nat
    BY <2>3, FS_CardinalityType
  <2>5. Cardinality(held) <= Limit(g) + Others
    BY <2>1, <2>3, <2>4
  <2>. QED
    BY <2>5 DEF g, held
<1>. QED
  BY InitInv, NextInv, <1>1, PTL DEF Spec

(* The cooldown rule blocks a symbol for no longer than the longest of its *)
(* waits and for no shorter than the shortest, the outcome of the last     *)
(* trade and the entries counted before it being what they may.            *)
THEOREM CooldownHolds == Spec => []CooldownWindow
<1>1. IInv => CooldownWindow
  BY CoolHolds DEF IInv
<1>. QED
  BY InitInv, NextInv, <1>1, PTL DEF Spec
=============================================================================
