----------------------------- MODULE RiskRules -----------------------------
(***************************************************************************)
(* core/domain/risk/rules/*.py: the rules as objects of their own, with    *)
(* what they remember between checks.  Each check gives an answer of       *)
(* RiskManager and the memory it leaves.  The repositories are ones that   *)
(* have the methods a rule tries first (get_last_trade, get_by_date_range, *)
(* list_today, list_open).  Figures that only go into logs are left out.   *)
(***************************************************************************)
EXTENDS RiskManager, SequencesExt

Reply(answer, memory) == [answer |-> answer, memory |-> memory]
Allow == Answer("allow", "none", 0)
Block(rule) == Answer("block", rule, 0)
Warn(rule) == Answer("warn", rule, 0)
Nothing == -1     \* no entry in a dictionary
-----------------------------------------------------------------------------
(* cooldown.py.  The memory holds, per symbol, how often it was asked too  *)
(* early and since when it counts.  A trade that failed is none here.      *)
get_cooldown_for_outcome(K, pnl) ==
  IF pnl > 0 THEN K.after_win ELSE IF pnl < 0 THEN K.after_loss ELSE K.base

\* Start a new window when the old one is stale, then count an early check.
Counted(K, m, early, now) ==
  LET stale == m.since = Nothing \/ now - m.since > K.reset_after
      from == IF stale THEN [early |-> 0, since |-> now] ELSE m
  IN  IF early THEN [from EXCEPT !.early = Min({@ + 1, K.saturated})] ELSE from

Power(x, n) == FoldLeft(LAMBDA p, f : p * f, 1, [i \in 1..n |-> x])

\* Slip: the progressive limit is left out.
UnlimitedCooldown(K, m, base) ==
  IF K.progressive /\ m.early > 0 THEN base * Power(K.factor, m.early) ELSE base
calculate_required_cooldown(K, m, base) ==
  IF K.progressive /\ m.early > 0
  THEN Min({base * Power(K.factor, m.early), K.progressive_max}) ELSE base

CooldownCheck(K, memory, trades, s, closing, now) ==
  IF K.base = 0 \/ closing \/ Indices(trades, s) = {} THEN Reply(Allow, memory)
  ELSE LET last == trades[Max(Indices(trades, s))]
           base == get_cooldown_for_outcome(K, last.pnl)
           m == IF K.progressive THEN Counted(K, memory[s], now - last.at < base, now)
                ELSE memory[s]
           required == Max({calculate_required_cooldown(K, m, base), K.same_symbol})
       IN  Reply(IF now - last.at < required THEN Block("cooldown") ELSE Allow,
                 [memory EXCEPT ![s] = m])
-----------------------------------------------------------------------------
(* daily_loss.py.  The memory is the figure of the first check of a period;*)
(* it does not say for which symbol it was worked out.  mark: what the     *)
(* open position would bring, in a set, empty if the caller has not told.  *)
period_start(K, now) ==
  LET reset == Day * Today(now) + K.reset_hour
  IN  IF now >= reset THEN reset ELSE reset - Day
\* The repository is asked by date: the period's first day counts in full.
period_trades(K, trades, s, now) ==
  {i \in Indices(trades, s) : Today(trades[i].at) \in
                                Today(period_start(K, now))..Today(now)}
realized_pnl(K, trades, s, now) ==
  Total(trades, period_trades(K, trades, s, now), LAMBDA t : t.pnl - (IF K.fees THEN t.fee ELSE 0))
Marked(K, mark, otherwise) == IF K.unrealized /\ mark # {} THEN Max(mark) ELSE otherwise

\* Slip: what is kept is good for every period.
kept_ever(K, memory, now) == memory.start >= 0
(* The figure kept is of the period, and answers without a wait.           *)
kept(K, memory, now) == memory.start = period_start(K, now)
refreshed(K, memory, mark) == [memory EXCEPT !.mark = Marked(K, mark, @)]
(* The figure worked out from trades that were asked for at time now.      *)
calculate_daily_metrics(K, trades, s, mark, now) ==
  [start |-> period_start(K, now), mark |-> mark,
   realized |-> realized_pnl(K, trades, s, now)]

DailyLossCheck(K, m) ==
  LET pnl == m.realized + m.mark
  IN  Reply(IF pnl <= -K.limit THEN Block("daily_loss")
            ELSE IF 10 * pnl <= -8 * K.limit THEN Warn("daily_loss") ELSE Allow, m)
-----------------------------------------------------------------------------
(* max_drawdown.py.  The memory is the highest peak seen per symbol, kept  *)
(* only where reset_daily is off.  The curve begins with the first trade   *)
(* of the day, and without a profit on it there is no drawdown.            *)
equity_curve(trades, idx) ==
  [i \in idx |-> Total(trades, {j \in idx : j <= i}, Pnl)]
MaxDrawdownCheck(K, memory, trades, s, mark, now) ==
  LET idx == {i \in Indices(trades, s) : Today(trades[i].at) = Today(now)}
      curve == equity_curve(trades, idx)
      current == curve[Max(idx)] + Marked(K, mark, 0)
      highest == Max({curve[i] : i \in idx})
      peak == IF K.reset_daily THEN highest ELSE Max({highest, memory[s]})
      pct == IF peak > 0 THEN Max({0, (100 * (peak - current)) \div peak}) ELSE 0
  IN  IF K.limit = 0 \/ idx = {} THEN Reply(Allow, memory)
      ELSE Reply(IF pct >= K.limit THEN Block("max_drawdown")
                 ELSE IF 10 * pct >= 8 * K.limit THEN Warn("max_drawdown") ELSE Allow,
                 IF K.reset_daily THEN memory ELSE [memory EXCEPT ![s] = peak])
-----------------------------------------------------------------------------
(* loss_streak.py, the advanced rule on top of the plain one: the streak   *)
(* and the day's result come with the call.                                *)
LossStreakCheck(K, streak) ==
  IF K.limit = 0 THEN Allow
  ELSE IF streak >= K.limit THEN Block("loss_streak")
  ELSE IF streak = K.limit - 1 THEN Warn("loss_streak") ELSE Allow
AdvancedLossStreakCheck(K, trades, s, now) ==
  LET streak == get_loss_streak(trades, s)
      plain == LossStreakCheck(K, streak)
      pnl == get_daily_pnl(trades, s, now)
  IN  IF plain.action = "block" THEN plain
      ELSE IF K.max_loss > 0 /\ pnl < 0 /\ -pnl >= K.max_loss THEN Block("loss_streak")
      ELSE IF streak \in 1..(K.limit - 1)
           THEN Answer("reduce", "loss_streak", Min({90, K.per_loss * streak}))
      ELSE plain
-----------------------------------------------------------------------------
(* correlation.py.  open: what is held, per symbol; groups: in the order   *)
(* they are configured, of which a symbol obeys the first it is in.        *)
GroupsOf(K, s) == {i \in DOMAIN K.groups : s \in K.groups[i].symbols}
find_group(K, s) == K.groups[Min(GroupsOf(K, s))]
\* Slip: the first group is skipped.
AnyGroupButFirst(K, open, s) ==
  UNION {{o \in K.groups[i].symbols \ {s} : open[o] > 0} : i \in {j \in DOMAIN K.groups : j > 1}}
correlated_positions(K, open, s) ==
  IF GroupsOf(K, s) = {} THEN {}
  ELSE {o \in find_group(K, s).symbols \ {s} : open[o] > 0}
Violation(K) == IF K.block_on_violation THEN Block("correlation") ELSE Warn("correlation")
max_positions(g) == IF g.anti THEN Max({0, g.max}) ELSE Max({1, g.max})
Exposure(K, open, s, size) == size + SumFunctionOnSet(open, correlated_positions(K, open, s))

CorrelationCheck(K, open, s, closing, size) ==
  LET others == correlated_positions(K, open, s)
      g == find_group(K, s)
  IN  IF K.groups = <<>> \/ closing THEN Allow
      ELSE IF others # {} /\ (g.anti \/ Cardinality(others) >= max_positions(g)) THEN Violation(K)
      ELSE IF others # {} /\ g.cut > 0 THEN Answer("reduce", "correlation", g.cut)
      ELSE IF K.balance > 0 /\ 100 * Exposure(K, open, s, size) > K.max_exposure * K.balance
      THEN Block("correlation") ELSE Allow
-----------------------------------------------------------------------------
(* spread_cap.py.  quoted: what the provider tells, ticker: the spread     *)
(* and mid price of the broker's ticker; Nothing when there is none.  The  *)
(* history of spreads is kept, and "volatile" found, but no limit uses it. *)
limit_for_operation(K, closing) == IF closing THEN K.exit ELSE K.entry
spread_metrics(K, quoted, ticker) ==
  IF quoted # Nothing /\ K.type # "absolute" THEN quoted * (IF K.type = "bps" THEN 1 ELSE 100)
  ELSE IF ticker.mid > 0 THEN (10000 * ticker.spread) \div ticker.mid ELSE Nothing
\* In basis points; an absolute limit needs a mid price, and only the
\* broker's path works one out.
effective_limit(K, closing, ticker) ==
  CASE K.type = "percentage" -> 100 * limit_for_operation(K, closing)
    [] K.type = "bps" -> limit_for_operation(K, closing)
    [] K.type = "absolute" /\ ticker.mid > 0 ->
         (10000 * limit_for_operation(K, closing)) \div ticker.mid
    [] OTHER -> Nothing

SpreadCapCheck(K, closing, emergency, quoted, ticker) ==
  LET bps == spread_metrics(K, quoted, ticker)
      limit == effective_limit(K, closing, ticker)
  IN  IF emergency \/ bps = Nothing \/ limit = Nothing THEN Allow
      ELSE IF bps >= limit THEN Block("spread_cap")
      ELSE IF 10 * bps >= 8 * limit THEN Warn("spread_cap") ELSE Allow
=============================================================================
