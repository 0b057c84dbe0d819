---------------------------- MODULE RiskManager ----------------------------
(***************************************************************************)
(* core/domain/risk/manager.py: the rules of RiskManager and the order in  *)
(* which check_trade() asks them.  The manager keeps nothing but the       *)
(* spread provider of an earlier call; what it answers is worked out from  *)
(* the trades a repository can tell of.  A repository is the set of the    *)
(* protocol's methods it has: an absent one raises, and the rule lets pass.*)
(***************************************************************************)
EXTENDS Integers, Sequences, FiniteSets, FiniteSetsExt

CONSTANT Day     \* ticks of a day

ASSUME DayOK == Day \in Nat \ {0}

\* The methods of the protocol, and those the repository in storage/ has.
Protocol == {"get_loss_streak", "calculate_drawdown_pct", "get_daily_pnl",
             "count_orders_last_minutes", "daily_turnover_quote", "get_last_trade_time"}
Shipped == {"count_orders_last_minutes", "daily_turnover_quote"}
-----------------------------------------------------------------------------
(* What the repository tells of the trades with symbol s at time now.      *)
Today(now) == now \div Day
Indices(trades, s) == {i \in DOMAIN trades : trades[i].sym = s}
Total(trades, idx, value(_)) == SumFunctionOnSet([i \in DOMAIN trades |-> value(trades[i])], idx)
Pnl(t) == t.pnl
Cost(t) == t.cost

count_orders_last(trades, s, now, window) ==
  Cardinality({i \in Indices(trades, s) : trades[i].at > now - window})
daily_turnover_quote(trades, s, now) ==
  Total(trades, {i \in Indices(trades, s) : Today(trades[i].at) = Today(now)}, Cost)
get_daily_pnl(trades, s, now) ==
  Total(trades, {i \in Indices(trades, s) : Today(trades[i].at) = Today(now)}, Pnl)
get_loss_streak(trades, s) ==
  LET won == {i \in Indices(trades, s) : trades[i].pnl >= 0}
  IN  Cardinality({i \in Indices(trades, s) : \A j \in won : j < i})
Equity(trades, s, i) == Total(trades, {j \in Indices(trades, s) : j <= i}, Pnl)
\* In per cent of what the account began with.
calculate_drawdown(trades, s, capital) ==
  LET curve == {Equity(trades, s, i) : i \in Indices(trades, s) \cup {0}}
  IN  ((Max(curve) - Equity(trades, s, Len(trades))) * 100) \div capital
get_last_trade_time(trades, s) == Max({trades[i].at : i \in Indices(trades, s)})
-----------------------------------------------------------------------------
(* The rules that may block.  A limit of zero switches a rule off.         *)
\* Slip: the streak has to pass its limit.
LossStreakPassed(L, trades, s, now) ==
  L.loss_streak > 0 /\ get_loss_streak(trades, s) > L.loss_streak
LossStreakRule(L, trades, s, now) ==
  L.loss_streak > 0 /\ get_loss_streak(trades, s) >= L.loss_streak
MaxDrawdownRule(L, trades, s, now) ==
  L.max_drawdown > 0 /\ calculate_drawdown(trades, s, L.capital) >= L.max_drawdown
DailyLossRule(L, trades, s, now) ==
  L.daily_loss > 0 /\ get_daily_pnl(trades, s, now) < -L.daily_loss
\* Slip: the number of orders has to pass its limit.
BudgetPassed(L, trades, s, now) ==
  L.orders > 0 /\ count_orders_last(trades, s, now, Day) > L.orders
BudgetOrdersRule(L, trades, s, now) ==
  L.orders > 0 /\ count_orders_last(trades, s, now, Day) >= L.orders
BudgetTurnoverRule(L, trades, s, now) ==
  L.turnover > 0 /\ daily_turnover_quote(trades, s, now) >= L.turnover

\* In the order in which check_trade() asks them.
critical_rules == <<"loss_streak", "max_drawdown", "daily_loss", "budget_orders", "budget_turnover">>
Blocks(rule, L, repo, trades, s, now) ==
  \/ rule = "loss_streak" /\ "get_loss_streak" \in repo /\ LossStreakRule(L, trades, s, now)
  \/ rule = "max_drawdown" /\ "calculate_drawdown_pct" \in repo /\ MaxDrawdownRule(L, trades, s, now)
  \/ rule = "daily_loss" /\ "get_daily_pnl" \in repo /\ DailyLossRule(L, trades, s, now)
  \/ rule = "budget_orders" /\ "count_orders_last_minutes" \in repo /\ BudgetOrdersRule(L, trades, s, now)
  \/ rule = "budget_turnover" /\ "daily_turnover_quote" \in repo /\ BudgetTurnoverRule(L, trades, s, now)
blocking_rules(L, repo, trades, s, now) ==
  {i \in DOMAIN critical_rules : Blocks(critical_rules[i], L, repo, trades, s, now)}

(* The rules that may reduce, in per cent; the correlation rule only warns,*)
(* and check_trade() takes no notice of that.                              *)
CooldownRule(L, repo, trades, s, now) ==
  IF /\ L.cooldown > 0 /\ "get_last_trade_time" \in repo /\ Indices(trades, s) # {}
     /\ now - get_last_trade_time(trades, s) < L.cooldown
  THEN 100 ELSE 0
\* provider: the spread in per cent that it tells, or -1 when there is none.
SpreadCapRule(L, provider) ==
  IF provider >= 0 /\ L.spread > 0 /\ provider > L.spread
  THEN Min({75, (100 * (provider - L.spread)) \div L.spread}) ELSE 0

NoProvider == -1
Answer(action, rule, cut) == [action |-> action, rule |-> rule, cut |-> cut]

\* The five-minute rules warn in the log and change nothing.
check_trade(L, repo, provider, trades, s, now) ==
  LET blocks == blocking_rules(L, repo, trades, s, now)
      cut == Max({CooldownRule(L, repo, trades, s, now), SpreadCapRule(L, provider)})
  IN  IF blocks # {} THEN Answer("block", critical_rules[Min(blocks)], 0)
      ELSE IF cut > 0 THEN Answer("reduce", "spread_cap", cut)
      ELSE Answer("allow", "none", 0)

\* What execute() makes of an answer: only a block stops it.
Allowed(answer) == answer.action # "block"
=============================================================================
