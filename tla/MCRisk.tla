------------------------------- MODULE MCRisk -------------------------------
(* Instances of Risk for TLC. *)
EXTENDS Risk, TLC

CONSTANTS s1, s2, s3

Win == [pnl |-> 2, cost |-> 2, fee |-> 0]
Loss == [pnl |-> -2, cost |-> 2, fee |-> 1]

Manager(repo) ==
  [gate |-> "manager", trades |-> {Win, Loss}, symbols |-> {s1}, repo |-> repo, capital |-> 10, loss_streak |-> 2, max_drawdown |-> 90,
   daily_loss |-> 2, orders |-> 1, turnover |-> 4, cooldown |-> 1, spread |-> 2]

\* A base cooldown below the progressive limit, and one above it.
Cooldown(base, max, same, progressive) ==
  [gate |-> "cooldown", trades |-> {Win, Loss}, symbols |-> {s1}, base |-> base, after_win |-> 1, after_loss |-> base,
   progressive |-> progressive, factor |-> 2, progressive_max |-> max,
   reset_after |-> 3, same_symbol |-> same, saturated |-> 3]

DailyLoss(symbols, kinds, hour, unrealized) ==
  [gate |-> "daily_loss", trades |-> kinds, symbols |-> symbols, limit |-> 2, fees |-> TRUE, unrealized |-> unrealized,
   reset_hour |-> hour]

Drawdown(daily) ==
  [gate |-> "max_drawdown", trades |-> {Win, Loss}, symbols |-> {s1}, limit |-> 50, unrealized |-> TRUE, reset_daily |-> daily]

Streak == [gate |-> "loss_streak", trades |-> {Win, Loss}, symbols |-> {s1}, limit |-> 3, max_loss |-> 3, per_loss |-> 25]

Group(symbols, anti, max, cut) ==
  [symbols |-> symbols, anti |-> anti, max |-> max, cut |-> cut]
Correlation(groups) ==
  [gate |-> "correlation", trades |-> {Win}, symbols |-> {s1, s2, s3}, groups |-> groups, block_on_violation |-> TRUE,
   balance |-> 4, max_exposure |-> 50]

SpreadCap(type) == [gate |-> "spread_cap", trades |-> {Win}, symbols |-> {s1}, type |-> type, entry |-> 2, exit |-> 3]

MCSettings ==
  {Manager({}), Manager(Shipped), Manager(Protocol),
   Cooldown(1, 3, 0, TRUE), Cooldown(3, 2, 0, TRUE), Cooldown(2, 1, 3, FALSE),
   DailyLoss({s1, s2}, {Loss}, 0, FALSE), DailyLoss({s1}, {Win, Loss}, 1, FALSE),
   DailyLoss({s1}, {Loss}, 1, TRUE),
   Drawdown(TRUE), Drawdown(FALSE), Streak,
   Correlation(<<Group({s1, s2, s3}, TRUE, 0, 0)>>),
   Correlation(<<Group({s1, s2}, FALSE, 2, 50), Group({s2, s3}, TRUE, 0, 0)>>),
   SpreadCap("percentage"), SpreadCap("bps"), SpreadCap("absolute")}

Unwired == {Manager({})}

DailyLimit == {DailyLoss({s1}, {Win, Loss}, 0, FALSE)}

MCMarks == {{}, {-1}}
MCSpreads == {1, 3}
CallerSymmetry == Permutations(Callers)
MCSymbols == {s1, s2, s3}
=============================================================================
