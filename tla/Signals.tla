------------------------------ MODULE Signals ------------------------------
(***************************************************************************)
(* What is worked out around a strategy's answer: the regime of the macro  *)
(* data (core/domain/macro/types.py), the fusion of a technical and an AI  *)
(* score and the weights of the timeframes (core/domain/signals), and how  *)
(* often the processes turn (core/application/policies/intervals.py).      *)
(***************************************************************************)
EXTENDS Integers, Sequences, FiniteSets, FiniteSetsExt

None == -1
Clamp(x, lo, hi) == Max({lo, Min({x, hi})})
-----------------------------------------------------------------------------
(* macro/types.py; scores in ten thousandths, changes in per cent.  A      *)
(* reading has the fields that were told, and fomc: [today, until, since]. *)
Regimes == <<"risk_off", "neutral", "risk_small", "risk_on">>
from_score(score) ==
  IF score > 0 THEN (IF score > 5000 THEN "risk_on" ELSE "risk_small")
  ELSE IF score >= -5000 THEN "neutral" ELSE "risk_off"
allows_entry(regime) == regime \in {"risk_on", "risk_small"}

FomcScore(f) ==
  CASE f.today -> -3000
    [] ~f.today /\ f.until \in 0..8 -> -375 * (8 - f.until)
    [] ~f.today /\ f.until \notin 0..8 /\ f.since \in 0..4 -> -375 * (4 - f.since)
    [] OTHER -> 0
calculate_score(reading) ==
  MapThenSumSet(LAMBDA k : 35 * Clamp(-reading[k], -100, 100), {"dxy", "dom"} \cap DOMAIN reading)
    + (IF "fomc" \in DOMAIN reading THEN FomcScore(reading.fomc) ELSE 0)
resolve_state(reading) == from_score(Clamp(calculate_score(reading), -10000, 10000))
-----------------------------------------------------------------------------
(* fusion.py; scores and thresholds in hundredths of a point, volatility   *)
(* in tenths.  A score or a volatility of None was not told.               *)
FusionConfigOK(cfg) ==
  /\ cfg.technical + cfg.ai \in 99..101
  /\ \A v \in Range(cfg.threshold)
              \cup {cfg.abstain_low, cfg.abstain_high, cfg.min_technical, cfg.min_ai} :
       v \in Int /\ 0 <= v /\ v <= 10000
  /\ cfg.abstain_low < cfg.abstain_high /\ cfg.factor \in 0..10

\* Slip: the threshold is lowered without a floor.
AdaptUnbounded(cfg, threshold, vol) == IF vol > 10 THEN threshold - 100 * (vol - 10) * cfg.factor ELSE threshold
adapt_threshold(cfg, threshold, vol) ==
  CASE cfg.adaptive /\ vol > 10 -> Max({5000, threshold - Min({500, 10 * (vol - 10) * cfg.factor})})
    [] cfg.adaptive /\ vol # None /\ vol < 5 -> Min({8000, threshold + Min({500, 10 * (5 - vol) * cfg.factor})})
    [] OTHER -> threshold

Abstains(cfg, ai) == ai # None /\ cfg.abstain_low <= ai /\ ai <= cfg.abstain_high
Heard(cfg, ai) == IF ai = None \/ Abstains(cfg, Clamp(ai, 0, 10000)) THEN None ELSE Clamp(ai, 0, 10000)
Threshold(cfg, ai, regime, vol) ==
  LET base == adapt_threshold(cfg, cfg.threshold[regime], vol)
      strict == IF ai # None /\ Heard(cfg, ai) = None THEN Min({10000, base + 1000}) ELSE base
  IN  IF Heard(cfg, ai) = None THEN Min({10000, strict + 500}) ELSE strict
Combined(cfg, technical, ai) ==
  IF ai = None THEN technical ELSE (technical * cfg.technical + ai * cfg.ai) \div 100

check_signal(cfg, technical, ai, threshold, regime) ==
  /\ technical >= cfg.min_technical
  /\ ai = None \/ ai >= cfg.min_ai
  /\ regime # "neutral"
  /\ Combined(cfg, technical, ai) >= threshold
\* In thousandths.
confidence(technical, ai, combined, threshold) ==
  LET excess == combined - threshold
      sides == Cardinality({s \in {<<"t", technical>>, <<"a", ai>>} : s[2] > 6000})
  IN  CASE excess < 0 -> 0
        [] excess >= 0 /\ ai = None -> Min({1000, 500 + excess \div 4})
        [] excess >= 0 /\ ai # None /\ sides = 2 -> Min({1000, 600 + excess \div 3})
        [] excess >= 0 /\ ai # None /\ sides = 1 -> Min({800, 400 + excess \div 4})
        [] OTHER -> 300

fuse_signals(cfg, technical, ai, regime, vol) ==
  LET t == Clamp(technical, 0, 10000)
      a == Heard(cfg, ai)
      thr == Threshold(cfg, ai, regime, vol)
  IN  [passed |-> check_signal(cfg, t, a, thr, regime),
       threshold |-> thr,
       confidence |-> confidence(t, a, Combined(cfg, t, a), thr)]

parse_regime_string(name) ==
  CASE name \in {"risk_on", "bull"} -> "risk_on"
    [] name \in {"risk_small", "small", "light"} -> "risk_small"
    [] name \in {"risk_off", "bear"} -> "risk_off"
    [] OTHER -> "neutral"
pass_thresholds(cfg, technical, ai, name) ==
  fuse_signals(cfg, technical, ai, parse_regime_string(name), None).passed
-----------------------------------------------------------------------------
(* timeframes.py; the weights of the timeframes as shares of their total.  *)
WeightOf(w) == MapThenSumSet(LAMBDA tf : w[tf], DOMAIN w)
normalized(w) == IF WeightOf(w) = 0 THEN [tf \in DOMAIN w |-> 1] ELSE w
\* The average times WeightOf(w); a timeframe without a value counts as zero.
weighted_average(w, values) == MapThenSumSet(LAMBDA tf : w[tf] * values[tf], DOMAIN w \cap DOMAIN values)
\* factor in per cent: what is taken of a weight is given out by volatility.
calculate_weights(w, factor, atr) ==
  IF WeightOf(atr) <= 0 THEN w
  ELSE [tf \in DOMAIN w |-> w[tf] * (100 - factor) * WeightOf(atr) + atr[tf] * factor * WeightOf(w)]
\* trend: of -100 to 100 each; a weight changes by up to a half.
calculate_trend_aligned_weights(w, trend) ==
  normalized([tf \in DOMAIN w |->
    Min({200 * WeightOf(w), w[tf] * (200 + Clamp(IF tf \in DOMAIN trend THEN trend[tf] ELSE 0, -100, 100))})])
-----------------------------------------------------------------------------
(* intervals.py, in seconds; an interval is [default, min, max, adaptive]. *)
Interval(default, min, max, adaptive) ==
  [default |-> default, min |-> min, max |-> max, adaptive |-> adaptive]
ProcessIntervals ==
  [orchestrator_cycle |-> Interval(15, 5, 60, TRUE), signal_generation |-> Interval(15, 5, 300, TRUE),
   protective_exits_check |-> Interval(5, 1, 30, FALSE), risk_counters_reset |-> Interval(86400, 3600, 604800, FALSE),
   reconciliation |-> Interval(60, 30, 300, TRUE), settlement |-> Interval(30, 10, 120, TRUE),
   health_check |-> Interval(10, 5, 60, FALSE), watchdog |-> Interval(3, 1, 10, FALSE),
   metrics_collection |-> Interval(15, 5, 60, TRUE), ticker_update |-> Interval(5, 1, 30, TRUE),
   ohlcv_fetch |-> Interval(60, 15, 300, TRUE), regime_update |-> Interval(300, 60, 3600, TRUE),
   database_backup |-> Interval(86400, 3600, 604800, FALSE), log_rotation |-> Interval(86400, 3600, 604800, FALSE),
   cleanup |-> Interval(3600, 600, 86400, FALSE)]

\* The environment before the settings before the default; within the bounds.
get_value(interval, env, settings) ==
  LET given == IF env # None THEN env ELSE IF settings # None THEN settings ELSE interval.default
  IN  IF interval.min <= interval.max THEN Clamp(given, interval.min, interval.max)
      ELSE Clamp(given, interval.max, interval.min)

\* The factors in tenths; a later condition overrides an earlier one.
adjustments(cond) ==
  LET trades == IF cond.trades = None THEN {}
                ELSE IF cond.trades < 1 THEN {<<"settlement", 20>>, <<"reconciliation", 15>>}
                ELSE IF cond.trades > 10 THEN {<<"settlement", 5>>, <<"reconciliation", 7>>} ELSE {}
      errors == IF cond.errors > 10 THEN {<<"orchestrator_cycle", 20>>, <<"reconciliation", 5>>} ELSE {}
      cpu == IF cond.cpu > 80 THEN {<<"metrics_collection", 20>>, <<"ohlcv_fetch", 15>>}
             ELSE IF cond.cpu # None /\ cond.cpu < 20 THEN {<<"metrics_collection", 8>>} ELSE {}
      vol == IF cond.vol > 20 THEN {<<"signal_generation", 5>>, <<"ticker_update", 5>>, <<"protective_exits_check", 7>>}
             ELSE IF cond.vol # None /\ cond.vol < 5 THEN {<<"signal_generation", 15>>, <<"ticker_update", 20>>} ELSE {}
      overridden == {f \in errors : \E g \in trades : g[1] = f[1]}
  IN  vol \cup cpu \cup (errors \ overridden) \cup trades

\* To the nearest integer, and to the even one of two as near.
Rounded(num, den) ==
  LET down == num \div den
      twice == 2 * (num % den)
  IN  IF twice > den \/ (twice = den /\ down % 2 = 1) THEN down + 1 ELSE down
get_adjusted_interval(name, cond, env, settings) ==
  LET interval == ProcessIntervals[name]
      base == get_value(interval, env, settings)
      factors == {f[2] : f \in {g \in adjustments(cond) : g[1] = name}}
      factor == CHOOSE f \in factors : TRUE
  IN  IF ~interval.adaptive \/ factors = {} THEN base
      ELSE Clamp(Rounded(base * factor, 10), interval.min, interval.max)
=============================================================================
