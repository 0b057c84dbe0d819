----------------------------- MODULE Strategies -----------------------------
(***************************************************************************)
(* core/domain/strategies: what each strategy says of a history of bars,   *)
(* and how StrategyManager makes one decision of what they say.  Prices    *)
(* are integers and an average is kept as the sum it is a share of, so     *)
(* that every comparison is exact; a square root is compared by squares.   *)
(* A bar is [h, l, c, v]: high, low, close and volume.                     *)
(***************************************************************************)
EXTENDS Integers, Sequences, FiniteSets, FiniteSetsExt, SequencesExt

Closes(bars) == [i \in DOMAIN bars |-> bars[i].c]
Recent(s, n) == SubSeq(s, Len(s) - n + 1, Len(s))
Total(s) == FoldSeq(LAMBDA x, sum : x + sum, 0, s)
Size(x) == IF x < 0 THEN -x ELSE x
Square(x) == x * x
\* n^2 times the variance of the n values of s.
Spread(s) == Len(s) * Total([i \in DOMAIN s |-> Square(s[i])]) - Square(Total(s))
Side(buy, sell) == IF buy THEN "buy" ELSE IF sell THEN "sell" ELSE "hold"
-----------------------------------------------------------------------------
(* The indicators.                                                         *)
TrueRange(bars, i) ==
  Max({bars[i].h - bars[i].l, Size(bars[i].h - bars[i - 1].c), Size(bars[i].l - bars[i - 1].c)})
\* period times the average true range.
AtrSum(bars, period) ==
  IF Len(bars) < Max({2, period + 1}) THEN 0
  ELSE Total([i \in 1..period |-> TrueRange(bars, Len(bars) - period + i)])

\* The exponential average of the last n values: ema times (period + 1)^(n - 1).
EmaOf(s, period) ==
  LET ema[n \in 1..Len(s)] ==
        IF n = 1 THEN s[1] ELSE 2 * s[n] * (period + 1)^(n - 2) + (period - 1) * ema[n - 1]
  IN  ema

\* The average of EmaCross: a plain one of the first slow prices, and from
\* then on exponential; times period * (period + 1)^(n - slow).
CrossEma(s, period, slow) ==
  LET ema[n \in slow..Len(s)] ==
        IF n = slow THEN Total(SubSeq(s, slow - period + 1, slow))
        ELSE 2 * period * s[n] * (period + 1)^(n - slow - 1) + (period - 1) * ema[n - 1]
  IN  ema[Len(s)]
-----------------------------------------------------------------------------
(* The strategies; cfg holds the periods and the thresholds of each.       *)
ema_cross(cfg, bars) ==
  LET s == Closes(bars)
      k == Len(s) - cfg.slow
      fast == CrossEma(s, cfg.fast, cfg.slow) * cfg.slow * (cfg.slow + 1)^k * 1000
      slow == CrossEma(s, cfg.slow, cfg.slow) * cfg.fast * (cfg.fast + 1)^k
  IN  IF k < 0 THEN "hold"
      ELSE Side(fast > slow * (1000 + cfg.threshold), fast < slow * (1000 - cfg.threshold))

ema_atr(cfg, bars) ==
  LET s == Closes(bars)
      n == Len(s)
      es == EmaOf(s, cfg.short)
      el == EmaOf(s, cfg.long)
      above == es[n] * (cfg.long + 1)^(n - 1) - el[n] * (cfg.short + 1)^(n - 1)
      slope == es[n] - (cfg.short + 1) * es[n - 1]
  IN  IF \/ n < Max({cfg.long, cfg.atr}) + 2
         \/ AtrSum(bars, cfg.atr) * 100 > cfg.atr_max * Last(s) * cfg.atr
      THEN "hold" ELSE Side(above > 0 /\ slope >= 0, above < 0)

donchian(cfg, bars) ==
  LET before == Recent(Front(bars), cfg.channel)
      close == Last(bars).c
  IN  IF \/ Len(bars) < Max({cfg.channel, cfg.atr}) + 1
         \/ AtrSum(bars, cfg.atr) * 1000 < cfg.atr_min * close * cfg.atr
      THEN "hold"
      ELSE Side(close > Max({b.h : b \in Range(before)}), close < Min({b.l : b \in Range(before)}))

\* The relative strength is 100 * gains / (gains + losses), and 100 without a loss.
rsi_momentum(cfg, bars) ==
  LET s == Closes(bars)
      w == Recent(s, Max({cfg.rsi, cfg.momentum}) + 1)
      gains == Total([i \in 1..Len(w) - 1 |-> Max({0, w[i + 1] - w[i]})])
      losses == Total([i \in 1..Len(w) - 1 |-> Max({0, w[i] - w[i + 1]})])
      moved == Last(w) - w[Len(w) - cfg.momentum]
  IN  IF Len(s) <= Max({cfg.rsi, cfg.momentum}) THEN "hold"
      ELSE Side(losses > 0 /\ 100 * gains < 30 * (gains + losses) /\ moved > 0,
                (losses = 0 \/ 100 * gains > 70 * (gains + losses)) /\ moved < 0)

\* Slip: only the lower band is looked at.
BollingerLower(cfg, bars) ==
  LET w == Recent(Closes(bars), cfg.period)
      off == Len(w) * Last(w) - Total(w)
  IN  IF Len(bars) < cfg.period THEN "hold" ELSE Side(off < 0 /\ Square(off) >= Square(cfg.std) * Spread(w), FALSE)
bollinger(cfg, bars) ==
  LET w == Recent(Closes(bars), cfg.period)
      off == Len(w) * Last(w) - Total(w)           \* of the last price from the average
      wide == Square(off) >= Square(cfg.std) * Spread(w)
  IN  IF \/ Len(bars) < cfg.period
         \/ 4 * Square(cfg.std) * Spread(w) * 1000000 < Square(cfg.squeeze * Total(w))
      THEN "hold" ELSE Side(off <= 0 /\ wide, off >= 0 /\ wide)

keltner_squeeze(cfg, bars) ==
  LET w == Recent(Closes(bars), cfg.ema)
      n == Len(bars)
      off == Len(w) * Last(w) - Total(w)
      outside == Square(off) > Square(cfg.std) * Spread(w)
      above == Last(w) * (cfg.ema + 1)^(n - 1) - EmaOf(Closes(bars), cfg.ema)[n]
      squeezed == 100 * Square(cfg.std * cfg.atr) * Spread(w)
                    < Square(cfg.mult * AtrSum(bars, cfg.atr) * cfg.ema)
  IN  IF n < cfg.ema + cfg.spare \/ ~squeezed THEN "hold"
      ELSE Side(outside /\ off > 0 /\ above > 0, outside /\ off < 0 /\ above < 0)

\* In sixtieths of a per cent: exact for the ranges up to six.
StochK(bars, i, period) ==
  LET w == SubSeq(bars, i - period + 1, i)
      hi == Max({b.h : b \in Range(w)})
      lo == Min({b.l : b \in Range(w)})
  IN  IF hi = lo THEN 3000 ELSE ((bars[i].c - lo) * 6000) \div (hi - lo)

\* The share of the smaller of the upward and the downward moves that is trend.
DirectionalIndexAtLeast(bars, period, least) ==
  LET move(i) == [up |-> bars[i].h - bars[i - 1].h, down |-> bars[i - 1].l - bars[i].l]
      recent == (Len(bars) - period + 1)..Len(bars)
      plus == MapThenSumSet(LAMBDA i : IF move(i).up > Max({move(i).down, 0}) THEN move(i).up ELSE 0, recent)
      minus == MapThenSumSet(LAMBDA i : IF move(i).down > Max({move(i).up, 0}) THEN move(i).down ELSE 0, recent)
  IN  \/ plus + minus > 0 /\ 100 * Size(plus - minus) >= least * (plus + minus)
      \/ least = 0

stochastic_adx(cfg, bars) ==
  LET n == Len(bars)
      k == StochK(bars, n, cfg.k)
      dSum == Total([j \in 1..cfg.d |-> StochK(bars, n - cfg.d + j, cfg.k)])
  IN  IF n < cfg.k + cfg.d + cfg.adx \/ ~DirectionalIndexAtLeast(bars, cfg.adx, cfg.adx_min) THEN "hold"
      ELSE Side(k * cfg.d > dSum /\ k < 2400, k * cfg.d < dSum /\ k > 3600)

\* The price the volume was traded at; the plain average when there is none.
vwap_reversion(cfg, bars) ==
  LET w == Recent(bars, cfg.window)
      s == Closes(w)
      volume == Total([i \in DOMAIN w |-> w[i].v])
      num == IF volume = 0 THEN Total(s)
             ELSE Total([i \in DOMAIN w |-> (w[i].h + w[i].l + w[i].c) * w[i].v])
      den == IF volume = 0 THEN Len(w) ELSE 3 * volume
      off == Last(s) * den - num
      far == Spread(s) # 0 /\ Square(off * Len(w)) >= Square(cfg.z_enter * den) * Spread(s)
  IN  IF Len(bars) < cfg.window THEN "hold" ELSE Side(off < 0 /\ far, off > 0 /\ far)

\* basic_lower is worked out from the close it is compared with: above it
\* whenever the bars moved at all, and a market at rest keeps the last trend.
supertrend(cfg, bars) ==
  LET trend[n \in 0..Len(bars)] ==
        CASE n < cfg.atr + cfg.spare -> "hold"
          [] n >= cfg.atr + cfg.spare /\ AtrSum(SubSeq(bars, 1, n), cfg.atr) * cfg.mult > 0 -> "buy"
          [] OTHER -> trend[n - 1]
  IN  trend[Len(bars)]
-----------------------------------------------------------------------------
(* StrategyManager.decide(): opinions are the answers [name, action, conf] *)
(* in the order of STRATEGY_SET, conf in hundredths.                       *)
Confident(wcfg, opinions) == SelectSeq(opinions, LAMBDA o : o.conf >= wcfg.min_confidence)
Count(opinions, a) == Len(SelectSeq(opinions, LAMBDA o : o.action = a))
Score(wcfg, opinions, a) ==
  Total([i \in DOMAIN opinions |->
           IF opinions[i].action # a THEN 0
           ELSE opinions[i].conf * (IF opinions[i].name \in DOMAIN wcfg.weights
                                    THEN wcfg.weights[opinions[i].name] ELSE 1)])

decide(wcfg, opinions) ==
  LET sure == Confident(wcfg, opinions)
      acting == SelectSeq(sure, LAMBDA o : o.action # "hold")
      buys == IF wcfg.mode = "vote" THEN Count(sure, "buy") ELSE Score(wcfg, sure, "buy")
      sells == IF wcfg.mode = "vote" THEN Count(sure, "sell") ELSE Score(wcfg, sure, "sell")
  IN  IF wcfg.mode = "first" THEN (IF acting = <<>> THEN "hold" ELSE acting[1].action)
      ELSE Side(buys > sells, sells > buys)
=============================================================================
