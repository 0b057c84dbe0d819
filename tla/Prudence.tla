------------------------------ MODULE Prudence ------------------------------
(***************************************************************************)
(* What the times are like makes the program careful, and within bounds:   *)
(* what holds of the formulas of Signals, whatever is configured, scored   *)
(* and measured.                                                           *)
(***************************************************************************)
EXTENDS Gate

CONSTANTS
  Fusions,        \* configurations of FusionFilter
  Scores,         \* of a signal, the technical and the AI's
  Volatilities,
  Changes,        \* of the dollar and of bitcoin's share, in per cent
  Announcements,  \* what may be known of the Fed's
  Conditions,     \* of market and machine: what the intervals adapt to
  Overrides,      \* an interval in the environment or the settings
  Frames,         \* the timeframes
  Weightings,     \* of the timeframes
  Ranges,         \* average true ranges of the timeframes
  Trends,         \* of the timeframes, of -100 to 100
  Factors,        \* of the volatility on the weights, in per cent
  Values          \* of what is averaged over the timeframes

ASSUME PrudenceOK ==
  /\ \A cfg \in Fusions :
       /\ FusionConfigOK(cfg) /\ Range(Regimes) \subseteq DOMAIN cfg.threshold
       /\ cfg.technical \in Int /\ cfg.ai \in Int /\ cfg.adaptive \in BOOLEAN
  /\ Scores \subseteq Int /\ Volatilities \subseteq Int /\ Changes \subseteq Int /\ Overrides \subseteq Int
  /\ Announcements \subseteq [today : BOOLEAN, until : Int, since : Int]
  /\ \A cond \in Conditions : {cond.vol, cond.cpu, cond.errors, cond.trades} \subseteq Nat \cup {None}
  /\ IsFiniteSet(Frames) /\ Factors \subseteq Int /\ Values \subseteq Int
  /\ \A w \in Weightings \cup Ranges : DOMAIN w = Frames /\ \A tf \in Frames : w[tf] \in Nat
  /\ \A trend \in Trends : DOMAIN trend = Frames /\ \A tf \in Frames : trend[tf] \in Int
-----------------------------------------------------------------------------
Better(regime, other) ==
  \E i, j \in 1..4 : j < i /\ Regimes[i] = regime /\ Regimes[j] = other
Reading(dxy, dom, fomc) == [dxy |-> dxy, dom |-> dom, fomc |-> fomc]
NothingAnnounced == [today |-> FALSE, until |-> 100, since |-> 100]

PassesAreOrdered ==
  \A cfg \in Fusions, t \in Scores, a \in Scores \cup {None}, vol \in Volatilities \cup {None} :
    LET fused(regime) == fuse_signals(cfg, t, a, regime, vol)
    IN  /\ \A regime, other \in Range(Regimes) :
             regime # "neutral" /\ cfg.threshold[regime] <= cfg.threshold[other] /\ fused(other).passed =>
               fused(regime).passed
        /\ \A regime \in Range(Regimes) :
             /\ fused(regime).passed => fused(regime).confidence > 0
             /\ cfg.threshold[regime] >= 5000 => fused(regime).threshold >= 5000
        /\ ~pass_thresholds(cfg, t, a, "a regime nobody knows")
RegimesAreOrdered ==
  \A x, y, z \in Changes, fomc \in Announcements :
    LET regime == resolve_state(Reading(x, y, fomc))
    IN  /\ x <= z => ~Better(resolve_state(Reading(z, y, fomc)), regime)
        /\ y <= z => ~Better(resolve_state(Reading(x, z, fomc)), regime)
        /\ ~Better(regime, resolve_state(Reading(x, y, NothingAnnounced)))
TurnsInBounds ==
  \A name \in DOMAIN ProcessIntervals, cond \in Conditions, env, settings \in Overrides \cup {None} :
    LET interval == ProcessIntervals[name]
        adjusted == get_adjusted_interval(name, cond, env, settings)
        configured == get_value(interval, env, settings)
    IN  /\ adjusted \in interval.min..interval.max
        /\ ~interval.adaptive => adjusted = configured
        /\ name = "reconciliation" /\ cond.errors > 10 /\ cond.trades # 0 => adjusted <= configured
WeightsAreShares ==
  /\ \A w \in Weightings, factor \in Factors, atr \in Ranges :
       WeightOf(atr) > 0 =>
         WeightOf(calculate_weights(w, factor, atr)) = 100 * WeightOf(w) * WeightOf(atr)
  /\ \A w \in Weightings, trend \in Trends, values \in [Frames -> Values] :
       LET aligned == calculate_trend_aligned_weights(w, trend)
       IN  /\ \A least \in Values : (\A tf \in Frames : least <= values[tf]) =>
                least * WeightOf(aligned) <= weighted_average(aligned, values)
           /\ \A most \in Values : (\A tf \in Frames : values[tf] <= most) =>
                weighted_average(aligned, values) <= most * WeightOf(aligned)
           /\ \A i, j \in Frames : w[i] = w[j] /\ trend[i] <= trend[j] => aligned[i] <= aligned[j]
-----------------------------------------------------------------------------
\* These are about constants: each is worked out once, and stated of the states in
\* which nobody trades yet.
AtRest == \A c \in Callers : caller[c] = Idle

(* A regime never stops a signal that passes under one with as high a      *)
(* threshold, at any volatility and with or without the AI, but for the    *)
(* neutral one; worse data never makes a better regime; whatever is        *)
(* configured and measured, a process turns within its bounds, one that is *)
(* critical as often as configured, and with errors the reconciliation is  *)
(* not slowed down unless nobody trades; and weights adapted to volatility *)
(* still are shares of one whole, and those adapted to trends never prefer *)
(* the weaker of two alike.  A regime nobody knows lets nothing pass.      *)
WorseIsStricter ==
  AtRest => PassesAreOrdered /\ RegimesAreOrdered /\ TurnsInBounds /\ WeightsAreShares
=============================================================================
