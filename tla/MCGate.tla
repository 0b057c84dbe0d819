------------------------------- MODULE MCGate -------------------------------
(* Instances of Gate, Strategies and Signals for TLC. *)
EXTENDS Prudence, TLC

\* Small changes either way, an announcement of the same day, and the largest
\* changes the scores distinguish.
MCReadings ==
  {Reading(-1, -1, [NothingAnnounced EXCEPT !.today = TRUE]), Reading(-100, -100, NothingAnnounced),
   Reading(100, 100, [NothingAnnounced EXCEPT !.until = 4])}

Policy(detector, off, neutral, exits, reduce, factor, emit) ==
  [detector |-> detector, off |-> off, neutral |-> neutral, exits |-> exits, reduce |-> reduce,
   factor |-> factor, emit |-> emit]
MCPolicies ==
  {Policy(FALSE, TRUE, TRUE, TRUE, TRUE, 50, TRUE), Policy(TRUE, TRUE, TRUE, TRUE, TRUE, 50, TRUE),
   Policy(TRUE, TRUE, FALSE, FALSE, TRUE, 150, FALSE)}

Opinion(name, action, conf) == [name |-> name, action |-> action, conf |-> conf]
MCWeighting == [mode |-> "weighted", min_confidence |-> 50, weights |-> [ema_atr |-> 2, rsi |-> 1]]
MCOpinions == {<<Opinion("ema_atr", "buy", 60), Opinion("rsi", "sell", 70)>>,
               <<Opinion("ema_atr", "hold", 0), Opinion("rsi", "sell", 70)>>,
               <<Opinion("ema_atr", "buy", 40), Opinion("rsi", "hold", 0)>>}

CallerSymmetry == Permutations(Callers)
-----------------------------------------------------------------------------
(* Histories of bars: of every shape, and longer ones that did not move    *)
(* within a bar.                                                           *)
Bars == {b \in [h : 1..3, l : 1..3, c : 1..3, v : {1}] : b.l <= b.c /\ b.c <= b.h}
Flat == {b \in [h : 1..5, l : 1..5, c : 1..5, v : 0..1] : b.l = b.c /\ b.c = b.h /\ b.v = b.c % 2}
Histories == UNION {[1..n -> Bars] : n \in 1..4}
FlatHistories == [1..5 -> Flat]
Mirror(bars, top) ==
  [i \in DOMAIN bars |-> [h |-> top - bars[i].l, l |-> top - bars[i].h, c |-> top - bars[i].c, v |-> bars[i].v]]
Opposite(action) == CASE action = "buy" -> "sell" [] action = "sell" -> "buy" [] OTHER -> action
Mirrored(strategy(_, _), cfg, histories, top) ==
  \A bars \in histories : strategy(cfg, Mirror(bars, top)) = Opposite(strategy(cfg, bars))
Rising == {bars \in FlatHistories : \A i \in 1..4 : bars[i].c < bars[i + 1].c}

EmaAtr == [short |-> 1, long |-> 3, atr |-> 2, atr_max |-> 1000]
Cross == [fast |-> 1, slow |-> 2, threshold |-> 0]
Channel == [channel |-> 2, atr |-> 1, atr_min |-> 0]
Band == [period |-> 3, std |-> 1, squeeze |-> 1]
Squeeze == [ema |-> 3, std |-> 1, atr |-> 2, mult |-> 15, spare |-> 1]
Stochastic == [k |-> 2, d |-> 2, adx |-> 1, adx_min |-> 0]

AnswersMirror ==
  /\ Mirrored(ema_cross, Cross, Histories, 4)
  /\ Mirrored(donchian, Channel, Histories, 4)
  /\ Mirrored(bollinger, Band, Histories, 4)
  /\ Mirrored(keltner_squeeze, Squeeze, Histories, 4)
  /\ Mirrored(vwap_reversion, [window |-> 3, z_enter |-> 1], FlatHistories, 6)
  /\ Mirrored(rsi_momentum, [rsi |-> 3, momentum |-> 1], FlatHistories, 6)
  /\ Mirrored(stochastic_adx, Stochastic, FlatHistories, 6)
  /\ \A bars \in Rising :
       /\ "sell" \notin {ema_cross(Cross, bars), ema_atr(EmaAtr, bars), donchian(Channel, bars),
                         supertrend([atr |-> 1, mult |-> 3, spare |-> 3], bars)}
       /\ "buy" \notin {bollinger(Band, bars), vwap_reversion([window |-> 3, z_enter |-> 1], bars)}
Said == [1..2 -> [name : {"ema_atr", "rsi"}, action : {"buy", "sell", "hold"}, conf : {40, 60}]]
SomebodyDecided ==
  \A mode \in {"first", "vote", "weighted"}, said \in Said, least \in {0, 50} :
    LET side == decide([mode |-> mode, min_confidence |-> least, weights |-> [ema_atr |-> 2]], said)
        behind(a) == {i \in DOMAIN said : said[i].action = a /\ said[i].conf >= least}
    IN  side # "hold" =>
          /\ behind(side) # {}
          /\ mode = "vote" => Cardinality(behind(side)) > Cardinality(behind(Opposite(side)))
(* A strategy that is the same for both sides answers a market seen upside *)
(* down with the opposite side: no window, sign or comparison differs      *)
(* between its buys and its sales.  In a market that only rises no         *)
(* follower of trends sells, and no reverter to a mean buys.  And what is  *)
(* decided some strategy that is sure enough asked for: for a vote, more   *)
(* of those than asked for the other side (strategy_manager.py: decide).   *)
SidesAreMeant == AtRest => AnswersMirror /\ SomebodyDecided

-----------------------------------------------------------------------------
(* The configured thresholds rise as the regime gets worse, but for the    *)
(* second one, which does not.                                             *)
MCFusions ==
  {[technical |-> 65, ai |-> 35, abstain_low |-> 4500, abstain_high |-> 5500, min_technical |-> 4000,
    min_ai |-> 3000, adaptive |-> TRUE, factor |-> 2, threshold |-> thresholds] :
     thresholds \in {[risk_on |-> 5500, risk_small |-> 6000, neutral |-> 6500, risk_off |-> 7000],
                    [risk_on |-> 8000, risk_small |-> 4000, neutral |-> 4000, risk_off |-> 5000]}}
MCScores == {100 * n : n \in {0, 35, 40, 50, 55, 58, 60, 65, 70, 75, 80, 100}}
MCVolatilities == {0, 10, 20, 60}
MCChanges == {-100, -1, 0, 1, 2, 150}
MCAnnouncements == [today : BOOLEAN, until : {2, 8, 100}, since : {2, 100}]
MCConditions == [vol : {None, 3, 10, 30}, cpu : {None, 10, 90}, errors : {None, 20}, trades : {None, 0, 5, 20}]
MCOverrides == {0, 1, 45, 50, 1000000}
MCFrames == 1..3
MCWeightings == [MCFrames -> 0..2]
MCTrends == [MCFrames -> {-100, 100}]
=============================================================================
