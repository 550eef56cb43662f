--------------------------- MODULE LiquiditySweep ---------------------------
(***************************************************************************)
(* LiquiditySweepReversalStrategy.generate_signal: a candle that reaches   *)
(* beyond a support or resistance and turns back becomes a signal after    *)
(* nine tests, or none.                                                    *)
(*                                                                         *)
(* Prices and the ATR are integers, multipliers of the ATR are twentieths, *)
(* and the prices of a plan, which are such multiples or midpoints, are    *)
(* counted in fortieths.  Confidences are ten-thousandths, rounded down.   *)
(***************************************************************************)
EXTENDS Integers

CONSTANTS
    Candles,        \* low, open, close, high, volume
    Features,       \* of the regime: high (volatility), atr (-1 when absent), volume,
                    \* volatility, price, supports, resistances
    Configs,        \* what strategy_configs may hold
    DefaultStep     \* distance of generated levels without an ATR

\* The collector hands on candles as MT5 gives them.
ASSUME InputAssumption ==
    /\ DefaultStep \in Int
    /\ \A c \in Candles :
         /\ c.low \in Int /\ c.open \in Int /\ c.close \in Int /\ c.high \in Int
         /\ c.volume \in Nat
         /\ c.low <= c.open /\ c.low <= c.close /\ c.open <= c.high /\ c.close <= c.high
    /\ \A f \in Features :
         /\ f.high \in BOOLEAN /\ f.atr \in Int /\ f.volume \in Int /\ f.volatility \in Int /\ f.price \in Int
         /\ f.supports \subseteq Int /\ f.resistances \subseteq Int
    /\ \A g \in Configs :
         /\ g.mode \in {"aggressive", "moderate", "conservative"}
         /\ g.stop \in Nat /\ g.take \in Nat /\ g.ratio \in Nat /\ g.minVolatility \in Nat

VARIABLES
    stage,      \* the next test, or how the call ended
    candle, features, config,
    sweep,      \* the side that was swept, the level and the confidence
    turn,       \* confidence of the reversal
    plan        \* entry, stop and take

vars == <<stage, candle, features, config, sweep, turn, plan>>

-----------------------------------------------------------------------------

NoSweep == [side |-> "none", level |-> 0, confidence |-> 0]
NoPlan  == [entry |-> 0, stop |-> 0, take |-> 0]

Extension == 6      \* sweep_extension_atr
Tolerance == 3      \* level_tolerance_atr
MinBody   == 6      \* reversal_candle_body_atr

\* The configuration that seed_master_data writes, which is also DEFAULT_CONFIG.
Seeded == [mode |-> "aggressive", stop |-> 30, take |-> 50, ratio |-> 15,
           minVolatility |-> 50, minConfidence |-> 6500]

Abs(x) == IF x < 0 THEN -x ELSE x
Least(a, b) == IF a < b THEN a ELSE b

Body  == Abs(candle.close - candle.open)
Width == candle.high - candle.low

\* _get_atr
Atr == IF features.atr > 0 THEN features.atr ELSE Width

\* _generate_volatility_levels: three on each side, 1.5 ATR apart.
LevelStep == IF features.atr = -1 THEN DefaultStep ELSE 30 * features.atr

Generated(sign) ==
    IF features.price <= 0 \/ features.atr = 0 THEN {}
    ELSE {features.price + sign * ((i * LevelStep) \div 20) : i \in 1..3}

\* _extract_support_resistance_levels: one side missing replaces both.
Given       == features.supports # {} /\ features.resistances # {}
Supports    == IF Given THEN features.supports ELSE Generated(-1)
Resistances == IF Given THEN features.resistances ELSE Generated(1)

\* _assess_volume_quality
VolumeQuality ==
    CASE features.volume <= 0 -> 5000
      [] features.volume > 0 /\ candle.volume * 10 >= features.volume * 13 -> 9000
      [] features.volume > 0 /\ candle.volume * 10 < features.volume * 13
           /\ candle.volume * 100 >= features.volume * 91 -> 7000
      [] OTHER -> 3000

\* _assess_wick_quality: the wick is measured from the middle of the body to the
\* far end of the candle, so there is none.
WickQuality == IF Width <= 0 THEN 5000 ELSE 4500

\* _calculate_sweep_confidence, for a reach beyond the level
SweepConfidence(reach) ==
    Least(9500, 5000 + VolumeQuality \div 4 + Least(3000, (6000 * reach) \div Atr)
                     + WickQuality \div 5 + 25 * features.volatility)

Nearest(levels, price) == {l \in levels : \A k \in levels : Abs(l - price) <= Abs(k - price)}

\* Beyond the level by more than the extension, and by less than the tolerance more.
Reaches(reach) == 20 * reach > Extension * Atr /\ 20 * reach < (Extension + Tolerance) * Atr

SweptBelow == {l \in Nearest(Supports, candle.low) : Reaches(l - candle.low)}
SweptAbove == {l \in Nearest(Resistances, candle.high) : Reaches(candle.high - l)}

Init ==
    /\ stage = "validate"
    /\ candle \in Candles
    /\ features \in Features
    /\ config \in Configs
    /\ sweep = NoSweep
    /\ turn = 0
    /\ plan = NoPlan

Refuse == stage' = "refused"

\* _validate_inputs, _validate_market_regime and the levels
Validate ==
    /\ stage = "validate"
    /\ IF candle.close > 0 /\ candle.volume > 0 /\ features.high
          /\ features.volatility >= config.minVolatility
          /\ Atr > 0 /\ (Supports # {} \/ Resistances # {})
       THEN stage' = "sweep" ELSE Refuse
    /\ UNCHANGED <<candle, features, config, sweep, turn, plan>>

Below == {[side |-> "below", level |-> l, confidence |-> SweepConfidence(l - candle.low)] :
             l \in SweptBelow}
Above == {[side |-> "above", level |-> l, confidence |-> SweepConfidence(candle.high - l)] :
             l \in SweptAbove}

\* Mutant: a resistance is preferred.
AboveFirst == IF Above = {} THEN Below ELSE Above

\* A resistance is looked at only if the support leaves a confidence below 0.55.
Sweeps == IF Above = {} \/ \E s \in Below : s.confidence >= 5500 THEN Below ELSE Above

\* _detect_liquidity_sweep
DetectSweep ==
    /\ stage = "sweep"
    /\ sweep' \in (IF Sweeps = {} THEN {NoSweep} ELSE Sweeps)
    /\ IF sweep'.confidence >= 5000 THEN stage' = "reversal" ELSE Refuse
    /\ UNCHANGED <<candle, features, config, turn, plan>>

\* _assess_reversal_pattern.  Its wicks include the body on the side of the sweep.
Turns ==
    LET lower == candle.close - candle.low
        upper == candle.high - candle.close
        far   == IF sweep.side = "below" THEN lower ELSE upper
        near  == IF sweep.side = "below" THEN upper ELSE lower
        score == (IF 20 * Body > 10 * Atr THEN 3500 ELSE IF 20 * Body > 6 * Atr THEN 2500 ELSE 0)
               + (IF 10 * far > 18 * near THEN 3000 ELSE IF far > near THEN 1500 ELSE 0)
               + (IF far > near THEN 2500 ELSE IF 4 * far > Width THEN 1500 ELSE 0)
    IN  Least(9500, 5000 + score + 1000)

\* _analyze_reversal_pattern
ConfirmReversal ==
    /\ stage = "reversal"
    /\ IF /\ 20 * Body >= MinBody * Atr
          /\ sweep.side = "below" => candle.close > candle.open
          /\ sweep.side = "above" => candle.close < candle.open
       THEN turn' = Turns /\ stage' = "entry" ELSE Refuse /\ UNCHANGED turn
    /\ UNCHANGED <<candle, features, config, sweep, plan>>

\* Mutant: the aggressive entry is closer to the swept end.
OffsetHalved(mode) == CASE mode = "aggressive" -> 4 [] OTHER -> 16

\* Distance of the entry from the swept end, in fortieths of the ATR.
Offset(mode) == CASE mode = "aggressive" -> 8 [] OTHER -> 16

\* _calculate_entry_exit
Entry(end) ==
    IF config.mode = "conservative" THEN 20 * (end + candle.close)
    ELSE IF sweep.side = "below" THEN 40 * end + Offset(config.mode) * Atr
         ELSE 40 * end - Offset(config.mode) * Atr

Planned ==
    IF sweep.side = "below"
    THEN [entry |-> Entry(candle.low), stop |-> 40 * candle.low - 2 * config.stop * Atr,
          take |-> Entry(candle.low) + 2 * config.take * Atr]
    ELSE [entry |-> Entry(candle.high), stop |-> 40 * candle.high + 2 * config.stop * Atr,
          take |-> Entry(candle.high) - 2 * config.take * Atr]

Encloses(p) ==
    /\ p.entry > 0 /\ p.stop > 0 /\ p.take > 0
    /\ sweep.side = "below" => p.stop < p.entry /\ p.entry < p.take
    /\ sweep.side = "above" => p.take < p.entry /\ p.entry < p.stop

CalculateEntry ==
    /\ stage = "entry"
    /\ plan' = Planned
    /\ IF Encloses(Planned) THEN stage' = "decide" ELSE Refuse
    /\ UNCHANGED <<candle, features, config, sweep, turn>>

Risk   == Abs(plan.entry - plan.stop)
Reward == Abs(plan.take - plan.entry)

\* _calculate_signal_confidence
Confidence == (35 * sweep.confidence + 40 * turn + 25 * VolumeQuality) \div 100

\* _validate_risk_reward, the confidence and _perform_safety_checks, whose count
\* of losses nothing raises.
Decide ==
    /\ stage = "decide"
    /\ IF Risk > 0 /\ Reward > 0 /\ 10 * Reward >= config.ratio * Risk
          /\ Confidence >= config.minConfidence
       THEN stage' = "signal" ELSE Refuse
    /\ UNCHANGED <<candle, features, config, sweep, turn, plan>>

Next == Validate \/ DetectSweep \/ ConfirmReversal \/ CalculateEntry \/ Decide

Spec == Init /\ [][Next]_vars
-----------------------------------------------------------------------------
\* Properties

\* _create_signal: a sweep below is bought.
Direction == IF sweep.side = "below" THEN "BUY" ELSE "SELL"

\* With the seeded configuration the strategy never signals: the aggressive entry
\* and its stop are 1.7 ATR apart and the target 2.5, less than the ratio of 1.5
\* that the same configuration asks for.
SilentAsSeeded == config = Seeded => stage # "signal"

\* With any other, a signal trades back from a level its candle swept, prefers the
\* support if both sides were swept, keeps the ratio, and puts the stop beyond
\* the swept end; the entry, unless moderate, lies within the candle.
SignalsSound ==
    stage = "signal" =>
        /\ 10 * Reward >= config.ratio * Risk
        /\ Direction = "BUY" =>
             /\ SweptBelow # {} /\ candle.open < candle.close
             /\ plan.stop <= 40 * candle.low /\ 40 * candle.low <= plan.entry
             /\ config.mode # "moderate" => plan.entry <= 40 * candle.close
        /\ Direction = "SELL" =>
             /\ SweptBelow = {} /\ SweptAbove # {} /\ candle.close < candle.open
             /\ 40 * candle.high <= plan.stop /\ plan.entry <= 40 * candle.high
             /\ config.mode # "moderate" => 40 * candle.close <= plan.entry

=============================================================================
