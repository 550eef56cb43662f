------------------------ MODULE LiquiditySweep_proofs ------------------------
(***************************************************************************)
(* Proofs about LiquiditySweep, for all candles, features and              *)
(* configurations.                                                         *)
(***************************************************************************)
EXTENDS LiquiditySweep, TLAPS

\* What a call has established when it reaches a stage.
Inputs == candle \in Candles /\ features \in Features /\ config \in Configs

Validated ==
    stage \notin {"validate", "refused"} => Atr > 0 /\ features.volatility >= config.minVolatility

Swept == stage \in {"reversal", "entry", "decide", "signal"} => sweep \in Sweeps

Turned ==
    stage \in {"entry", "decide", "signal"} =>
        /\ 20 * Body >= MinBody * Atr
        /\ sweep.side = "below" => candle.close > candle.open
        /\ sweep.side = "above" => candle.close < candle.open

PlanMade == stage \in {"decide", "signal"} => plan = Planned

Rewarded == stage = "signal" => 10 * Reward >= config.ratio * Risk

IInv == Inputs /\ Validated /\ Swept /\ Turned /\ PlanMade /\ Rewarded

-----------------------------------------------------------------------------

\* The numbers behind the inputs.
LEMMA InputTypes ==
    ASSUME Inputs
    PROVE  /\ candle.low \in Int /\ candle.open \in Int /\ candle.close \in Int
           /\ candle.high \in Int /\ candle.volume \in Nat
           /\ candle.low <= candle.open /\ candle.low <= candle.close
           /\ candle.open <= candle.high /\ candle.close <= candle.high
           /\ features.volatility \in Int /\ features.volume \in Int
           /\ config.stop \in Nat /\ config.take \in Nat /\ config.ratio \in Nat
           /\ config.minVolatility \in Nat
           /\ config.mode \in {"aggressive", "moderate", "conservative"}
           /\ Atr \in Int
BY InputAssumption DEF Inputs, Atr, Width

\* The scores are so generous that a swept support always has a confidence above
\* 0.55: a resistance is then not looked at.
LEMMA SupportsAreStrong ==
    ASSUME Inputs, Atr > 0, features.volatility >= config.minVolatility, NEW s \in Below
    PROVE  s.confidence >= 5500
<1>1. PICK l \in SweptBelow : s.confidence = SweepConfidence(l - candle.low)
  BY DEF Below
<1>2. l \in Int /\ Atr \in Int
  <2>1. l \in Supports
    BY DEF SweptBelow, Nearest
  <2>2. Supports \subseteq Int
    BY InputAssumption DEF Inputs, Supports, Generated, LevelStep
  <2> QED
    BY <2>1, <2>2, InputTypes
<1> DEFINE reach == l - candle.low
           ext == (6000 * reach) \div Atr
<1>3. reach \in Int /\ reach > 0
  BY <1>2, InputTypes DEF SweptBelow, Reaches, Extension
<1>4. ext \in Int /\ ext >= 0
  BY <1>2, <1>3
<1>5. VolumeQuality \in {9000, 7000, 5000, 3000}
  BY DEF VolumeQuality
<1>6. VolumeQuality \div 4 >= 750 /\ VolumeQuality \div 4 \in Int
  BY <1>5
<1>7. WickQuality \div 5 \in {900, 1000}
  BY DEF WickQuality
<1>8. Least(3000, ext) \in Int /\ Least(3000, ext) >= 0
  BY <1>4 DEF Least
<1>9. SweepConfidence(reach) >= 5500
  BY <1>6, <1>7, <1>8, InputTypes DEF SweepConfidence, Least
<1> QED
  BY <1>1, <1>9

\* What a sweep is, given that supports come first.
LEMMA SweepSides ==
    ASSUME Inputs, Atr > 0, features.volatility >= config.minVolatility, sweep \in Sweeps
    PROVE  \/ sweep.side = "below" /\ SweptBelow # {}
           \/ sweep.side = "above" /\ SweptAbove # {} /\ SweptBelow = {}
<1>1. CASE Below = {}
  <2>1. SweptBelow = {}
    BY <1>1 DEF Below
  <2>2. sweep \in Above
    BY <1>1 DEF Sweeps
  <2> QED
    BY <2>1, <2>2 DEF Above
<1>2. CASE Below # {}
  <2>1. \E s \in Below : s.confidence >= 5500
    BY <1>2, SupportsAreStrong
  <2> QED
    BY <2>1 DEF Sweeps, Below
<1> QED
  BY <1>1, <1>2

\* How far the stop and the target of a plan are from its entry.
LEMMA PlanDistances ==
    ASSUME Inputs, Atr > 0, plan = Planned
    PROVE  /\ config.stop * Atr \in Int /\ config.stop * Atr >= 0
           /\ sweep.side = "below" =>
                /\ plan.entry = Entry(candle.low)
                /\ plan.stop = 40 * candle.low - 2 * (config.stop * Atr)
           /\ sweep.side # "below" =>
                /\ plan.entry = Entry(candle.high)
                /\ plan.stop = 40 * candle.high + 2 * (config.stop * Atr)
<1>1. config.stop * Atr \in Int /\ config.stop * Atr >= 0
  BY InputTypes
<1>2. 2 * config.stop * Atr = 2 * (config.stop * Atr)
  BY InputTypes
<1> QED
  BY <1>1, <1>2 DEF Planned

THEOREM SweepInvariance == Spec => []IInv
<1>1. Init => IInv
  BY DEF Init, IInv, Inputs, Validated, Swept, Turned, PlanMade, Rewarded
<1>2. IInv /\ [Next]_vars => IInv'
  <2> SUFFICES ASSUME IInv, [Next]_vars PROVE IInv'
    OBVIOUS
  <2>1. Inputs' /\ UNCHANGED <<candle, features, config>>
    BY DEF IInv, Inputs, Next, Validate, DetectSweep, ConfirmReversal, CalculateEntry, Decide, vars
  <2>2. UNCHANGED <<Atr, Supports, Resistances, SweptBelow, SweptAbove, Below, Above, Sweeps, Body>>
    BY <2>1 DEF Atr, Width, Supports, Resistances, Given, Generated, LevelStep, SweptBelow,
       SweptAbove, Nearest, Reaches, Below, Above, SweepConfidence, VolumeQuality, WickQuality,
       Sweeps, Body
  <2>3. Validated'
    BY <2>1, <2>2 DEF IInv, Validated, Next, Validate, DetectSweep, ConfirmReversal,
       CalculateEntry, Decide, Refuse, vars
  <2>4. Swept'
    <3>1. CASE DetectSweep
      <4>1. \/ stage' = "refused"
            \/ sweep'.confidence >= 5000 /\ sweep' \in (IF Sweeps = {} THEN {NoSweep} ELSE Sweeps)
        BY <3>1 DEF DetectSweep, Refuse
      <4>2. ~(NoSweep.confidence >= 5000)
        BY DEF NoSweep
      <4>3. stage' = "refused" \/ sweep' \in Sweeps
        BY <4>1, <4>2
      <4> QED
        BY <2>2, <4>3 DEF Swept
    <3>2. CASE ~DetectSweep
      BY <2>2, <3>2 DEF IInv, Swept, Next, Validate, ConfirmReversal, CalculateEntry, Decide,
         Refuse, vars
    <3> QED
      BY <3>1, <3>2
  <2>5. Turned'
    BY <2>1, <2>2 DEF IInv, Turned, Next, Validate, DetectSweep, ConfirmReversal, CalculateEntry,
       Decide, Refuse, vars
  <2>6. PlanMade'
    <3>1. UNCHANGED sweep => Planned' = Planned
      BY <2>1, <2>2 DEF Planned, Entry, Offset
    <3> QED
      BY <3>1 DEF IInv, PlanMade, Next, Validate, DetectSweep, ConfirmReversal, CalculateEntry,
         Decide, Refuse, vars
  <2>7. Rewarded'
    <3>1. UNCHANGED plan => UNCHANGED <<Risk, Reward>>
      BY DEF Risk, Reward
    <3> QED
      BY <2>1, <3>1 DEF IInv, Rewarded, Next, Validate, DetectSweep, ConfirmReversal,
         CalculateEntry, Decide, Refuse, vars
  <2> QED
    BY <2>1, <2>3, <2>4, <2>5, <2>6, <2>7 DEF IInv
<1> QED
  BY <1>1, <1>2, PTL DEF Spec

\* The seeded configuration never signals, whatever the candles and the regime:
\* its entry, stop and target contradict its ratio.
THEOREM SeededIsSilent == Spec => []SilentAsSeeded
<1>1. IInv => SilentAsSeeded
  <2> SUFFICES ASSUME IInv, config = Seeded, stage = "signal" PROVE FALSE
    BY DEF SilentAsSeeded
  <2>1. Inputs /\ Atr > 0 /\ plan = Planned /\ 10 * Reward >= 15 * Risk
    BY DEF IInv, Validated, PlanMade, Rewarded, Seeded
  <2>2. /\ candle.low \in Int /\ candle.high \in Int /\ candle.close \in Int /\ Atr \in Int
    BY <2>1, InputTypes
  <2>3. config.mode = "aggressive" /\ config.stop = 30 /\ config.take = 50
    BY DEF Seeded
  <2>4. CASE sweep.side = "below"
    <3>1. /\ plan.entry = 40 * candle.low + 8 * Atr
          /\ plan.stop = 40 * candle.low - 60 * Atr
          /\ plan.take = 40 * candle.low + 108 * Atr
      BY <2>1, <2>2, <2>3, <2>4 DEF Planned, Entry, Offset
    <3>2. Risk = 68 * Atr /\ Reward = 100 * Atr
      BY <2>1, <2>2, <3>1 DEF Risk, Reward, Abs
    <3> QED
      BY <2>1, <2>2, <3>2
  <2>5. CASE sweep.side # "below"
    <3>1. /\ plan.entry = 40 * candle.high - 8 * Atr
          /\ plan.stop = 40 * candle.high + 60 * Atr
          /\ plan.take = 40 * candle.high - 108 * Atr
      BY <2>1, <2>2, <2>3, <2>5 DEF Planned, Entry, Offset
    <3>2. Risk = 68 * Atr /\ Reward = 100 * Atr
      BY <2>1, <2>2, <3>1 DEF Risk, Reward, Abs
    <3> QED
      BY <2>1, <2>2, <3>2
  <2> QED
    BY <2>4, <2>5
<1> QED
  BY <1>1, SweepInvariance, PTL

\* Any other configuration signals only back from a swept level, with the ratio
\* kept and the stop beyond the candle.
THEOREM SignalsAreSound == Spec => []SignalsSound
<1>1. IInv => SignalsSound
  <2> SUFFICES ASSUME IInv, stage = "signal" PROVE SignalsSound
    BY DEF SignalsSound
  <2>1. /\ Inputs /\ Atr > 0 /\ features.volatility >= config.minVolatility
        /\ sweep \in Sweeps /\ plan = Planned
        /\ 20 * Body >= MinBody * Atr
        /\ sweep.side = "below" => candle.close > candle.open
        /\ sweep.side = "above" => candle.close < candle.open
        /\ 10 * Reward >= config.ratio * Risk
    BY DEF IInv, Validated, Swept, Turned, PlanMade, Rewarded
  <2>2. \/ sweep.side = "below" /\ SweptBelow # {}
        \/ sweep.side = "above" /\ SweptAbove # {} /\ SweptBelow = {}
    BY <2>1, SweepSides
  <2>3. /\ candle.low \in Int /\ candle.open \in Int /\ candle.close \in Int /\ candle.high \in Int
        /\ candle.low <= candle.open /\ candle.low <= candle.close
        /\ candle.open <= candle.high /\ candle.close <= candle.high /\ Atr \in Int
        /\ config.mode \in {"aggressive", "moderate", "conservative"}
    BY <2>1, InputTypes
  <2>4. Offset(config.mode) \in {8, 16} /\ (config.mode = "aggressive" <=> Offset(config.mode) = 8)
    BY DEF Offset
  <2>5. CASE sweep.side = "below"
    <3>1. /\ plan.stop <= 40 * candle.low /\ plan.entry = Entry(candle.low)
      BY <2>1, <2>3, <2>5, PlanDistances
    <3>2. 20 * (candle.close - candle.open) >= 6 * Atr /\ candle.close > candle.open
      BY <2>1, <2>3, <2>5 DEF Body, Abs, MinBody
    <3> DEFINE m == config.mode
    <3>3. CASE m = "conservative"
      <4>1. Entry(candle.low) = 20 * (candle.low + candle.close)
        BY <3>3 DEF Entry
      <4> QED
        BY <2>1, <2>2, <2>3, <2>5, <3>1, <3>2, <4>1 DEF SignalsSound, Direction
    <3>4. CASE m # "conservative"
      <4>1. Entry(candle.low) = 40 * candle.low + Offset(m) * Atr
        BY <2>5, <3>4 DEF Entry
      <4>2. 40 * candle.low <= Entry(candle.low)
        BY <2>1, <2>3, <2>4, <4>1
      <4>3. m = "aggressive" => Entry(candle.low) <= 40 * candle.close
        BY <2>1, <2>3, <2>4, <3>2, <4>1
      <4> QED
        BY <2>1, <2>2, <2>3, <2>5, <3>1, <3>2, <3>4, <4>2, <4>3 DEF SignalsSound, Direction
    <3> QED
      BY <3>3, <3>4
  <2>6. CASE sweep.side = "above"
    <3>1. /\ 40 * candle.high <= plan.stop /\ plan.entry = Entry(candle.high)
      BY <2>1, <2>3, <2>6, PlanDistances
    <3>2. 20 * (candle.open - candle.close) >= 6 * Atr /\ candle.close < candle.open
      BY <2>1, <2>3, <2>6 DEF Body, Abs, MinBody
    <3> DEFINE m == config.mode
    <3>3. CASE m = "conservative"
      <4>1. Entry(candle.high) = 20 * (candle.high + candle.close)
        BY <3>3 DEF Entry
      <4> QED
        BY <2>1, <2>2, <2>3, <2>6, <3>1, <3>2, <4>1 DEF SignalsSound, Direction
    <3>4. CASE m # "conservative"
      <4>1. Entry(candle.high) = 40 * candle.high - Offset(m) * Atr
        BY <2>6, <3>4 DEF Entry
      <4>2. Entry(candle.high) <= 40 * candle.high
        BY <2>1, <2>3, <2>4, <4>1
      <4>3. m = "aggressive" => 40 * candle.close <= Entry(candle.high)
        BY <2>1, <2>3, <2>4, <3>2, <4>1
      <4> QED
        BY <2>1, <2>2, <2>3, <2>6, <3>1, <3>2, <3>4, <4>2, <4>3 DEF SignalsSound, Direction
    <3> QED
      BY <3>3, <3>4
  <2> QED
    BY <2>2, <2>5, <2>6
<1> QED
  BY <1>1, SweepInvariance, PTL

=============================================================================
