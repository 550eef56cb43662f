------------------------- MODULE SignalPath_proofs -------------------------
(***************************************************************************)
(* What reaches the gate, for every table, market, account and symbol.     *)
(* The invariant says of each step what the earlier ones have established, *)
(* and the properties are read off at the last.                            *)
(***************************************************************************)
EXTENDS SignalPath, TLAPS

AtBroker    == {"BrokerHealthCheck", "ExecutionGate"}
WithPlan    == AtBroker \cup {"PreTradeSimulation"}
WithSignal  == WithPlan \cup {"SignalContractBuilder", "SignalValidator", "HistoricalEdgeValidator", "RiskEngine"}
WithChoice  == WithSignal \cup {"StrategyEngine"}

\* What RiskEngine demands of a plan it passes on.
Planned ==
    LET s == DefaultStops(signal)
    IN  /\ (signal.stop <= 0 \/ signal.target <= 0) => market.atr > 0
        /\ Risk(s) > 0 /\ Reward(s) > 0
        /\ LotFor(s) > 0
        /\ Acceptable(s)
        /\ plan = [stop |-> s.stop, target |-> s.target, lot |-> LotFor(s), ratio |-> TRUE]

PathInv ==
    /\ step \in WithChoice => chosen \in RowType
    /\ step \in WithSignal => signal \in Signals
    /\ step \in WithPlan   => Planned
    /\ step \in AtBroker   => StressedLoss <= RiskAmount

IInv == TypeOK /\ PathInv

-----------------------------------------------------------------------------
\* Arithmetic

LEMMA NatProduct ==
    ASSUME NEW a \in Nat, NEW b \in Nat
    PROVE  a * b \in Nat /\ (a > 0 /\ b > 0 => a * b > 0)
  BY SMT

LEMMA ProductGrows ==
    ASSUME NEW a \in Int, NEW b \in Int, NEW c \in Nat, a <= b
    PROVE  a * c <= b * c
  BY SMT

LEMMA RegimeTyped ==
    ASSUME NEW m \in MarketType
    PROVE  RegimeOf(m) \in Regimes
<1> DEFINE quiet == 10000 * m.atr < 3 * m.close
           flat  == Abs(m.gap) <= 3 * m.atr
<1>1. m.atr \in Nat /\ m.close \in Nat /\ m.gap \in Int
  BY DEF MarketType
<1>2. Abs(m.gap) \in Int
  BY <1>1 DEF Abs
<1>3. 10000 * m.atr >= 3 * m.close <=> ~quiet
  <2> DEFINE x == 10000 * m.atr  y == 3 * m.close
  <2>1. x \in Int /\ y \in Int
    BY <1>1
  <2> HIDE DEF x, y
  <2>2. x >= y <=> ~(x < y)
    BY <2>1
  <2>. QED
    BY <2>2 DEF x, y
<1>4. Abs(m.gap) > 3 * m.atr <=> ~flat
  <2> DEFINE x == Abs(m.gap)  y == 3 * m.atr
  <2>1. x \in Int /\ y \in Int
    BY <1>1, <1>2
  <2> HIDE DEF x, y
  <2>2. x > y <=> ~(x <= y)
    BY <2>1
  <2>. QED
    BY <2>2 DEF x, y
<1>5. CASE ~quiet
  BY <1>3, <1>4, <1>5 DEF RegimeOf, Regimes
<1>6. CASE quiet /\ flat
  BY <1>3, <1>4, <1>6 DEF RegimeOf, Regimes
<1>7. CASE quiet /\ ~flat
  BY <1>3, <1>4, <1>7 DEF RegimeOf, Regimes
<1>. QED
  BY <1>5, <1>6, <1>7

\* Moving both ends of an interval outwards.
LEMMA Widened ==
    ASSUME NEW low \in Int, NEW high \in Int, NEW x \in Nat, NEW y \in Nat, low < high
    PROVE  /\ Abs(high - low) \in Int
           /\ Abs((high + x + y) - (low - y)) \in Int
           /\ Abs(high - low) <= Abs((high + x + y) - (low - y))
           /\ Abs(low - high) \in Int
           /\ Abs((low - x - y) - (high + y)) \in Int
           /\ Abs(low - high) <= Abs((low - x - y) - (high + y))
  BY DEF Abs

\* RiskEngine needs no more of the lot than an integer to clamp.
LEMMA ClampBounds ==
    ASSUME PathAssumption, symbol \in SymbolType, NEW lot \in Int
    PROVE  /\ Clamped(lot) \in Nat
           /\ symbol.volMin <= Clamped(lot)
           /\ Clamped(lot) <= Greatest(symbol.volMin, Least(symbol.volMax, MaxLot))
  BY DEF PathAssumption, SymbolType, Clamped, Greatest, Least

-----------------------------------------------------------------------------
\* What the strategies signal

LEMMA SignalShape ==
    ASSUME TypeOK, chosen \in RowType, NEW s \in Signals
    PROVE  /\ s \in SignalType
           /\ \E side \in {"BUY", "SELL"} : s = Stops(side, chosen, market)
           /\ s.entry = market.close
           /\ \E key \in DOMAIN NamesIn : Resolves(chosen, key) /\ s.side \in SidesOf(key)
<1>1. PICK side \in {"BUY", "SELL"} :
        /\ s = Stops(side, chosen, market)
        /\ \E key \in DOMAIN NamesIn : Resolves(chosen, key) /\ side \in SidesOf(key)
  BY DEF Signals
<1>2. /\ market.close \in Nat \ {0} /\ market.atr \in Nat
      /\ chosen.slMult \in Nat /\ chosen.tpMult \in Nat
  BY DEF TypeOK, MarketType, RowType
<1>3. chosen.slMult * market.atr \in Int /\ chosen.tpMult * market.atr \in Int
  BY <1>2, NatProduct
<1>4. s \in SignalType /\ s.side = side /\ s.entry = market.close
  BY <1>1, <1>2, <1>3 DEF Stops, SignalType
<1>. QED
  BY <1>1, <1>4

\* A code resolves to one strategy at most.
LEMMA ResolvesOnce ==
    ASSUME NEW row, NEW k1 \in DOMAIN NamesIn, NEW k2 \in DOMAIN NamesIn,
           Resolves(row, k1), Resolves(row, k2)
    PROVE  k1 = k2
<1>1. CASE row.code \in DOMAIN NamesIn
  BY <1>1 DEF Resolves
<1>2. CASE row.code \notin DOMAIN NamesIn
  <2>1. PICK a \in DOMAIN Registry :
          /\ k1 = Registry[a] /\ (k1 \in row.parts \/ row.code \in NamesIn[k1])
          /\ \A l \in 1..(a - 1) : Registry[l] \notin row.parts /\ row.code \notin NamesIn[Registry[l]]
    BY <1>2 DEF Resolves
  <2>2. PICK b \in DOMAIN Registry :
          /\ k2 = Registry[b] /\ (k2 \in row.parts \/ row.code \in NamesIn[k2])
          /\ \A l \in 1..(b - 1) : Registry[l] \notin row.parts /\ row.code \notin NamesIn[Registry[l]]
    BY <1>2 DEF Resolves
  <2>3. DOMAIN Registry = 1..4
    BY DEF Registry
  <2>4. a \in Int /\ b \in Int /\ a >= 1 /\ b >= 1
    BY <2>1, <2>2, <2>3
  <2>5. ~(a < b) /\ ~(b < a)
    BY <2>1, <2>2, <2>4
  <2>. QED
    BY <2>1, <2>2, <2>4, <2>5
<1>. QED
  BY <1>1, <1>2

\* Defaults or not, stops an ATR has moved lie on their sides of the entry.
LEMMA StopsOnTheirSides ==
    ASSUME TypeOK, chosen \in RowType, signal \in Signals, Planned
    PROVE  /\ DefaultStops(signal) \in SignalType
           /\ DefaultStops(signal).side = signal.side
           /\ DefaultStops(signal).entry = signal.entry
           /\ IF signal.side = "BUY"
              THEN plan.stop < signal.entry /\ signal.entry < plan.target
              ELSE plan.target < signal.entry /\ signal.entry < plan.stop
<1> DEFINE s == DefaultStops(signal)
           a == chosen.slMult * market.atr
           b == chosen.tpMult * market.atr
<1>1. /\ market.close \in Nat \ {0} /\ market.atr \in Nat
      /\ chosen.slMult \in Nat \ {0} /\ chosen.tpMult \in Nat \ {0}
  BY DEF TypeOK, MarketType, RowType
<1>2. a \in Nat /\ b \in Nat
  BY <1>1, NatProduct
<1>3. PICK side \in {"BUY", "SELL"} : signal = Stops(side, chosen, market)
  BY SignalShape
<1>4. signal = [side |-> side, entry |-> market.close,
                stop |-> IF side = "BUY" THEN market.close - a ELSE market.close + a,
                target |-> IF side = "BUY" THEN market.close + b ELSE market.close - b]
  BY <1>3 DEF Stops
<1> HIDE DEF a, b
<1>5. CASE signal.stop <= 0 \/ signal.target <= 0
  <2>1. market.atr > 0
    BY <1>5 DEF Planned
  <2>2. s = [side |-> side, entry |-> market.close,
             stop |-> IF side = "BUY" THEN market.close - 15 * market.atr ELSE market.close + 15 * market.atr,
             target |-> IF side = "BUY" THEN market.close + 20 * market.atr ELSE market.close - 20 * market.atr]
    BY <1>4, <1>5 DEF DefaultStops
  <2>3. plan.stop = s.stop /\ plan.target = s.target
    BY DEF Planned
  <2>. QED
    BY <1>1, <1>4, <2>1, <2>2, <2>3 DEF SignalType
<1>6. CASE ~(signal.stop <= 0 \/ signal.target <= 0)
  <2>1. s = signal
    BY <1>6 DEF DefaultStops
  <2>2. plan.stop = signal.stop /\ plan.target = signal.target
    BY <2>1 DEF Planned
  <2>3. Risk(signal) > 0 /\ Reward(signal) > 0
    BY <2>1 DEF Planned
  <2>4. a > 0 /\ b > 0
    BY <1>1, <1>2, <1>4, <2>3 DEF Risk, Reward, Abs
  <2>. QED
    BY <1>1, <1>2, <1>4, <2>1, <2>2, <2>4 DEF SignalType
<1>. QED
  BY <1>5, <1>6

LEMMA DefaultsTyped ==
    ASSUME TypeOK, NEW s \in SignalType
    PROVE  DefaultStops(s) \in SignalType
<1>1. market.atr \in Nat
  BY DEF TypeOK, MarketType
<1>2. s.entry \in Int
  BY DEF SignalType
<1> DEFINE low  == s.entry - 15 * market.atr   high == s.entry + 15 * market.atr
           near == s.entry - 20 * market.atr   far  == s.entry + 20 * market.atr
<1>3. low \in Int /\ high \in Int /\ near \in Int /\ far \in Int
  BY <1>1, <1>2
<1>4. DefaultStops(s) = IF s.stop <= 0 \/ s.target <= 0
        THEN [s EXCEPT !.stop = IF s.side = "BUY" THEN low ELSE high,
                       !.target = IF s.side = "BUY" THEN far ELSE near]
        ELSE s
  BY DEF DefaultStops
<1> HIDE DEF low, high, near, far
<1>. QED
  BY <1>3, <1>4 DEF SignalType

\* Sizing divides by a positive number, so a lot is a whole number of hundredths.
LEMMA RawLotTyped ==
    ASSUME PathAssumption, TypeOK, NEW s \in SignalType, Risk(s) > 0, symbol.contract > 0
    PROVE  RawLot(s) \in Int
<1>1. /\ symbol.contract \in Nat /\ symbol.volStep \in Nat \ {0} /\ symbol.gold \in BOOLEAN
      /\ base \in Int /\ RiskPercent \in Nat
  BY DEF TypeOK, SymbolType, PathAssumption
<1> DEFINE unit == Risk(s) * symbol.contract * symbol.volStep
<1>2. Risk(s) \in Nat
  BY DEF SignalType, Risk, Abs
<1>3. Risk(s) * symbol.contract \in Nat /\ Risk(s) * symbol.contract > 0
  BY <1>1, <1>2, NatProduct
<1>4. unit \in Nat /\ unit > 0
  BY <1>1, <1>3, NatProduct
<1>5. RiskAmount \in Int
  BY <1>1 DEF RiskAmount, PerUnit
<1> DEFINE steps == IF symbol.gold THEN (7 * RiskAmount) \div (10 * unit) ELSE RiskAmount \div unit
<1>6. RawLot(s) = symbol.volStep * steps
  BY DEF RawLot
<1> HIDE DEF unit
<1>7. steps \in Int
  BY <1>4, <1>5
<1> HIDE DEF steps
<1>. QED
  BY <1>1, <1>6, <1>7

LEMMA LotTyped ==
    ASSUME PathAssumption, TypeOK, NEW s \in SignalType, Risk(s) > 0
    PROVE  LotFor(s) \in Nat
<1>1. CASE symbol.contract > 0
  BY <1>1, RawLotTyped, ClampBounds DEF LotFor, TypeOK
<1>2. CASE ~(symbol.contract > 0)
  BY <1>2 DEF LotFor, PathAssumption
<1>. QED
  BY <1>1, <1>2

-----------------------------------------------------------------------------
\* The invariant

LEMMA InitInv == PathAssumption /\ Init => IInv
  BY DEF PathAssumption, Init, IInv, TypeOK, PathInv, WithChoice, WithSignal, WithPlan, AtBroker

\* The operators of the invariant keep their values while their variables do.
LEMMA Unmoved ==
    ASSUME UNCHANGED <<symbol, market, base, regime, chosen, signal, plan>>
    PROVE  /\ Signals' = Signals
           /\ Planned' = Planned
           /\ StressedLoss' = StressedLoss /\ RiskAmount' = RiskAmount
  BY DEF Signals, SidesOf, TrendSides, HintedSide, BreakoutSides, ReversionSides, SweepSides,
         Planned, DefaultStops, LotFor, Clamped, RawLot, RiskAmount, PerUnit,
         StressedLoss, SpreadStress, Slippage

LEMMA NextInv == PathAssumption /\ IInv /\ [Next]_pathVars => IInv'
<1> SUFFICES ASSUME PathAssumption, IInv, [Next]_pathVars
             PROVE  IInv'
  OBVIOUS
<1> USE DEF IInv
<1>1. CASE FilterEvents
  BY <1>1, Unmoved DEF FilterEvents, context, TypeOK, PathInv, WithChoice, WithSignal, WithPlan, AtBroker
<1>2. CASE DetectRegime
  <2>1. RegimeOf(market) \in Regimes
    BY RegimeTyped DEF TypeOK
  <2>. QED
    BY <1>2, <2>1 DEF DetectRegime, TypeOK, PathInv, WithChoice, WithSignal, WithPlan, AtBroker
<1>3. CASE SelectStrategy
  <2>1. \/ step' = "StrategyEngine" /\ chosen' \in RowType
        \/ step' = "ended" /\ UNCHANGED chosen
    <3>1. PICK t \in Tables :
            IF Tradeable(regime) /\ Candidates(t) # {}
            THEN /\ \E i \in Candidates(t) : /\ \A j \in Candidates(t) : Precedes(t, i, j)
                                            /\ chosen' = t[i]
                 /\ step' = "StrategyEngine"
            ELSE step' = "ended" /\ UNCHANGED chosen
      BY <1>3 DEF SelectStrategy
    <3>2. t \in Seq(RowType)
      BY DEF PathAssumption
    <3>3. \A i \in Candidates(t) : t[i] \in RowType
      BY <3>2 DEF Candidates
    <3>. QED
      BY <3>1, <3>3
  <2>. QED
    BY <1>3, <2>1 DEF SelectStrategy, TypeOK, PathInv, WithChoice, WithSignal, WithPlan, AtBroker
<1>4. CASE RunStrategy
  <2>1. chosen \in RowType
    BY <1>4 DEF RunStrategy, PathInv, WithChoice
  <2>2. Signals' = Signals
    BY <1>4 DEF RunStrategy, Signals, SidesOf, TrendSides, HintedSide, BreakoutSides, ReversionSides, SweepSides
  <2>3. \/ step' = "SignalContractBuilder" /\ signal' \in Signals
        \/ step' = "ended" /\ UNCHANGED signal
    BY <1>4 DEF RunStrategy
  <2>4. signal' \in SignalType \cup {None}
    BY <2>1, <2>3, SignalShape DEF TypeOK
  <2>. QED
    BY <1>4, <2>1, <2>2, <2>3, <2>4 DEF RunStrategy, TypeOK, PathInv, WithChoice, WithSignal, WithPlan, AtBroker
<1>5. CASE BuildContract
  BY <1>5, Unmoved DEF BuildContract, context, TypeOK, PathInv, WithChoice, WithSignal, WithPlan, AtBroker
<1>6. CASE ValidateSignal
  BY <1>6, Unmoved DEF ValidateSignal, context, TypeOK, PathInv, WithChoice, WithSignal, WithPlan, AtBroker
<1>7. CASE ValidateEdge
  BY <1>7, Unmoved DEF ValidateEdge, context, TypeOK, PathInv, WithChoice, WithSignal, WithPlan, AtBroker
<1>8. CASE AssessRisk
  <2> DEFINE s == DefaultStops(signal)
  <2>1. chosen \in RowType /\ signal \in Signals
    BY <1>8 DEF AssessRisk, PathInv, WithChoice, WithSignal, WithPlan
  <2>2. signal \in SignalType
    BY <2>1, SignalShape
  <2>3. s \in SignalType
    BY <2>2, DefaultsTyped
  <2>4. Signals' = Signals /\ s' = s /\ LotFor(s)' = LotFor(s) /\ Acceptable(s)' = Acceptable(s)
    BY <1>8 DEF AssessRisk, Signals, SidesOf, TrendSides, HintedSide, BreakoutSides, ReversionSides, SweepSides,
                DefaultStops, LotFor, Clamped, RawLot, RiskAmount, PerUnit
  <2>5. CASE /\ base > 0
             /\ (signal.stop <= 0 \/ signal.target <= 0) => market.atr > 0
             /\ Risk(s) > 0 /\ Reward(s) > 0
             /\ LotFor(s) > 0
    <3>1. /\ plan' = [stop |-> s.stop, target |-> s.target, lot |-> LotFor(s), ratio |-> Acceptable(s)]
          /\ step' = IF Acceptable(s) THEN "PreTradeSimulation" ELSE "ended"
          /\ UNCHANGED <<symbol, market, base, regime, chosen, signal, tickSpread>>
      BY <1>8, <2>5 DEF AssessRisk
    <3>2. LotFor(s) \in Nat \ {0}
      BY <2>3, <2>5, LotTyped
    <3>3. Acceptable(s) \in BOOLEAN
      BY DEF Acceptable
    <3>4. plan' \in PlanType
      BY <2>3, <3>1, <3>2, <3>3 DEF PlanType, SignalType
    <3>5. TypeOK'
      BY <3>1, <3>4 DEF TypeOK
    <3>6. Acceptable(s) => Planned'
      <4>1. SUFFICES ASSUME Acceptable(s) PROVE Planned'
        OBVIOUS
      <4>2. plan' = [stop |-> s.stop, target |-> s.target, lot |-> LotFor(s), ratio |-> TRUE]
        BY <3>1, <3>3, <4>1
      <4>. QED
        BY <2>4, <2>5, <3>1, <4>1, <4>2 DEF Planned
    <3>7. PathInv'
      BY <2>1, <2>4, <3>1, <3>6 DEF PathInv, WithChoice, WithSignal, WithPlan, AtBroker
    <3>. QED
      BY <3>5, <3>7
  <2>6. CASE ~ (/\ base > 0
                /\ (signal.stop <= 0 \/ signal.target <= 0) => market.atr > 0
                /\ Risk(s) > 0 /\ Reward(s) > 0
                /\ LotFor(s) > 0)
    <3>1. step' = "ended" /\ UNCHANGED <<symbol, market, base, regime, chosen, signal, plan, tickSpread>>
      BY <1>8, <2>6 DEF AssessRisk
    <3>. QED
      BY <3>1 DEF TypeOK, PathInv, WithChoice, WithSignal, WithPlan, AtBroker
  <2>. QED
    BY <2>5, <2>6
<1>9. CASE Simulate
  BY <1>9, Unmoved DEF Simulate, context, TypeOK, PathInv, WithChoice, WithSignal, WithPlan, AtBroker
<1>10. CASE CheckBroker
  <2>1. tickSpread' \in Nat
    BY <1>10 DEF CheckBroker, PathAssumption
  <2>. QED
    BY <1>10, <2>1, Unmoved DEF CheckBroker, TypeOK, PathInv, WithChoice, WithSignal, WithPlan, AtBroker
<1>11. CASE UNCHANGED pathVars
  BY <1>11, Unmoved DEF pathVars, context, TypeOK, PathInv
<1>. QED
  BY <1>1, <1>2, <1>3, <1>4, <1>5, <1>6, <1>7, <1>8, <1>9, <1>10, <1>11 DEF Next

\* PathInv names, for each step, what the cycle has established before it.
THEOREM Established == Spec => []IInv
  BY PathAssumption, InitInv, NextInv, PTL DEF Spec

-----------------------------------------------------------------------------
\* What reaches the gate

LEMMA GateFacts ==
    ASSUME IInv, AtGate
    PROVE  chosen \in RowType /\ signal \in Signals /\ Planned /\ StressedLoss <= RiskAmount
  BY DEF IInv, PathInv, AtGate, WithChoice, WithSignal, WithPlan, AtBroker

\* The stresses only move entry and stop apart, so the loss without them is
\* smaller, whatever the sizing did.
LEMMA InvBudget == PathAssumption /\ IInv => RiskWithinBudget
<1> SUFFICES ASSUME PathAssumption, IInv, AtGate, symbol.contract > 0
             PROVE  Abs(signal.entry - plan.stop) * symbol.contract * plan.lot <= RiskAmount
  BY DEF RiskWithinBudget
<1> DEFINE entry == IF signal.side = "BUY" THEN signal.entry + SpreadStress + Slippage
                                           ELSE signal.entry - SpreadStress - Slippage
           stop  == IF signal.side = "BUY" THEN plan.stop - Slippage ELSE plan.stop + Slippage
           plain == Abs(signal.entry - plan.stop)
           wide  == Abs(entry - stop)
<1>1. chosen \in RowType /\ signal \in Signals /\ Planned /\ StressedLoss <= RiskAmount
  BY GateFacts
<1>2. signal \in SignalType /\ DefaultStops(signal) \in SignalType
  BY <1>1, SignalShape, StopsOnTheirSides DEF IInv
<1>3. IF signal.side = "BUY" THEN plan.stop < signal.entry ELSE signal.entry < plan.stop
  BY <1>1, StopsOnTheirSides DEF IInv
<1>4. LotFor(DefaultStops(signal)) \in Nat
  BY <1>1, <1>2, LotTyped DEF IInv, Planned
<1>5. plan.stop \in Int /\ plan.lot \in Nat
  BY <1>1, <1>2, <1>4 DEF Planned, SignalType
<1>6. symbol.contract \in Nat /\ market.spread \in Nat
  BY DEF IInv, TypeOK, SymbolType, MarketType
<1>7. SpreadStress \in Nat /\ Slippage \in Nat
  <2>1. PerUnit \in Nat /\ StressMultiplier \in Nat /\ SlippagePoints \in Nat
    BY DEF PerUnit, PathAssumption
  <2>2. market.spread * PerUnit \in Nat
    BY <1>6, <2>1, NatProduct
  <2>. QED
    BY <2>1, <2>2, NatProduct DEF SpreadStress, Slippage
<1>8. plain \in Int /\ wide \in Int /\ plain <= wide
  <2>1. signal.entry \in Int /\ signal.side \in {"BUY", "SELL"}
    BY <1>2 DEF SignalType
  <2>2. CASE signal.side = "BUY"
    <3>1. wide = Abs((signal.entry + SpreadStress + Slippage) - (plan.stop - Slippage))
      BY <2>2
    <3>. QED
      BY <1>3, <1>5, <1>7, <2>1, <2>2, <3>1, Widened
  <2>3. CASE signal.side = "SELL"
    <3>1. wide = Abs((signal.entry - SpreadStress - Slippage) - (plan.stop + Slippage))
      BY <2>3
    <3>. QED
      BY <1>3, <1>5, <1>7, <2>1, <2>3, <3>1, Widened
  <2>. QED
    BY <2>1, <2>2, <2>3
<1>9. StressedLoss = wide * symbol.contract * plan.lot
  BY DEF StressedLoss
<1> HIDE DEF entry, stop, plain, wide
<1>10. plain * symbol.contract \in Int /\ wide * symbol.contract \in Int
       /\ plain * symbol.contract <= wide * symbol.contract
  BY <1>6, <1>8, ProductGrows
<1>11. plain * symbol.contract * plan.lot <= wide * symbol.contract * plan.lot
  BY <1>5, <1>10, ProductGrows
<1>12. RiskAmount \in Int
  BY DEF IInv, TypeOK, RiskAmount, PerUnit, PathAssumption
<1>13. plain * symbol.contract * plan.lot \in Int /\ wide * symbol.contract * plan.lot \in Int
  <2> DEFINE less == plain * symbol.contract   more == wide * symbol.contract
  <2> HIDE DEF less, more
  <2>1. less \in Int /\ more \in Int
    BY <1>10 DEF less, more
  <2>2. less * plan.lot \in Int /\ more * plan.lot \in Int
    BY <1>5, <2>1
  <2>. QED
    BY <2>2 DEF less, more
<1>. QED
  BY <1>1, <1>9, <1>11, <1>12, <1>13 DEF plain

LEMMA InvStops == PathAssumption /\ IInv => StopsGuard
<1> SUFFICES ASSUME PathAssumption, IInv, AtGate
             PROVE  /\ IF signal.side = "BUY" THEN plan.stop < signal.entry /\ signal.entry < plan.target
                                              ELSE plan.target < signal.entry /\ signal.entry < plan.stop
                    /\ plan.stop > 0 /\ plan.target > 0
                    /\ 10 * Abs(plan.target - signal.entry) >= MinRR * Abs(signal.entry - plan.stop)
  BY DEF StopsGuard
<1>1. chosen \in RowType /\ signal \in Signals /\ Planned
  BY GateFacts
<1>2. DefaultStops(signal).entry = signal.entry
  BY <1>1, StopsOnTheirSides DEF IInv
<1>3. plan.stop = DefaultStops(signal).stop /\ plan.target = DefaultStops(signal).target
  BY <1>1 DEF Planned
<1>4. Acceptable(DefaultStops(signal))
  BY <1>1 DEF Planned
<1>. QED
  BY <1>1, <1>2, <1>3, <1>4, StopsOnTheirSides DEF IInv, Acceptable, Risk, Reward

LEMMA InvLot == PathAssumption /\ IInv => LotTradable
<1> SUFFICES ASSUME PathAssumption, IInv, AtGate
             PROVE  IF symbol.contract > 0
                    THEN symbol.volMin <= plan.lot /\ plan.lot <= Greatest(symbol.volMin, Least(symbol.volMax, MaxLot))
                    ELSE plan.lot = FixedLot
  BY DEF LotTradable
<1> DEFINE s == DefaultStops(signal)
<1>1. chosen \in RowType /\ signal \in Signals /\ Planned
  BY GateFacts
<1>2. plan.lot = LotFor(s)
  BY <1>1 DEF Planned
<1>3. CASE symbol.contract > 0
  <2>1. plan.lot = Clamped(RawLot(s))
    BY <1>2, <1>3 DEF LotFor
  <2>2. s \in SignalType /\ Risk(s) > 0
    BY <1>1, StopsOnTheirSides DEF IInv, Planned
  <2>3. RawLot(s) \in Int
    BY <1>3, <2>2, RawLotTyped DEF IInv
  <2>. QED
    BY <1>3, <2>1, <2>3, ClampBounds DEF IInv, TypeOK
<1>4. CASE ~(symbol.contract > 0)
  BY <1>2, <1>4 DEF LotFor
<1>. QED
  BY <1>3, <1>4

LEMMA InvFit == IInv => StrategyFitsRegime
<1> SUFFICES ASSUME IInv, AtGate
             PROVE  /\ \A key \in DOMAIN NamesIn : Resolves(chosen, key) =>
                          key = CASE regime \in {"TRENDING_BULLISH", "TRENDING_BEARISH"} -> "EMA_ATR_TREND"
                                  [] regime = "HIGH_VOLATILITY" -> "VOLATILITY_BREAKOUT"
                                  [] regime = "RANGING" -> "RANGE_REVERSION"
                                  [] regime \in {"CHOPPY", "LOW_VOLATILITY", "none"} -> "no strategy"
                    /\ regime = "TRENDING_BULLISH" => signal.side = "BUY"
                    /\ regime = "TRENDING_BEARISH" => signal.side = "SELL"
  BY DEF StrategyFitsRegime
<1>1. chosen \in RowType /\ signal \in Signals
  BY GateFacts
<1>2. PICK own \in DOMAIN NamesIn : Resolves(chosen, own) /\ signal.side \in SidesOf(own)
  BY <1>1, SignalShape DEF IInv
<1>3. own \in {"EMA_ATR_TREND", "VOLATILITY_BREAKOUT", "RANGE_REVERSION", "LIQUIDITY_SWEEP_REVERSAL"}
  BY <1>2 DEF NamesIn
<1>4. CASE own = "EMA_ATR_TREND"
  <2>1. signal.side \in TrendSides
    BY <1>2, <1>4 DEF SidesOf
  <2>. QED
    BY <1>2, <1>4, <2>1, ResolvesOnce DEF TrendSides
<1>5. CASE own = "VOLATILITY_BREAKOUT"
  <2>1. regime = "HIGH_VOLATILITY"
    BY <1>2, <1>5 DEF SidesOf, BreakoutSides
  <2>. QED
    BY <1>2, <1>5, <2>1, ResolvesOnce
<1>6. CASE own = "RANGE_REVERSION"
  <2>1. regime = "RANGING"
    BY <1>2, <1>6 DEF SidesOf, ReversionSides
  <2>. QED
    BY <1>2, <1>6, <2>1, ResolvesOnce
<1>7. own # "LIQUIDITY_SWEEP_REVERSAL"
  BY <1>2 DEF SidesOf, SweepSides
<1>. QED
  BY <1>3, <1>4, <1>5, <1>6, <1>7

\* No order at the gate can lose more at its stop than the risk of one trade,
\* though RiskEngine lifts lots to the broker's minimum: the simulation refuses
\* those.
THEOREM BudgetKept == Spec => []RiskWithinBudget
  BY PathAssumption, Established, InvBudget, PTL

\* Stops at the gate are on their sides, positive and far enough apart.
THEOREM StopsSane == Spec => []StopsGuard
  BY PathAssumption, Established, InvStops, PTL

\* Lots at the gate are within the broker's limits.
THEOREM LotsTradable == Spec => []LotTradable
  BY PathAssumption, Established, InvLot, PTL

\* A signal at the gate comes from the strategy made for the regime.
THEOREM RegimeFitted == Spec => []StrategyFitsRegime
  BY Established, InvFit, PTL
=============================================================================
