----------------------------- MODULE SignalPath -----------------------------
(***************************************************************************)
(* From the candles of a cycle to an order the gate may let through: the   *)
(* steps MarketEventFilter to BrokerHealthCheck, which TradingCycle takes  *)
(* for one.  Each may end the cycle; together they decide whether to       *)
(* trade, on which side, with which stops and with how many lots.  Every   *)
(* cycle has a context of its own and leaves none behind, so one is enough.*)
(*                                                                         *)
(* Numbers are exact.  The ATR, ticks and slippage are counted in points   *)
(* (those of PreTradeSimulation) and prices in tenths of a point, so that  *)
(* a multiplier in tenths times an ATR is a price; lots in hundredths;     *)
(* money in what one such lot of one unit loses over one such price.       *)
(***************************************************************************)
EXTENDS Integers, Sequences

CONSTANTS
    Tables,             \* contents of the strategy tables, active rows in order of code
    Markets,            \* what the candles of a cycle say
    Accounts,           \* equity, or the balance if there is none
    Symbols,            \* what the terminal says of the traded symbol
    TickSpreads,        \* bid-ask spreads of a fresh tick, in points
    RiskPercent, FixedLot, MaxLot, MinRR, MaxSpread, MaxSpreadPoints,
    StressMultiplier, SlippagePoints        \* settings; MinRR and the multiplier in tenths

VARIABLES
    step,       \* the pipeline step about to run, or "ended"
    symbol,     \* symbol_info of the worker's symbol
    market,     \* the market snapshot and its history
    base,       \* account_base
    regime,     \* context.regime_result
    chosen,     \* context.strategy_selection
    signal,     \* context.signal_contract
    plan,       \* context.risk_plan
    tickSpread  \* the spread BrokerHealthCheck saw

context == <<market, base, regime, chosen, signal, plan, tickSpread>>
pathVars == <<step, symbol, context>>

-----------------------------------------------------------------------------

Regimes == {"HIGH_VOLATILITY", "CHOPPY", "TRENDING_BULLISH", "TRENDING_BEARISH",
            "LOW_VOLATILITY", "RANGING"}

\* The registry's keys in its order, and the names within each that the code
\* of an active strategy may be.
Registry == <<"EMA_ATR_TREND", "VOLATILITY_BREAKOUT", "RANGE_REVERSION", "LIQUIDITY_SWEEP_REVERSAL">>
NamesIn  == [EMA_ATR_TREND            |-> {"EMA_ATR_TREND", "TREND"},
             VOLATILITY_BREAKOUT      |-> {"VOLATILITY_BREAKOUT", "BREAKOUT"},
             RANGE_REVERSION          |-> {"RANGE_REVERSION", "REVERSION", "RANGE"},
             LIQUIDITY_SWEEP_REVERSAL |-> {"LIQUIDITY_SWEEP_REVERSAL", "LIQUIDITY", "SWEEP", "REVERSAL"}]

\* parts: the names of the tables below that the code contains.
RowType == [code: STRING, parts: SUBSET STRING, highVol: BOOLEAN, confirm: BOOLEAN,
            slMult: Nat \ {0}, tpMult: Nat \ {0}]

\* gap: fast less slow average; hint: the side on which the chosen strategy
\* finds its candle; filters: its other conditions on that candle.
MarketType == [close: Nat \ {0}, atr: Nat, gap: Int, spread: Nat, filters: BOOLEAN,
               hint: {"bullish", "bearish", "none"}]

\* contract: trade_contract_size, 0 if the terminal does not tell.
SymbolType == [gold: BOOLEAN, volMin: Nat, volMax: Nat, volStep: Nat \ {0}, contract: Nat]

ASSUME PathAssumption ==
    /\ \A t \in Tables : t \in Seq(RowType)
    /\ Markets \subseteq MarketType
    /\ Accounts \subseteq Int
    /\ Symbols \subseteq SymbolType
    /\ TickSpreads \subseteq Nat
    /\ {RiskPercent, FixedLot, MaxLot, MinRR, MaxSpread, MaxSpreadPoints,
        StressMultiplier, SlippagePoints} \subseteq Nat

None == [none |-> TRUE]

\* A new context, after DataCollectorEngine to DataQualityGuard.
Init ==
    /\ step = "MarketEventFilter"
    /\ symbol \in Symbols
    /\ market \in Markets
    /\ base \in Accounts
    /\ regime = "none"
    /\ chosen = None
    /\ signal = None
    /\ plan = None
    /\ tickSpread = 0

\* The session, and events of high impact.
FilterEvents ==
    /\ step = "MarketEventFilter"
    /\ step' \in {"MarketRegimeEngine", "ended"}
    /\ UNCHANGED <<symbol, context>>

-----------------------------------------------------------------------------
\* Regime, strategy, signal

Abs(n) == IF n < 0 THEN -n ELSE n

\* The first case that applies, with thresholds 0.003 and 0.001 of the price
\* and 0.3 and 0.8 of the ATR.
RegimeOf(m) ==
    CASE 10000 * m.atr >= 3 * m.close      -> "HIGH_VOLATILITY"
      [] 10000 * m.atr < 3 * m.close /\ Abs(m.gap) <= 3 * m.atr -> "CHOPPY"
      [] 10000 * m.atr < 3 * m.close /\ Abs(m.gap) > 3 * m.atr ->
           IF Abs(m.gap) >= 8 * m.atr
           THEN IF m.gap > 0 THEN "TRENDING_BULLISH" ELSE "TRENDING_BEARISH"
           ELSE IF 10000 * m.atr <= m.close THEN "LOW_VOLATILITY" ELSE "RANGING"

\* Or there are too few candles.
DetectRegime ==
    /\ step = "MarketRegimeEngine"
    /\ \/ regime' = RegimeOf(market) /\ step' = "StrategySelector"
       \/ step' = "ended" /\ UNCHANGED regime
    /\ UNCHANGED <<symbol, market, base, chosen, signal, plan, tickSpread>>

Tradeable(r) == r \notin {"CHOPPY", "LOW_VOLATILITY"}

PreferredTokens(r) ==
    CASE r \in {"TRENDING_BULLISH", "TRENDING_BEARISH"} -> <<"EMA_ATR_TREND", "TREND">>
      [] r = "RANGING" -> <<"RANGE_REVERSION", "REVERSION", "MEAN_REVERSION">>
      [] r = "HIGH_VOLATILITY" -> <<"VOLATILITY_BREAKOUT", "LIQUIDITY_SWEEP_REVERSAL",
                                    "BREAKOUT", "LIQUIDITY", "SWEEP", "REVERSAL">>
      [] r \in {"CHOPPY", "LOW_VOLATILITY"} -> <<>>

\* Rows of a table with a preferred token, less those whose config declines
\* the regime.
Candidates(t) ==
    {i \in DOMAIN t :
        /\ \E k \in DOMAIN PreferredTokens(regime) : PreferredTokens(regime)[k] \in t[i].parts
        /\ regime = "HIGH_VOLATILITY" => t[i].highVol}

\* By the first token that matches, then in order of code.
Precedes(t, i, j) ==
    \E k \in DOMAIN PreferredTokens(regime) :
        /\ PreferredTokens(regime)[k] \in t[i].parts
        /\ \A l \in 1..(k - 1) : PreferredTokens(regime)[l] \notin t[j].parts
        /\ PreferredTokens(regime)[k] \in t[j].parts => i <= j

\* The operator, or the feedback loop, may have edited the tables before.
SelectStrategy ==
    /\ step = "StrategySelector"
    /\ \E t \in Tables :
          IF Tradeable(regime) /\ Candidates(t) # {}
          THEN /\ \E i \in Candidates(t) : /\ \A j \in Candidates(t) : Precedes(t, i, j)
                                          /\ chosen' = t[i]
               /\ step' = "StrategyEngine"
          ELSE step' = "ended" /\ UNCHANGED chosen
    /\ UNCHANGED <<symbol, market, base, regime, signal, plan, tickSpread>>

\* StrategyEngine._resolve_strategy: the strategy of that name, else the first
\* whose name is in the code or contains it.
Resolves(row, key) ==
    IF row.code \in DOMAIN NamesIn
    THEN key = row.code
    ELSE \E k \in DOMAIN Registry :
            /\ key = Registry[k]
            /\ key \in row.parts \/ row.code \in NamesIn[key]
            /\ \A l \in 1..(k - 1) : Registry[l] \notin row.parts /\ row.code \notin NamesIn[Registry[l]]

\* Stops at multiples of the ATR.
Stops(side, row, m) ==
    [side   |-> side,
     entry  |-> m.close,
     stop   |-> IF side = "BUY" THEN m.close - row.slMult * m.atr ELSE m.close + row.slMult * m.atr,
     target |-> IF side = "BUY" THEN m.close + row.tpMult * m.atr ELSE m.close - row.tpMult * m.atr]

\* Mutant: the regime is only asked for its side.
TrendAnywhere ==
    IF regime = "TRENDING_BULLISH"
    THEN IF chosen.confirm => market.hint = "bullish" THEN {"BUY"} ELSE {}
    ELSE IF chosen.confirm => market.hint = "bearish" THEN {"SELL"} ELSE {}

\* The sides on which each strategy may signal, at most one.
TrendSides ==
    CASE regime = "TRENDING_BULLISH" -> IF chosen.confirm => market.hint = "bullish" THEN {"BUY"} ELSE {}
      [] regime = "TRENDING_BEARISH" -> IF chosen.confirm => market.hint = "bearish" THEN {"SELL"} ELSE {}
      [] regime \notin {"TRENDING_BULLISH", "TRENDING_BEARISH"} -> {}

HintedSide == CASE market.hint = "bullish" -> {"BUY"} [] market.hint = "bearish" -> {"SELL"}
                [] market.hint = "none" -> {}

BreakoutSides  == IF regime = "HIGH_VOLATILITY" THEN HintedSide ELSE {}
ReversionSides == IF regime = "RANGING" THEN HintedSide ELSE {}

\* It looks for levels among the regime's features, where MarketRegimeEngine
\* puts neither levels nor a current price to derive them from.
SweepSides == {}

SidesOf(key) ==
    CASE key = "EMA_ATR_TREND" -> TrendSides
      [] key = "VOLATILITY_BREAKOUT" -> BreakoutSides
      [] key = "RANGE_REVERSION" -> ReversionSides
      [] key = "LIQUIDITY_SWEEP_REVERSAL" -> SweepSides

Signals == {Stops(side, chosen, market) :
              side \in {s \in {"BUY", "SELL"} :
                           /\ market.filters
                           /\ \E key \in DOMAIN NamesIn : Resolves(chosen, key) /\ s \in SidesOf(key)}}

RunStrategy ==
    /\ step = "StrategyEngine"
    /\ IF Signals # {}
       THEN signal' \in Signals /\ step' = "SignalContractBuilder"
       ELSE step' = "ended" /\ UNCHANGED signal
    /\ UNCHANGED <<symbol, market, base, regime, chosen, plan, tickSpread>>

\* The contract's lot is that of the config; RiskEngine sizes anew.
BuildContract ==
    /\ step = "SignalContractBuilder"
    /\ step' = "SignalValidator"
    /\ UNCHANGED <<symbol, context>>

Compatible(r, row) ==
    CASE r \in {"TRENDING_BULLISH", "TRENDING_BEARISH"} -> "TREND" \in row.parts
      [] r = "RANGING" -> {"REVERSION", "RANGE"} \cap row.parts # {}
      [] r = "HIGH_VOLATILITY" -> "BREAKOUT" \in row.parts
      [] r = "CHOPPY" -> FALSE
      [] r = "LOW_VOLATILITY" -> TRUE

\* The limit on open positions may refuse any signal.
ValidateSignal ==
    /\ step = "SignalValidator"
    /\ \/ Compatible(regime, chosen) /\ market.spread <= MaxSpread /\ step' = "HistoricalEdgeValidator"
       \/ step' = "ended"
    /\ UNCHANGED <<symbol, context>>

\* What past trades say is left to choice.
ValidateEdge ==
    /\ step = "HistoricalEdgeValidator"
    /\ step' \in {"RiskEngine", "ended"}
    /\ UNCHANGED <<symbol, context>>

-----------------------------------------------------------------------------
\* Size and stress

Least(a, b)    == IF a < b THEN a ELSE b
Greatest(a, b) == IF a < b THEN b ELSE a

\* Points in a price of 1.
PerUnit == IF symbol.gold THEN 100 ELSE 10000

RiskAmount == base * RiskPercent * 10 * PerUnit

\* Mutant: stops below and targets above, whatever the side.
DefaultStopsBelow(s) ==
    IF s.stop <= 0 \/ s.target <= 0
    THEN [s EXCEPT !.stop = s.entry - 15 * market.atr, !.target = s.entry + 20 * market.atr]
    ELSE s

\* Stops the strategy left out, or put below zero, are replaced.
DefaultStops(s) ==
    IF s.stop <= 0 \/ s.target <= 0
    THEN [s EXCEPT !.stop   = IF s.side = "BUY" THEN s.entry - 15 * market.atr ELSE s.entry + 15 * market.atr,
                   !.target = IF s.side = "BUY" THEN s.entry + 20 * market.atr ELSE s.entry - 20 * market.atr]
    ELSE s

Risk(s)   == Abs(s.entry - s.stop)
Reward(s) == Abs(s.target - s.entry)

\* Lots that lose RiskAmount, less three tenths on gold, rounded down to a step.
RawLot(s) ==
    LET unit == Risk(s) * symbol.contract * symbol.volStep
    IN  symbol.volStep * (IF symbol.gold THEN (7 * RiskAmount) \div (10 * unit) ELSE RiskAmount \div unit)

\* Mutant: the limits are applied in the other order.
ClampedFromBelow(lot) == Least(Least(symbol.volMax, MaxLot), Greatest(symbol.volMin, lot))

Clamped(lot) == Greatest(symbol.volMin, Least(Least(symbol.volMax, MaxLot), lot))

LotFor(s) == IF symbol.contract > 0 THEN Clamped(RawLot(s)) ELSE FixedLot

Acceptable(s) == s.stop > 0 /\ s.target > 0 /\ 10 * Reward(s) >= MinRR * Risk(s)

AssessRisk ==
    /\ step = "RiskEngine"
    /\ LET s == DefaultStops(signal)
       IN  IF /\ base > 0
              /\ (signal.stop <= 0 \/ signal.target <= 0) => market.atr > 0
              /\ Risk(s) > 0 /\ Reward(s) > 0
              /\ LotFor(s) > 0
           THEN /\ plan' = [stop |-> s.stop, target |-> s.target, lot |-> LotFor(s), ratio |-> Acceptable(s)]
                /\ step' = IF Acceptable(s) THEN "PreTradeSimulation" ELSE "ended"
           ELSE step' = "ended" /\ UNCHANGED plan
    /\ UNCHANGED <<symbol, market, base, regime, chosen, signal, tickSpread>>

\* The snapshot's spread is in points and is taken for a price.
SpreadStress == market.spread * PerUnit * StressMultiplier
Slippage     == 10 * SlippagePoints

StressedLoss ==
    LET entry == IF signal.side = "BUY" THEN signal.entry + SpreadStress + Slippage
                                        ELSE signal.entry - SpreadStress - Slippage
        stop  == IF signal.side = "BUY" THEN plan.stop - Slippage ELSE plan.stop + Slippage
    IN  Abs(entry - stop) * symbol.contract * plan.lot

\* Mutant: the loss was bounded by the sizing, so only the ratio is checked.
SimulateRatioOnly ==
    /\ step = "PreTradeSimulation"
    /\ step' = IF plan.ratio THEN "BrokerHealthCheck" ELSE "ended"
    /\ UNCHANGED <<symbol, context>>

Simulate ==
    /\ step = "PreTradeSimulation"
    /\ step' = IF plan.ratio /\ StressedLoss <= RiskAmount THEN "BrokerHealthCheck" ELSE "ended"
    /\ UNCHANGED <<symbol, context>>

\* The spread of a fresh tick is a price, and the limit is in points; the
\* other six conditions may refuse any signal.
CheckBroker ==
    /\ step = "BrokerHealthCheck"
    /\ tickSpread' \in TickSpreads
    /\ \/ tickSpread' <= MaxSpreadPoints * PerUnit /\ step' = "ExecutionGate"
       \/ step' = "ended"
    /\ UNCHANGED <<symbol, market, base, regime, chosen, signal, plan>>

Next ==
    \/ FilterEvents \/ DetectRegime \/ SelectStrategy \/ RunStrategy \/ BuildContract
    \/ ValidateSignal \/ ValidateEdge
    \/ AssessRisk \/ Simulate \/ CheckBroker

Spec == Init /\ [][Next]_pathVars

SignalType == [side: {"BUY", "SELL"}, entry: Nat \ {0}, stop: Int, target: Int]
PlanType   == [stop: Int, target: Int, lot: Nat \ {0}, ratio: BOOLEAN]

TypeOK ==
    /\ step \in {"MarketEventFilter", "MarketRegimeEngine", "StrategySelector", "StrategyEngine",
                 "SignalContractBuilder", "SignalValidator", "HistoricalEdgeValidator", "RiskEngine",
                 "PreTradeSimulation", "BrokerHealthCheck", "ExecutionGate", "ended"}
    /\ symbol \in SymbolType
    /\ market \in MarketType
    /\ base \in Int
    /\ regime \in Regimes \cup {"none"}
    /\ chosen \in RowType \cup {None}
    /\ signal \in SignalType \cup {None}
    /\ plan \in PlanType \cup {None}
    /\ tickSpread \in Nat
-----------------------------------------------------------------------------
\* Properties

\* What follows is in TradingCycle.
AtGate == step = "ExecutionGate"

\* What reaches the gate loses at its stop no more than the risk of one trade,
\* even with the lot lifted to the broker's minimum, if the contract size is
\* known.
RiskWithinBudget ==
    AtGate /\ symbol.contract > 0 =>
        Abs(signal.entry - plan.stop) * symbol.contract * plan.lot <= RiskAmount

\* Stop and target are on their sides of the entry, real prices, and as far
\* apart as min_rr asks, also where defaults replace those of the strategy.
StopsGuard ==
    AtGate =>
        /\ IF signal.side = "BUY" THEN plan.stop < signal.entry /\ signal.entry < plan.target
                                  ELSE plan.target < signal.entry /\ signal.entry < plan.stop
        /\ plan.stop > 0 /\ plan.target > 0
        /\ 10 * Abs(plan.target - signal.entry) >= MinRR * Abs(signal.entry - plan.stop)

\* The lot is one the broker takes, and above max_lot only if the broker takes
\* no less; an unknown contract size leaves it at fixed_lot.
LotTradable ==
    AtGate =>
        IF symbol.contract > 0
        THEN symbol.volMin <= plan.lot /\ plan.lot <= Greatest(symbol.volMin, Least(symbol.volMax, MaxLot))
        ELSE plan.lot = FixedLot

\* The strategy behind a signal at the gate is the one made for the regime, and
\* never trades against a trend, whatever codes and configs the tables hold.
StrategyFitsRegime ==
    AtGate =>
        /\ \A key \in DOMAIN NamesIn : Resolves(chosen, key) =>
              key = CASE regime \in {"TRENDING_BULLISH", "TRENDING_BEARISH"} -> "EMA_ATR_TREND"
                      [] regime = "HIGH_VOLATILITY" -> "VOLATILITY_BREAKOUT"
                      [] regime = "RANGING" -> "RANGE_REVERSION"
                      [] regime \in {"CHOPPY", "LOW_VOLATILITY", "none"} -> "no strategy"
        /\ regime = "TRENDING_BULLISH" => signal.side = "BUY"
        /\ regime = "TRENDING_BEARISH" => signal.side = "SELL"

\* settings.max_spread_points: no order with a wider spread.
SpreadLimitHolds == AtGate => tickSpread <= MaxSpreadPoints
=============================================================================
