--------------------------- MODULE PaperDecision ----------------------------
(***************************************************************************)
(* The paper pipeline (ai_trading_automation) from a dataset to a decision *)
(* and, for an order, to what its candle made of it.  The stages before    *)
(* the order share no state, so they are operators of one case: a dataset  *)
(* as the code sees it and the figures of a request.                       *)
(*                                                                         *)
(* Percentages are in tenths, confidences and ratios in hundredths, the    *)
(* simulation's factors in ten-thousandths.  Rounding to six digits is     *)
(* left out.                                                               *)
(***************************************************************************)
EXTENDS Integers, FiniteSets

\* data: absent, not valid OHLCV, valid with a first close of zero or less, or
\* usable; enough: min_rows; strong, consistent, up: trend strength, direction
\* and sign of the return; sure: a range's confidence reaches the selector's
\* minimum; move: last close to the one before; place: of the last close in
\* the range; high, low: of the last candle.
MarketType ==
    [data: {"absent", "invalid", "unpriced", "usable"},
     enough: BOOLEAN, strong: BOOLEAN, consistent: BOOLEAN, up: BOOLEAN,
     narrow: BOOLEAN, choppy: BOOLEAN, volatility: {"HIGH_VOLATILITY", "NORMAL", "LOW_VOLATILITY"}, sure: BOOLEAN,
     move: {"up", "flat", "down"}, place: {"bottom", "middle", "top"},
     close: Int, avgRange: Nat, high: Int, low: Int]

\* As the client sends them: nothing but the types is checked by the route.
RequestType == [balance: Int, risk: Int, dailyLoss: Int, positions: Int]

CaseType == [market: MarketType, request: RequestType]

\* Numbers for which the divisions below are exact.
Exact(c) ==
    /\ c.market.close % 1000 = 0
    /\ c.market.avgRange % 2 = 0
    /\ (c.request.balance * c.request.risk) % 1000 = 0

NONE == "none"

\* MarketDataLoaderService finds one readable file with the columns it needs.
Loaded(m) == m.data # "absent"

\* OHLCVValidationService finds nothing to complain of.
ValidOHLCV(m) == m.data # "invalid"

-----------------------------------------------------------------------------
\* Regime, strategy and signal

\* MarketRegimeService.detect, first match.
Regime(m) ==
    CASE ~m.enough                            -> "UNKNOWN"
      [] m.enough /\ m.strong /\ m.consistent -> IF m.up THEN "TREND_UP" ELSE "TREND_DOWN"
      [] m.enough /\ m.narrow /\ ~m.strong    -> "RANGE"
      [] OTHER -> IF m.choppy THEN "CHOPPY"
                  ELSE IF m.volatility = "NORMAL" THEN "UNKNOWN" ELSE m.volatility

\* StrategySelectorService.select: the other regimes, and an unsure range, wait.
StrategyKey(m) ==
    CASE Regime(m) \in {"TREND_UP", "TREND_DOWN"} -> "trend_follow_pullback"
      [] Regime(m) = "RANGE" /\ m.sure            -> "range_mean_reversion"
      [] Regime(m) = "HIGH_VOLATILITY"            -> "volatility_breakout"
      [] OTHER                                    -> "noop_wait"

Registered == {"noop_wait", "trend_follow_pullback", "range_mean_reversion"}

Direction(m) ==
    CASE StrategyKey(m) = "trend_follow_pullback" /\ m.move = "up"     -> "BUY"
      [] StrategyKey(m) = "trend_follow_pullback" /\ m.move = "down"   -> "SELL"
      [] StrategyKey(m) = "range_mean_reversion" /\ m.place = "bottom" -> "BUY"
      [] StrategyKey(m) = "range_mean_reversion" /\ m.place = "top"    -> "SELL"
      [] OTHER                                                         -> "WAIT"

Tradable(m) == Direction(m) # "WAIT"

Confidence(m) ==
    CASE StrategyKey(m) = "noop_wait" -> 30
      [] StrategyKey(m) = "trend_follow_pullback" /\ Tradable(m) -> 60
      [] StrategyKey(m) = "range_mean_reversion" /\ Tradable(m) -> 55
      [] OTHER -> 35

\* _enrich_signal_price_fields
Buffer(m) ==
    IF (3 * m.avgRange) \div 2 >= m.close \div 1000
    THEN (3 * m.avgRange) \div 2 ELSE m.close \div 1000

\* The sign of a profitable move.
Towards(m) == IF Direction(m) = "BUY" THEN 1 ELSE -1

StopLoss(m) == m.close - Towards(m) * Buffer(m)
TakeProfit(m) == m.close + Towards(m) * 2 * Buffer(m)

\* SignalContract: validate_price_fields_by_direction
Priced(m) == m.close > 0 /\ StopLoss(m) > 0 /\ TakeProfit(m) > 0

\* SignalContractService.build gives WAIT no prices.
Contracted(m) == Tradable(m) => Priced(m)

-----------------------------------------------------------------------------
\* Validation, risk, simulation and gate

\* Mutant: one side is forgotten.
AgainstTrendUp(m) == Regime(m) = "TREND_UP" /\ Direction(m) = "SELL"

AgainstTrend(m) ==
    \/ Regime(m) = "TREND_UP" /\ Direction(m) = "SELL"
    \/ Regime(m) = "TREND_DOWN" /\ Direction(m) = "BUY"

\* What SignalValidatorService lists as errors.
Errors(m) ==
    {e \in {"wait", "stop side", "take side", "regime"} :
        \/ e = "wait" /\ ~Tradable(m)
        \/ e = "stop side" /\ Tradable(m) /\ Towards(m) * (m.close - StopLoss(m)) <= 0
        \/ e = "take side" /\ Tradable(m) /\ Towards(m) * (TakeProfit(m) - m.close) <= 0
        \/ e = "regime" /\ AgainstTrend(m)}

Warnings(m) == IF Regime(m) \in {"UNKNOWN", "CHOPPY", "LOW_VOLATILITY"} THEN 1 ELSE 0

Score(m) ==
    LET score == Confidence(m) - 35 * Cardinality(Errors(m)) - 8 * Warnings(m)
    IN  IF score < 0 THEN 0 ELSE score

MinScore == 60

Valid(m) == Errors(m) = {} /\ Score(m) >= MinScore

\* RiskEngineService.calculate
RiskAmount(q) == (q.balance * q.risk) \div 1000

RiskRefused(q) ==
    \/ q.balance <= 0 \/ q.dailyLoss < 0 \/ q.positions < 0
    \/ q.positions >= 3
    \/ q.risk <= 0 \/ q.risk > 10
    \/ 1000 * (q.dailyLoss + RiskAmount(q)) > 30 * q.balance

\* A signal that is not traded gets _fallback_risk_plan.
MaxLoss(c) == IF Valid(c.market) THEN RiskAmount(c.request) ELSE 0
RiskReward(c) ==
    IF Valid(c.market) THEN (100 * 2 * Buffer(c.market)) \div Buffer(c.market) ELSE 0

\* SimulationAssumptions, which nobody overrides.
Assumed == [spread |-> 4, slippage |-> 4, adverse |-> 2000, worstCase |-> 13500,
            spreadExtreme |-> 25, slippageExtreme |-> 30]

\* PreTradeSimulationService.run
SimulationPassed(c) ==
    /\ Valid(c.market)
    /\ Assumed.spread < Assumed.spreadExtreme
    /\ Assumed.slippage < Assumed.slippageExtreme
    /\ MaxLoss(c) * (10000 + Assumed.spread + Assumed.slippage + Assumed.adverse)
          <= MaxLoss(c) * Assumed.worstCase

\* ExecutionGateService.decide, first match.
Decision(c) ==
    IF ~Valid(c.market) THEN "REJECT"
    ELSE IF Score(c.market) < 60 \/ ~SimulationPassed(c) THEN "WAIT"
    ELSE IF RiskReward(c) < 120 THEN "REJECT"
    ELSE IF c.request.risk >= 9 THEN "REDUCE_RISK"
    ELSE "APPROVE"

\* The stage at which a case ends the run before an order could be placed.
FailsAt(c) ==
    LET m == c.market IN
    CASE ~Loaded(m)                      -> "market_data"
      [] Loaded(m) /\ ~ValidOHLCV(m)     -> "ohlcv_validation"
      [] m.data = "unpriced" /\ m.enough -> "market_regime"
      [] OTHER ->
           IF StrategyKey(m) \notin Registered THEN "strategy_engine"
           ELSE IF ~Contracted(m) THEN "signal_contract"
           ELSE IF Valid(m) /\ RiskRefused(c.request) THEN "risk_engine"
           ELSE NONE

-----------------------------------------------------------------------------
\* The paper broker

StopHit(m) == IF Direction(m) = "BUY" THEN m.low <= StopLoss(m) ELSE m.high >= StopLoss(m)
TakeHit(m) == IF Direction(m) = "BUY" THEN m.high >= TakeProfit(m) ELSE m.low <= TakeProfit(m)

MonitoredStatus(m) == IF StopHit(m) \/ TakeHit(m) THEN "CLOSED" ELSE "OPEN"

\* Mutant: the kinder of two hits.
ExitTakeFirst(m) == IF TakeHit(m) THEN TakeProfit(m) ELSE StopLoss(m)

\* Both hit within one candle counts as the stop: CONSERVATIVE_SL_FIRST.
ExitPrice(m) == IF StopHit(m) THEN StopLoss(m) ELSE TakeProfit(m)

\* The lot is RiskAmount / Buffer.
RealizedPnl(c) ==
    (Towards(c.market) * (ExitPrice(c.market) - c.market.close) * MaxLoss(c))
        \div Buffer(c.market)
=============================================================================
