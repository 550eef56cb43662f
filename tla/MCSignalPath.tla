---------------------------- MODULE MCSignalPath ----------------------------
(***************************************************************************)
(* SignalPath on a small instance: gold and a currency pair, an ATR in     *)
(* every band of volatility, and tables with seeded and other codes.       *)
(***************************************************************************)
EXTENDS SignalPath

Row(code, others, highVol, sl, tp) ==
    [code |-> code, parts |-> others \cup {code}, highVol |-> highVol, confirm |-> TRUE,
     slMult |-> sl, tpMult |-> tp]

Trend     == Row("EMA_ATR_TREND", {"TREND"}, TRUE, 15, 25)
Sweep     == Row("LIQUIDITY_SWEEP_REVERSAL", {"LIQUIDITY", "SWEEP", "REVERSAL"}, TRUE, 15, 25)
Reversion == Row("RANGE_REVERSION", {"RANGE", "REVERSION"}, FALSE, 12, 18)
Breakout  == Row("VOLATILITY_BREAKOUT", {"BREAKOUT"}, TRUE, 12, 22)

\* Not seeded: a code that mixes two names, one that is part of a name, one
\* with a target a falling price cannot reach, one that nothing implements.
Mixed   == Row("EMA_ATR_TREND_BREAKOUT", {"EMA_ATR_TREND", "TREND", "BREAKOUT"}, TRUE, 15, 25)
Short   == [Row("TREND", {}, TRUE, 15, 25) EXCEPT !.confirm = FALSE]
Distant == Row("RANGE_REVERSION", {"RANGE", "REVERSION"}, FALSE, 12, 10000)
Unknown == Row("MEAN_REVERSION_2", {"MEAN_REVERSION", "REVERSION"}, FALSE, 12, 18)

MCTables == {<<Trend, Sweep, Reversion, Breakout>>, <<Mixed, Distant, Short>>,
             <<Sweep, Unknown, [Breakout EXCEPT !.highVol = FALSE]>>, <<>>}

MCMarkets == [close: {2000000}, atr: {0, 200, 400, 600}, gap: {-4800, -2000, 0, 4800},
              spread: {0, 1, 60}, filters: BOOLEAN, hint: {"bullish", "bearish", "none"}]

Gold(min, contract) ==
    [gold |-> TRUE, volMin |-> min, volMax |-> 5000, volStep |-> 1, contract |-> contract]

MCSymbols == {Gold(1, 100), Gold(200, 10), Gold(1, 0),
              [Gold(1, 100) EXCEPT !.gold = FALSE, !.volStep = 10, !.volMax = 20]}
=============================================================================
