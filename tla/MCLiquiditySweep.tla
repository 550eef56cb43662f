-------------------------- MODULE MCLiquiditySweep --------------------------
(***************************************************************************)
(* TLC instance of LiquiditySweep: candles around a support of 400 and a   *)
(* resistance of 440, with an ATR of 20 or, without the feature, the width *)
(* of the candle.                                                          *)
(***************************************************************************)
EXTENDS LiquiditySweep

MCCandles ==
    {c \in [low : {390, 392, 393, 394, 396, 403}, open : {393, 394, 398, 400, 420, 432, 444},
            close : {393, 399, 400, 406, 428, 441}, high : {406, 440, 446, 447, 448, 450},
            volume : {0, 9, 13}] :
        /\ c.low <= c.open /\ c.low <= c.close
        /\ c.open <= c.high /\ c.close <= c.high}

MCFeatures ==
    [high : BOOLEAN, atr : {20}, volume : {0, 10}, volatility : {40, 80}, price : {420},
     supports : {{400}, {380, 400}}, resistances : {{440}}]
    \cup [high : {TRUE}, atr : {-1, 0, 20}, volume : {10}, volatility : {80}, price : {0, 430},
          supports : {{}, {400}}, resistances : {{}}]

MCConfigs ==
    {Seeded,
     [Seeded EXCEPT !.mode = "conservative"],
     [Seeded EXCEPT !.mode = "conservative", !.ratio = 10],
     [Seeded EXCEPT !.mode = "moderate", !.stop = 20],
     [Seeded EXCEPT !.take = 70, !.minVolatility = 0, !.minConfidence = 8000],
     [Seeded EXCEPT !.stop = 400]}

=============================================================================
