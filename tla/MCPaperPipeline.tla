-------------------------- MODULE MCPaperPipeline ---------------------------
(***************************************************************************)
(* PaperPipeline on a small instance: every regime, both sides, candles    *)
(* that reach the stop, the target, both or neither, and requests on       *)
(* either side of each limit.                                              *)
(***************************************************************************)
EXTENDS PaperPipeline

RunSymmetry == Permutations(Runs)

Trend(up, move, low, high) ==
    [data |-> "usable", enough |-> TRUE, strong |-> TRUE, consistent |-> TRUE, up |-> up,
     narrow |-> FALSE, choppy |-> FALSE, volatility |-> "NORMAL", sure |-> TRUE,
     move |-> move, place |-> "middle", close |-> 2000, avgRange |-> 20, high |-> high, low |-> low]

Quiet(volatility, choppy, narrow, sure, place) ==
    [Trend(TRUE, "up", 1990, 2010) EXCEPT !.strong = FALSE, !.volatility = volatility,
        !.choppy = choppy, !.narrow = narrow, !.sure = sure, !.place = place]

\* With an average range of 20 the stop is 30 and the target 60 away.
Orderly == {Trend(TRUE, "up", 1990, 2060), Trend(TRUE, "up", 1970, 2000),
            Trend(FALSE, "down", 1940, 2030), Trend(FALSE, "down", 1990, 2010)}

Others ==
    {Trend(TRUE, "down", 1990, 2010), Trend(FALSE, "up", 1990, 2010), Trend(TRUE, "flat", 1990, 2010),
     [Trend(TRUE, "up", 1990, 2010) EXCEPT !.enough = FALSE],
     [Trend(TRUE, "up", 1990, 2010) EXCEPT !.data = "absent"],
     [Trend(TRUE, "up", 1990, 2010) EXCEPT !.data = "invalid"],
     [Trend(TRUE, "up", 1990, 2010) EXCEPT !.data = "unpriced"],
     [Trend(FALSE, "down", 1000, 5000) EXCEPT !.avgRange = 1000]}
    \cup {Quiet(v, ch, FALSE, TRUE, "middle") : v \in {"HIGH_VOLATILITY", "NORMAL", "LOW_VOLATILITY"},
                                               ch \in BOOLEAN}
    \cup {Quiet("NORMAL", FALSE, TRUE, sure, place) : sure \in BOOLEAN, place \in {"bottom", "middle", "top"}}

Request(risk, dailyLoss, positions) ==
    [balance |-> 10000, risk |-> risk, dailyLoss |-> dailyLoss, positions |-> positions]

MCRequests ==
    {Request(5, 0, 0), Request(8, 220, 2), Request(8, 221, 0), Request(9, 0, 0), Request(11, 0, 0),
     Request(5, 0, 3), Request(0, 0, 0)}

MCCases ==
    {[market |-> m, request |-> Request(5, 0, 0)] : m \in Orderly \cup Others}
    \cup {[market |-> Trend(TRUE, "up", 1970, 2000), request |-> q] : q \in MCRequests}

MCLedgers == {<<>>, <<-50, 100, 100, -50>>}

\* The defaults of the code, and a database that may be missing at the start.
MCSettings == {[orders |-> "memory", journal |-> "file", strict |-> FALSE],
               [orders |-> "db", journal |-> "db", strict |-> FALSE]}
=============================================================================
