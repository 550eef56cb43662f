\* With all trades closed, all days over and its session poisoned, the thread
\* waits for a restart.
CONSTANTS
    Accounts = {a1, a2}
    Keys = {k1, k2}
    Profits <- MCProfits
    MinTrades = 2
    LowWinPercent = 40
    HighDrawdown = 2
    MaxTrades = 2
    MaxDays = 2
    MaxRuns = 2
    MaxEnds = 1
SPECIFICATION Spec
INVARIANTS
    DailyRowsTrue
    AdviceExplained
PROPERTIES
    TradesCounted
CHECK_DEADLOCK FALSE
