CONSTANTS
    Tables <- MCTables
    Markets <- MCMarkets
    Accounts = {0, 1000, 20000}
    Symbols <- MCSymbols
    TickSpreads = {40, 60, 6000}
    RiskPercent = 1
    FixedLot = 1
    MaxLot = 100
    MinRR = 12
    MaxSpread = 50
    MaxSpreadPoints = 50
    StressMultiplier = 15
    SlippagePoints = 5
SPECIFICATION Spec
CHECK_DEADLOCK FALSE
INVARIANTS
    RiskWithinBudget
    StopsGuard
    LotTradable
    StrategyFitsRegime
